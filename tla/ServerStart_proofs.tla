------------------------- MODULE ServerStart_proofs -------------------------
(***************************************************************************)
(* Proofs about the threads that openTcpServer starts, for any number of   *)
(* them, of connections and of descriptors, and for every hash function.   *)
(*                                                                         *)
(* TypeOK is inductive.  The other theorems come from three invariants,    *)
(* each on top of the ones before it:                                      *)
(*   - StartInv, until the second close of close_cb closes something:      *)
(*     every thread watches and handles only descriptors that it serves,   *)
(*     its own listening socket and, if that one listens on the port, the  *)
(*     connections.  What the hash table answers plays no part in it;      *)
(*   - TableInv, always: the table is sound, by UtHash_proofs;             *)
(*   - ServeInv, as long as StartInv: the table has a node for exactly     *)
(*     what the threads answer for, and the listening socket keeps its     *)
(*     node, its flag and its place in the epoll object.                   *)
(***************************************************************************)
EXTENDS ServerStart, UtHash_proofs, FiniteSetTheorems, TLAPS

LEMMA FdKinds == NoFd \notin Fds /\ Keys = Fds \cup {NoFd}
<1>1. NoFd \notin Nat
  BY DEF NoFd
<1>2. QED
  BY <1>1, StartAssumption

(* What two descriptors stand for is told apart. *)
LEMMA Files ==
  /\ \A s : Listener(s) # Free /\ Epoll(s) # Free
  /\ \A c : Client(c) # Free
  /\ \A s, c : Listener(s) # Client(c)
  /\ \A s, t : Listener(s) = Listener(t) => s = t
  /\ \A s, t : Listener(s) # Epoll(t)
<1>1. ASSUME NEW s PROVE Listener(s).is = "listener" /\ Listener(s).of = s /\ Epoll(s).is = "epoll"
  BY DEF Listener, Epoll
<1>2. ASSUME NEW c PROVE Client(c).is = "client"
  BY DEF Client
<1>3. Free.is = "free"
  BY DEF Free
<1>4. QED
  BY <1>1, <1>2, <1>3

-----------------------------------------------------------------------------
(* Type correctness. *)

Places == {"none", "socket", "returned", "bind", "listen", "epoll", "wait", "next",
           "accept", "hup", "read", "erase", "close again"} \cup AtTable
Events == [fd : Fds, hup : BOOLEAN]

LEMMA CloseType ==
  ASSUME TypeOK, NEW fd, Close(fd)
  PROVE  /\ watched' \in [Server -> SUBSET Fds]
         /\ state' \in [Server -> {"none", "closed", "bound", "listening", "elsewhere", "gone"}]
         /\ stage' \in [Conn -> {"new", "backlog", "accepted", "closed"}]
<1>1. watched' \in [Server -> SUBSET Fds]
  BY DEF TypeOK, Close
<1>2. state' \in [Server -> {"none", "closed", "bound", "listening", "elsewhere", "gone"}]
  BY DEF TypeOK, Close
<1>3. stage' \in [Conn -> {"new", "backlog", "accepted", "closed"}]
  BY DEF TypeOK, Close
<1>4. QED
  BY <1>1, <1>2, <1>3

LEMMA AddType ==
  ASSUME TypeOK, NEW s \in Server, PollEventAdd(s)
  PROVE  watched' \in [Server -> SUBSET Fds]
<1>1. new[s] \in Fds \cup {NoFd}
  BY DEF TypeOK
<1>2. watched' = watched \/ (new[s] # NoFd /\ watched' = [watched EXCEPT ![s] = @ \cup {new[s]}])
  BY DEF PollEventAdd
<1>3. CASE watched' = watched
  BY <1>3 DEF TypeOK
<1>4. CASE new[s] # NoFd /\ watched' = [watched EXCEPT ![s] = @ \cup {new[s]}]
  <2>1. watched \in [Server -> SUBSET Fds] /\ watched[s] \cup {new[s]} \in SUBSET Fds
    BY <1>1, <1>4 DEF TypeOK
  <2>2. QED
    BY <1>4, <2>1
<1>5. QED
  BY <1>2, <1>3, <1>4

LEMMA EventType ==
  ASSUME NEW fd \in Fds
  PROVE  [fd |-> fd, hup |-> Hup(fd)] \in Events
<1>1. CASE Hup(fd)
  <2>1. Hup(fd) = TRUE
    BY <1>1
  <2>2. QED
    BY <2>1 DEF Events
<1>2. CASE ~Hup(fd)
  <2>1. Hup(fd) = FALSE
    BY <1>2
  <2>2. [fd |-> fd, hup |-> Hup(fd)] = [fd |-> fd, hup |-> FALSE]
    BY <2>1, Zenon
  <2>3. QED
    BY <2>2 DEF Events
<1>3. QED
  BY <1>1, <1>2

LEMMA TypeStep == TypeOK /\ [Next]_vars => TypeOK'
<1> SUFFICES ASSUME TypeOK, [Next]_vars PROVE TypeOK'
  OBVIOUS
<1> USE DEF TypeOK, Go, thread, kernel, nodes, AtTable
<1>1. ASSUME NEW c \in Conn, Connect(c) \/ ClientEnds(c) PROVE TypeOK'
  BY <1>1 DEF Connect, ClientEnds
<1>2. ASSUME NEW s \in Server, CreateTcpServer(s) \/ CreateSocketFails(s) \/ ReadCb(s) \/ EraseBuffer(s)
      PROVE  TypeOK'
  BY <1>2 DEF CreateTcpServer, CreateSocketFails, ReadCb, EraseBuffer
<1>3. ASSUME NEW s \in Server, CreateSocket(s) PROVE TypeOK'
  <2>1. PICK fd \in Fds : sock' = [sock EXCEPT ![s] = fd]
    BY <1>3 DEF CreateSocket, NewFd, FreeFds
  <2>2. sock' \in [Server -> Fds \cup {NoFd}]
    BY <2>1
  <2>3. QED
    BY <1>3, <2>2 DEF CreateSocket
<1>4. ASSUME NEW s \in Server, BindSocket(s) PROVE TypeOK'
  BY <1>4 DEF BindSocket
<1>5. ASSUME NEW s \in Server, ListenSocket(s) PROVE TypeOK'
  <2>1. state' \in [Server -> {"none", "closed", "bound", "listening", "elsewhere", "gone"}]
    BY <1>5 DEF ListenSocket
  <2>2. QED
    BY <1>5, <2>1 DEF ListenSocket
<1>6. ASSUME NEW s \in Server, PollEventNew(s) PROVE TypeOK'
  BY <1>6 DEF PollEventNew
<1>7. ASSUME NEW s \in Server, AddToEpoll(s) PROVE TypeOK'
  <2>1. watched' \in [Server -> SUBSET Fds]
    BY <1>7, AddType DEF AddToEpoll
  <2>2. accepting' \subseteq Keys
    BY <1>7, FdKinds DEF AddToEpoll
  <2>3. QED
    BY <1>7, <2>1, <2>2 DEF AddToEpoll
<1>8. ASSUME NEW s \in Server, AddClient(s) PROVE TypeOK'
  <2>1. watched' \in [Server -> SUBSET Fds]
    BY <1>8, AddType DEF AddClient
  <2>2. QED
    BY <1>8, <2>1 DEF AddClient
<1>9. ASSUME NEW s \in Server, EpollWait(s) PROVE TypeOK'
  <2> DEFINE E == {[fd |-> fd, hup |-> Hup(fd)] : fd \in {f \in watched[s] : IsReady(f)}}
  <2>1. E \subseteq Events
    <3> SUFFICES ASSUME NEW e \in E PROVE e \in Events
      OBVIOUS
    <3>1. PICK fd \in watched[s] : e = [fd |-> fd, hup |-> Hup(fd)]
      OBVIOUS
    <3>2. watched[s] \subseteq Fds
      OBVIOUS
    <3>3. QED
      BY <3>1, <3>2, EventType
  <2>2. ready' = [ready EXCEPT ![s] = E]
    BY <1>9 DEF EpollWait
  <2> HIDE DEF E
  <2>3. ready' \in [Server -> SUBSET Events]
    BY <2>1, <2>2 DEF Events
  <2>4. QED
    BY <1>9, <2>3 DEF EpollWait, Events
<1>10. ASSUME NEW s \in Server, NextEvent(s) PROVE TypeOK'
  <2>1. PICK e \in ready[s] : /\ ready' = [ready EXCEPT ![s] = @ \ {e}]
                              /\ cur' = [cur EXCEPT ![s] = e]
    BY <1>10 DEF NextEvent
  <2>2. e \in Events
    BY DEF Events
  <2>3. QED
    BY <1>10, <2>1, <2>2 DEF NextEvent, Events
<1>11. ASSUME NEW s \in Server, EventsDone(s) PROVE TypeOK'
  BY <1>11 DEF EventsDone
<1>12. ASSUME NEW s \in Server, HandleEvent(s) PROVE TypeOK'
  <2>1. PICK to \in {"next", "hup", "accept", "read"} : pc' = [pc EXCEPT ![s] = to]
    BY <1>12 DEF HandleEvent
  <2>2. QED
    BY <1>12, <2>1 DEF HandleEvent
<1>13. ASSUME NEW s \in Server, Accept(s) PROVE TypeOK'
  <2>1. stage' \in [Conn -> {"new", "backlog", "accepted", "closed"}]
    BY <1>13 DEF Accept
  <2>2. new' \in [Server -> Fds \cup {NoFd}]
    BY <1>13 DEF Accept, NewFd, FreeFds
  <2>3. QED
    BY <1>13, <2>1, <2>2 DEF Accept
<1>14. ASSUME NEW s \in Server, CheckHup(s) PROVE TypeOK'
  BY <1>14 DEF CheckHup
<1>15. ASSUME NEW s \in Server, PollEventRemove(s) PROVE TypeOK'
  <2>1. accepting' \subseteq Keys
    BY <1>15 DEF PollEventRemove
  <2>2. \/ Close(cur[s].fd)
        \/ UNCHANGED <<watched, state, stage>>
    BY <1>15 DEF PollEventRemove
  <2>3. QED
    BY <1>15, <2>1, <2>2, CloseType DEF PollEventRemove
<1>16. ASSUME NEW s \in Server, CloseAgain(s) PROVE TypeOK'
  <2>1. Close(cur[s].fd)
    BY <1>16 DEF CloseAgain
  <2>2. QED
    BY <1>16, <2>1, CloseType DEF CloseAgain
<1>17. CASE UNCHANGED vars
  BY <1>17 DEF vars
<1>18. QED
  BY <1>1, <1>2, <1>3, <1>4, <1>5, <1>6, <1>7, <1>8, <1>9, <1>10, <1>11, <1>12, <1>13,
     <1>14, <1>15, <1>16, <1>17
     DEF Next, Run

(***************************************************************************)
(* The threads, their epoll objects and the connections keep their types.  *)
(***************************************************************************)
THEOREM TypeCorrect == Spec => []TypeOK
<1>1. Init => TypeOK
  BY FdKinds DEF Init, TypeOK, NoEvent
<1>2. QED
  BY <1>1, TypeStep, PTL DEF Spec

-----------------------------------------------------------------------------
(* The inductive invariant. *)

(* A thread has an event in hand, and the descriptor of it is not yet closed. *)
HasEvent == {"find", "accept", "add client", "read", "hup", "remove"}
Handling == HasEvent \cup {"erase", "close again"}
Looping == Handling \cup {"wait", "next"}

Serves(s, fd) ==
  /\ fd \in Fds
  /\ \/ fdTable[fd] = Listener(s)
     \/ state[s] = "listening" /\ \E c \in Conn : fdTable[fd] = Client(c)

(* Nobody hangs up a socket that listens on the port. *)
Harmless(s, e) == e.hup /\ state[s] = "listening" => fdTable[e.fd] # Listener(s)

SocketInv(s) ==
  /\ \A fd \in Fds : fdTable[fd] = Listener(s) =>
       fd = sock[s] /\ pc[s] \notin {"none", "socket", "returned"}
  /\ pc[s] \in {"bind", "listen", "epoll", "add listener"} => Own(s)
  /\ pc[s] = "add listener" => new[s] = sock[s]

(* A start that fails to listen does so because another socket listens. *)
PortInv(s) ==
  /\ pc[s] \in {"none", "socket", "returned"} => state[s] = "none"
  /\ pc[s] = "bind" => state[s] = "closed"
  /\ pc[s] = "listen" => state[s] = "bound" \/ (state[s] = "closed" /\ PortTaken)
  /\ Started(s) => PortTaken

LoopInv(s) ==
  /\ pc[s] \notin Looping => watched[s] = {}
  /\ pc[s] \notin Handling \cup {"next"} => ready[s] = {}
  /\ \A fd \in watched[s] : Serves(s, fd)
  /\ \A e \in ready[s] : Serves(s, e.fd) /\ Harmless(s, e)
  /\ \A e, f \in ready[s] : e.fd = f.fd => e = f

EventInv(s) ==
  /\ pc[s] \in HasEvent => Serves(s, cur[s].fd) /\ Harmless(s, cur[s])
  /\ pc[s] \in HasEvent => \A e \in ready[s] : e.fd # cur[s].fd
  /\ pc[s] \in Handling => state[s] = "listening" \/ (cur[s].fd = sock[s] /\ sock[s] \in Fds)
  /\ pc[s] = "add client" => new[s] = NoFd \/ Serves(s, new[s])
  /\ pc[s] = "remove" => cur[s].hup

ThreadInv(s) == SocketInv(s) /\ PortInv(s) /\ LoopInv(s) /\ EventInv(s)

OneListens == \A s, t \in Server : state[s] = "listening" /\ state[t] = "listening" => s = t

FdType ==
  fdTable \in [Fds -> {Free} \cup {Epoll(s) : s \in Server} \cup {Listener(s) : s \in Server}
                          \cup {Client(c) : c \in Conn}]

GoodInv == OneListens /\ \A s \in Server : ThreadInv(s)

StartInv == TypeOK /\ FdType /\ (victims = {} => GoodInv)

(* A step of another thread, which leaves alone what this one serves. *)
LEMMA Frame ==
  ASSUME TypeOK, NEW s \in Server, ThreadInv(s),
         pc'[s] = pc[s], sock'[s] = sock[s], ready'[s] = ready[s], cur'[s] = cur[s],
         new'[s] = new[s], state'[s] = state[s], watched'[s] \subseteq watched[s],
         PortTaken => PortTaken',
         \A fd \in Fds : Serves(s, fd) => fdTable'[fd] = fdTable[fd],
         \A fd \in Fds : fdTable'[fd] = Listener(s) => fdTable[fd] = Listener(s)
  PROVE  ThreadInv(s)'
<1>1. ASSUME NEW fd, Serves(s, fd) PROVE Serves(s, fd)' /\ fdTable'[fd] = fdTable[fd]
  BY <1>1 DEF Serves
<1>2. SocketInv(s)'
  <2>1. Own(s) => Own(s)'
    BY DEF Own, Serves
  <2>2. QED
    BY <2>1 DEF ThreadInv, SocketInv
<1>3. PortInv(s)'
  BY DEF ThreadInv, PortInv, Started
<1>4. LoopInv(s)'
  BY <1>1 DEF ThreadInv, LoopInv, Harmless
<1>5. EventInv(s)'
  BY <1>1 DEF ThreadInv, EventInv, Harmless
<1>6. QED
  BY <1>2, <1>3, <1>4, <1>5 DEF ThreadInv

(* What a thread serves is open, and no other thread serves it. *)
LEMMA ServedOnce ==
  ASSUME OneListens, NEW s \in Server, NEW fd, Serves(s, fd)
  PROVE  /\ fd \in Fds /\ fdTable[fd] # Free
         /\ \A t \in Server \ {s} : ~Serves(t, fd) /\ fdTable[fd] # Listener(t)
  BY Files DEF Serves, OneListens

(* Only the thread itself acts, and it changes neither descriptors nor sockets. *)
LEMMA LocalStep ==
  ASSUME TypeOK, NEW t \in Server, \A s \in Server : ThreadInv(s), OneListens,
         UNCHANGED <<fdTable, state>>,
         \A s \in Server \ {t} :
           /\ pc'[s] = pc[s] /\ sock'[s] = sock[s] /\ ready'[s] = ready[s]
           /\ cur'[s] = cur[s] /\ new'[s] = new[s] /\ watched'[s] \subseteq watched[s],
         ThreadInv(t)'
  PROVE  OneListens' /\ \A s \in Server : ThreadInv(s)'
<1>1. OneListens'
  BY DEF OneListens
<1>2. PortTaken => PortTaken'
  BY DEF PortTaken
<1>3. ASSUME NEW s \in Server \ {t} PROVE ThreadInv(s)'
  BY <1>2, Frame
<1>4. QED
  BY <1>1, <1>3

(* What an action of thread t leaves to the others. *)
OthersRest(t) ==
  \A s \in Server \ {t} :
    /\ pc'[s] = pc[s] /\ sock'[s] = sock[s] /\ ready'[s] = ready[s]
    /\ cur'[s] = cur[s] /\ new'[s] = new[s]
    /\ state'[s] = state[s] /\ watched'[s] \subseteq watched[s]

(* The others' part of any action that keeps who listens and what they serve. *)
LEMMA OthersKeep ==
  ASSUME TypeOK, OneListens, NEW t \in Server, \A s \in Server : ThreadInv(s), OthersRest(t),
         state[t] = "listening" => state'[t] = "listening",
         \A s \in Server \ {t}, fd \in Fds : Serves(s, fd) => fdTable'[fd] = fdTable[fd],
         \A s \in Server \ {t}, fd \in Fds : fdTable'[fd] = Listener(s) => fdTable[fd] = Listener(s)
  PROVE  /\ PortTaken => PortTaken'
         /\ \A s \in Server \ {t} : ThreadInv(s)'
<1>1. PortTaken => PortTaken'
  BY DEF PortTaken, OthersRest
<1>2. ASSUME NEW s \in Server \ {t} PROVE ThreadInv(s)'
  BY <1>1, Frame DEF OthersRest
<1>3. QED
  BY <1>1, <1>2

(* A free descriptor is given out: nobody served it. *)
LEMMA Fresh ==
  ASSUME FdType, NEW fd \in FreeFds, NEW file, fdTable' = [fdTable EXCEPT ![fd] = file]
  PROVE  /\ fd \in Fds /\ fdTable'[fd] = file
         /\ \A f \in Fds : f # fd => fdTable'[f] = fdTable[f]
         /\ \A s \in Server, f \in Fds : Serves(s, f) => f # fd
         /\ \A s \in Server : fdTable[fd] # Listener(s)
<1>1. fd \in Fds /\ fdTable[fd] = Free
  BY DEF FreeFds
<1>2. QED
  BY <1>1, Files DEF FdType, Serves

(* An action that only changes its thread's own variables. *)
LEMMA Local ==
  ASSUME TypeOK, GoodInv, NEW t \in Server, OthersRest(t), UNCHANGED <<fdTable, state>>,
         ThreadInv(t)'
  PROVE  GoodInv'
<1>1. OneListens'
  BY DEF GoodInv, OneListens
<1>2. \A s \in Server \ {t} : ThreadInv(s)'
  BY OthersKeep DEF GoodInv
<1>3. QED
  BY <1>1, <1>2 DEF GoodInv

LEMMA Stays ==
  ASSUME UNCHANGED <<fdTable, state>>
  PROVE  /\ PortTaken' <=> PortTaken
         /\ \A s \in Server : \A fd : Serves(s, fd)' <=> Serves(s, fd)
         /\ \A s \in Server : \A e : Harmless(s, e)' <=> Harmless(s, e)
  BY DEF PortTaken, Serves, Harmless

(* The steps that move one thread and change nothing that is shared. *)
LEMMA MoveStep ==
  ASSUME TypeOK, GoodInv, NEW t \in Server,
         \/ CreateTcpServer(t) \/ CreateSocketFails(t) \/ HandleEvent(t) \/ ReadCb(t)
         \/ CheckHup(t) \/ EraseBuffer(t)
  PROVE  GoodInv'
<1>1. UNCHANGED <<fdTable, state, watched, sock, ready, cur, new>>
  BY DEF CreateTcpServer, CreateSocketFails, HandleEvent, ReadCb, CheckHup, EraseBuffer, kernel
<1>2. PICK to \in Places :
        /\ pc' = [pc EXCEPT ![t] = to]
        /\ \/ pc[t] = "none" /\ to = "socket"
           \/ pc[t] = "socket" /\ to = "returned"
           \/ pc[t] = "find" /\ to \in {"next", "hup", "accept", "read"}
           \/ pc[t] = "read" /\ to = "hup"
           \/ pc[t] = "hup" /\ to = "next"
           \/ pc[t] = "hup" /\ to = "remove" /\ cur[t].hup
           \/ pc[t] = "erase" /\ to = "close again"
  <2>1. CASE CreateTcpServer(t) \/ CreateSocketFails(t) \/ ReadCb(t) \/ EraseBuffer(t)
    BY <2>1 DEF CreateTcpServer, CreateSocketFails, ReadCb, EraseBuffer, Go, Places, AtTable
  <2>2. CASE HandleEvent(t)
    BY <2>2 DEF HandleEvent, Go, Places, AtTable
  <2>3. CASE CheckHup(t)
    BY <2>3 DEF CheckHup, Go, Places, AtTable
  <2>4. QED
    BY <2>1, <2>2, <2>3
<1>3. pc'[t] = to /\ OthersRest(t)
  BY <1>1, <1>2 DEF OthersRest, TypeOK
<1>4. ThreadInv(t)
  BY DEF GoodInv
<1>5. SocketInv(t)'
  BY <1>1, <1>2, <1>3, <1>4 DEF ThreadInv, SocketInv, Own
<1>6. PortInv(t)'
  BY <1>1, <1>2, <1>3, <1>4, Stays DEF ThreadInv, PortInv, Started
<1>7. LoopInv(t)'
  BY <1>1, <1>2, <1>3, <1>4, Stays DEF ThreadInv, LoopInv, Looping, Handling, HasEvent
<1>8. EventInv(t)'
  BY <1>1, <1>2, <1>3, <1>4, Stays DEF ThreadInv, EventInv, Handling, HasEvent
<1>9. QED
  BY <1>1, <1>3, <1>5, <1>6, <1>7, <1>8, Local DEF ThreadInv

(* A listener that is ready to be hung up does not listen on the port. *)
LEMMA HupHarmless ==
  ASSUME NEW t \in Server, NEW fd, NEW e, e.fd = fd, e.hup => Hup(fd)
  PROVE  Harmless(t, e)
  BY Files DEF Harmless, Hup

LEMMA WaitStep ==
  ASSUME TypeOK, GoodInv, NEW t \in Server, EpollWait(t) \/ NextEvent(t) \/ EventsDone(t)
  PROVE  GoodInv'
<1>1. UNCHANGED <<fdTable, state, watched, sock, new>> /\ ThreadInv(t)
  BY DEF EpollWait, NextEvent, EventsDone, kernel, GoodInv
<1>2. CASE EpollWait(t)
  <2> DEFINE E == {[fd |-> fd, hup |-> Hup(fd)] : fd \in {f \in watched[t] : IsReady(f)}}
  <2>1. ready' = [ready EXCEPT ![t] = E] /\ pc' = [pc EXCEPT ![t] = "next"] /\ UNCHANGED cur
        /\ pc[t] = "wait"
    BY <1>2 DEF EpollWait, Go
  <2>2. ASSUME NEW e \in E PROVE Serves(t, e.fd) /\ Harmless(t, e) /\ e = [fd |-> e.fd, hup |-> Hup(e.fd)]
    <3>1. PICK fd \in watched[t] : e = [fd |-> fd, hup |-> Hup(fd)]
      OBVIOUS
    <3>2. e.fd = fd /\ e.hup = Hup(fd)
      BY <3>1
    <3>3. QED
      BY <1>1, <3>1, <3>2, HupHarmless DEF ThreadInv, LoopInv
  <2> HIDE DEF E
  <2>3. ready'[t] = E /\ pc'[t] = "next" /\ OthersRest(t)
    BY <1>1, <2>1 DEF OthersRest, TypeOK
  <2>4. \A e, f \in E : e.fd = f.fd => e = f
    BY <2>2
  <2>5. SocketInv(t)' /\ PortInv(t)'
    BY <1>1, <2>1, <2>3, Stays DEF ThreadInv, SocketInv, PortInv, Own, Started
  <2>6. LoopInv(t)'
    BY <1>1, <2>1, <2>2, <2>3, <2>4, Stays DEF ThreadInv, LoopInv, Looping, Handling, HasEvent
  <2>7. EventInv(t)'
    BY <2>3 DEF EventInv, Handling, HasEvent
  <2>8. QED
    BY <1>1, <2>3, <2>5, <2>6, <2>7, Local DEF ThreadInv
<1>3. CASE NextEvent(t)
  <2>1. PICK e \in ready[t] : /\ ready' = [ready EXCEPT ![t] = @ \ {e}]
                              /\ cur' = [cur EXCEPT ![t] = e]
    BY <1>3 DEF NextEvent
  <2>2. pc[t] = "next" /\ pc' = [pc EXCEPT ![t] = "find"]
    BY <1>3 DEF NextEvent, Go
  <2>3. /\ ready'[t] = ready[t] \ {e} /\ cur'[t] = e /\ pc'[t] = "find" /\ OthersRest(t)
    BY <1>1, <2>1, <2>2 DEF OthersRest, TypeOK
  <2>4. Serves(t, e.fd) /\ Harmless(t, e) /\ \A f \in ready'[t] : f.fd # e.fd
    BY <1>1, <2>3 DEF ThreadInv, LoopInv
  <2>5. state[t] = "listening" \/ (e.fd = sock[t] /\ sock[t] \in Fds)
    BY <1>1, <2>4 DEF ThreadInv, SocketInv, Serves
  <2>6. SocketInv(t)' /\ PortInv(t)'
    BY <1>1, <2>2, <2>3, Stays DEF ThreadInv, SocketInv, PortInv, Own, Started
  <2>7. LoopInv(t)'
    BY <1>1, <2>2, <2>3, Stays DEF ThreadInv, LoopInv, Looping, Handling, HasEvent
  <2>8. EventInv(t)'
    BY <1>1, <2>3, <2>4, <2>5, Stays DEF EventInv, Handling, HasEvent
  <2>9. QED
    BY <1>1, <2>3, <2>6, <2>7, <2>8, Local DEF ThreadInv
<1>4. CASE EventsDone(t)
  <2>1. /\ pc[t] = "next" /\ pc'[t] = "wait" /\ ready[t] = {} /\ UNCHANGED ready /\ OthersRest(t)
    BY <1>1, <1>4 DEF EventsDone, Go, OthersRest, TypeOK
  <2>2. SocketInv(t)' /\ PortInv(t)'
    BY <1>1, <2>1, Stays DEF ThreadInv, SocketInv, PortInv, Own, Started
  <2>3. LoopInv(t)' /\ EventInv(t)'
    BY <1>1, <2>1, Stays DEF ThreadInv, LoopInv, EventInv, Looping, Handling, HasEvent
  <2>4. QED
    BY <1>1, <2>1, <2>2, <2>3, Local DEF ThreadInv
<1>5. QED
  BY <1>2, <1>3, <1>4

(* poll_event_add registers what the thread serves, whatever the table finds. *)
LEMMA AddStep ==
  ASSUME TypeOK, GoodInv, NEW t \in Server, AddToEpoll(t) \/ AddClient(t)
  PROVE  GoodInv'
<1>1. UNCHANGED <<fdTable, state, sock, ready, cur, new>> /\ ThreadInv(t) /\ PollEventAdd(t)
  BY DEF AddToEpoll, AddClient, GoodInv
<1>2. PICK to \in {"wait", "hup"} :
        /\ pc' = [pc EXCEPT ![t] = to]
        /\ \/ pc[t] = "add listener" /\ to = "wait"
           \/ pc[t] = "add client" /\ to = "hup"
  BY DEF AddToEpoll, AddClient, Go
<1>3. \/ watched' = watched
      \/ new[t] # NoFd /\ watched' = [watched EXCEPT ![t] = @ \cup {new[t]}]
  BY <1>1 DEF PollEventAdd
<1>4. /\ OthersRest(t) /\ pc'[t] = to
      /\ watched'[t] = watched[t] \/ (new[t] # NoFd /\ watched'[t] = watched[t] \cup {new[t]})
  BY <1>1, <1>2, <1>3 DEF OthersRest, TypeOK
<1>5. new[t] # NoFd => Serves(t, new[t])
  BY <1>1, <1>2 DEF ThreadInv, SocketInv, EventInv, Own, Serves
<1>6. \A fd \in watched[t] : Serves(t, fd)
  BY <1>1 DEF ThreadInv, LoopInv
<1>7. \A fd \in watched'[t] : Serves(t, fd)
  BY <1>4, <1>5, <1>6
<1>8. SocketInv(t)' /\ PortInv(t)'
  BY <1>1, <1>2, <1>4, Stays DEF ThreadInv, SocketInv, PortInv, Own, Started
<1>9. LoopInv(t)'
  BY <1>1, <1>2, <1>4, <1>7, Stays DEF ThreadInv, LoopInv, Looping, Handling, HasEvent
<1>10. EventInv(t)'
  BY <1>1, <1>2, <1>4, Stays DEF ThreadInv, EventInv, Handling, HasEvent
<1>11. QED
  BY <1>1, <1>4, <1>8, <1>9, <1>10, Local DEF ThreadInv

LEMMA CreateStep ==
  ASSUME TypeOK, FdType, GoodInv, NEW t \in Server, CreateSocket(t)
  PROVE  GoodInv'
<1>1. PICK fd \in FreeFds : /\ sock' = [sock EXCEPT ![t] = fd]
                            /\ fdTable' = [fdTable EXCEPT ![fd] = Listener(t)]
  BY DEF CreateSocket, NewFd
<1>2. /\ pc[t] = "socket" /\ pc' = [pc EXCEPT ![t] = "bind"]
      /\ state' = [state EXCEPT ![t] = "closed"]
      /\ UNCHANGED <<ready, cur, new, watched>>
  BY DEF CreateSocket, Go
<1>3. /\ OthersRest(t) /\ pc'[t] = "bind" /\ sock'[t] = fd /\ state'[t] = "closed"
  BY <1>1, <1>2 DEF OthersRest, TypeOK
<1>4. /\ fd \in Fds /\ fdTable'[fd] = Listener(t)
      /\ \A f \in Fds : f # fd => fdTable'[f] = fdTable[f]
      /\ \A s \in Server, f \in Fds : Serves(s, f) => f # fd
  BY <1>1, Fresh
<1>5. ThreadInv(t) /\ state[t] = "none"
  BY <1>2 DEF GoodInv, ThreadInv, PortInv
<1>6. \A s \in Server \ {t} : ThreadInv(s)'
  BY <1>3, <1>4, <1>5, OthersKeep, Files DEF GoodInv
<1>7. OneListens'
  BY <1>3 DEF GoodInv, OneListens, OthersRest
<1>8. SocketInv(t)'
  BY <1>2, <1>3, <1>4, <1>5 DEF ThreadInv, SocketInv, Own
<1>9. PortInv(t)'
  BY <1>3 DEF PortInv, Started
<1>10. LoopInv(t)' /\ EventInv(t)'
  BY <1>2, <1>3, <1>5 DEF ThreadInv, LoopInv, EventInv, Looping, Handling, HasEvent
<1>11. QED
  BY <1>6, <1>7, <1>8, <1>9, <1>10 DEF GoodInv, ThreadInv

(* bind and listen: only the last one to succeed listens, and the rest do when it does. *)
LEMMA BindStep ==
  ASSUME TypeOK, GoodInv, NEW t \in Server, BindSocket(t)
  PROVE  GoodInv'
<1>1. /\ pc[t] = "bind" /\ pc' = [pc EXCEPT ![t] = "listen"] /\ ThreadInv(t)
      /\ UNCHANGED <<fdTable, sock, ready, cur, new, watched>>
  BY DEF BindSocket, Go, GoodInv
<1>2. Own(t) /\ state[t] = "closed"
  BY <1>1 DEF ThreadInv, SocketInv, PortInv
<1>3. state' = IF ~PortTaken THEN [state EXCEPT ![t] = "bound"] ELSE state
  BY <1>2 DEF BindSocket
<1>4. /\ OthersRest(t) /\ pc'[t] = "listen"
      /\ state'[t] = "bound" \/ (state'[t] = "closed" /\ PortTaken)
  BY <1>1, <1>2, <1>3 DEF OthersRest, TypeOK
<1>5. /\ PortTaken => PortTaken'
      /\ \A s \in Server \ {t} : ThreadInv(s)'
  BY <1>1, <1>2, <1>4, OthersKeep DEF GoodInv
<1>6. OneListens'
  BY <1>4 DEF GoodInv, OneListens, OthersRest
<1>7. SocketInv(t)'
  BY <1>1, <1>2, <1>4 DEF ThreadInv, SocketInv, Own
<1>8. PortInv(t)'
  BY <1>4, <1>5 DEF PortInv, Started
<1>9. LoopInv(t)' /\ EventInv(t)'
  BY <1>1, <1>4 DEF ThreadInv, LoopInv, EventInv, Looping, Handling, HasEvent
<1>10. QED
  BY <1>5, <1>6, <1>7, <1>8, <1>9 DEF GoodInv, ThreadInv

LEMMA ListenStep ==
  ASSUME TypeOK, GoodInv, NEW t \in Server, ListenSocket(t)
  PROVE  GoodInv'
<1>1. /\ pc[t] = "listen" /\ pc' = [pc EXCEPT ![t] = "epoll"] /\ ThreadInv(t)
      /\ UNCHANGED <<fdTable, sock, ready, cur, new, watched>>
  BY DEF ListenSocket, Go, GoodInv
<1>2. Own(t) /\ (state[t] = "bound" \/ (state[t] = "closed" /\ PortTaken))
  BY <1>1 DEF ThreadInv, SocketInv, PortInv
<1>3. PICK to : /\ state' = [state EXCEPT ![t] = to]
                /\ to = "listening" => ~PortTaken
                /\ to # "listening" => PortTaken
  <2>1. CASE state[t] = "closed"
    <3>1. state' = [state EXCEPT ![t] = "elsewhere"]
      BY <1>2, <2>1 DEF ListenSocket
    <3>2. QED
      BY <1>2, <2>1, <3>1
  <2>2. CASE state[t] = "bound" /\ ~PortTaken
    <3>1. state' = [state EXCEPT ![t] = "listening"]
      BY <1>2, <2>2 DEF ListenSocket
    <3>2. QED
      BY <2>2, <3>1
  <2>3. CASE state[t] = "bound" /\ PortTaken
    <3>1. state' = state
      BY <2>3 DEF ListenSocket
    <3>2. state' = [state EXCEPT ![t] = "bound"]
      BY <2>3, <3>1 DEF TypeOK
    <3>3. QED
      BY <2>3, <3>2
  <2>4. QED
    BY <1>2, <2>1, <2>2, <2>3
<1>4. /\ OthersRest(t) /\ pc'[t] = "epoll" /\ state'[t] = to
  BY <1>1, <1>3 DEF OthersRest, TypeOK
<1>5. /\ PortTaken => PortTaken'
      /\ \A s \in Server \ {t} : ThreadInv(s)'
  BY <1>1, <1>2, <1>4, OthersKeep DEF GoodInv
<1>6. PortTaken'
  BY <1>3, <1>4, <1>5 DEF PortTaken
<1>7. OneListens'
  BY <1>3, <1>4 DEF GoodInv, OneListens, OthersRest, PortTaken
<1>8. SocketInv(t)'
  BY <1>1, <1>2, <1>4 DEF ThreadInv, SocketInv, Own
<1>9. PortInv(t)'
  BY <1>4, <1>6 DEF PortInv, Started
<1>10. LoopInv(t)' /\ EventInv(t)'
  BY <1>1, <1>4 DEF ThreadInv, LoopInv, EventInv, Looping, Handling, HasEvent
<1>11. QED
  BY <1>5, <1>7, <1>8, <1>9, <1>10 DEF GoodInv, ThreadInv

(* The descriptor of an epoll object is nobody's listener. *)
LEMMA EpollStep ==
  ASSUME TypeOK, FdType, GoodInv, NEW t \in Server, PollEventNew(t)
  PROVE  GoodInv'
<1>1. /\ pc[t] = "epoll" /\ pc' = [pc EXCEPT ![t] = "add listener"] /\ ThreadInv(t)
      /\ new' = [new EXCEPT ![t] = sock[t]]
      /\ UNCHANGED <<sock, ready, cur, watched, state>>
  BY DEF PollEventNew, Go, GoodInv
<1>2. OthersRest(t) /\ pc'[t] = "add listener" /\ new'[t] = sock[t]
  BY <1>1 DEF OthersRest, TypeOK
<1>3. ASSUME NEW s \in Server, NEW fd \in Fds
      PROVE  /\ Serves(s, fd) => fdTable'[fd] = fdTable[fd]
             /\ fdTable'[fd] = Listener(s) => fdTable[fd] = Listener(s)
  <2>1. CASE UNCHANGED fdTable
    BY <2>1
  <2>2. ASSUME NEW f \in FreeFds, fdTable' = [fdTable EXCEPT ![f] = Epoll(t)]
        PROVE  /\ Serves(s, fd) => fdTable'[fd] = fdTable[fd]
               /\ fdTable'[fd] = Listener(s) => fdTable[fd] = Listener(s)
    <3>1. /\ fdTable'[f] = Epoll(t) /\ (fd # f => fdTable'[fd] = fdTable[fd])
          /\ Serves(s, fd) => fd # f
      BY <2>2, Fresh
    <3>2. QED
      BY <3>1, Files
  <2>3. QED
    BY <2>1, <2>2 DEF PollEventNew, NewFd
<1>4. /\ PortTaken => PortTaken'
      /\ \A s \in Server \ {t} : ThreadInv(s)'
  BY <1>1, <1>2, <1>3, OthersKeep DEF GoodInv
<1>5. OneListens'
  BY <1>1 DEF GoodInv, OneListens
<1>6. Own(t)' /\ Own(t)
  BY <1>1, <1>3 DEF ThreadInv, SocketInv, Own, Serves
<1>7. SocketInv(t)'
  BY <1>1, <1>2, <1>3, <1>6 DEF ThreadInv, SocketInv
<1>8. PortInv(t)'
  BY <1>1, <1>2, <1>4 DEF ThreadInv, PortInv, Started
<1>9. LoopInv(t)' /\ EventInv(t)'
  BY <1>1, <1>2 DEF ThreadInv, LoopInv, EventInv, Looping, Handling, HasEvent
<1>10. QED
  BY <1>4, <1>5, <1>7, <1>8, <1>9 DEF GoodInv, ThreadInv

(* accept_cb: only the thread that listens on the port is given a connection. *)
LEMMA AcceptStep ==
  ASSUME TypeOK, FdType, GoodInv, NEW t \in Server, Accept(t)
  PROVE  GoodInv'
<1>1. /\ pc[t] = "accept" /\ pc' = [pc EXCEPT ![t] = "add client"] /\ ThreadInv(t)
      /\ UNCHANGED <<sock, ready, cur, watched, state>>
  BY DEF Accept, Go, GoodInv
<1>2. OneListens'
  BY <1>1 DEF GoodInv, OneListens
<1>3. CASE UNCHANGED fdTable /\ new' = [new EXCEPT ![t] = NoFd]
  <2>1. OthersRest(t) /\ pc'[t] = "add client" /\ new'[t] = NoFd
    BY <1>1, <1>3 DEF OthersRest, TypeOK
  <2>2. SocketInv(t)' /\ PortInv(t)'
    BY <1>1, <1>3, <2>1, Stays DEF ThreadInv, SocketInv, PortInv, Own, Started
  <2>3. LoopInv(t)' /\ EventInv(t)'
    BY <1>1, <1>3, <2>1, Stays DEF ThreadInv, LoopInv, EventInv, Looping, Handling, HasEvent
  <2>4. QED
    BY <1>1, <1>3, <2>1, <2>2, <2>3, Local DEF ThreadInv
<1>4. ASSUME NEW c \in Conn, NEW u \in Server, NEW fd \in NewFd,
             state[u] = "listening", fdTable[cur[t].fd] = Listener(u),
             fdTable' = [fdTable EXCEPT ![fd] = Client(c)],
             new' = [new EXCEPT ![t] = fd]
      PROVE  GoodInv'
  <2>1. Serves(t, cur[t].fd)
    BY <1>1 DEF ThreadInv, EventInv, HasEvent
  <2>2. state[t] = "listening"
    BY <1>4, <2>1, Files DEF Serves
  <2>3. /\ fd \in Fds /\ fdTable'[fd] = Client(c)
        /\ \A f \in Fds : f # fd => fdTable'[f] = fdTable[f]
        /\ \A s \in Server, f \in Fds : Serves(s, f) => f # fd
    BY <1>4, Fresh DEF NewFd
  <2>4. OthersRest(t) /\ pc'[t] = "add client" /\ new'[t] = fd
    BY <1>1, <1>4 DEF OthersRest, TypeOK
  <2>5. /\ PortTaken => PortTaken'
        /\ \A s \in Server \ {t} : ThreadInv(s)'
    BY <1>1, <2>3, <2>4, OthersKeep, Files DEF GoodInv
  <2>6. Serves(t, fd)'
    BY <1>1, <2>2, <2>3 DEF Serves
  <2>7. ASSUME NEW f, Serves(t, f) PROVE Serves(t, f)' /\ fdTable'[f] = fdTable[f]
    <3>1. f \in Fds /\ f # fd
      BY <2>3, <2>7 DEF Serves
    <3>2. QED
      BY <1>1, <2>3, <2>7, <3>1 DEF Serves
  <2>8. SocketInv(t)'
    BY <1>1, <2>3, <2>4, Files DEF ThreadInv, SocketInv
  <2>9. PortInv(t)'
    BY <1>1, <2>4, <2>5 DEF ThreadInv, PortInv, Started
  <2>10. LoopInv(t)'
    BY <1>1, <2>4, <2>7 DEF ThreadInv, LoopInv, Harmless, Looping, Handling, HasEvent
  <2>11. EventInv(t)'
    BY <1>1, <2>2, <2>4, <2>6, <2>7 DEF ThreadInv, EventInv, Harmless, Handling, HasEvent
  <2>12. QED
    BY <1>2, <2>5, <2>8, <2>9, <2>10, <2>11 DEF GoodInv, ThreadInv
<1>5. QED
  BY <1>3, <1>4 DEF Accept

(***************************************************************************)
(* The first close of close_cb takes nothing from the other threads, nor   *)
(* the socket that listens on the port from its own.                       *)
(***************************************************************************)
LEMMA RemoveStep ==
  ASSUME TypeOK, GoodInv, NEW t \in Server, PollEventRemove(t)
  PROVE  GoodInv'
<1>1. /\ pc[t] = "remove" /\ pc' = [pc EXCEPT ![t] = "erase"] /\ ThreadInv(t)
      /\ UNCHANGED <<sock, ready, cur, new>>
  BY DEF PollEventRemove, Go, GoodInv
<1>2. pc'[t] = "erase"
  BY <1>1 DEF TypeOK
<1>3. CASE UNCHANGED <<fdTable, watched, state>>
  <2>1. OthersRest(t)
    BY <1>1, <1>3 DEF OthersRest, TypeOK
  <2>2. SocketInv(t)' /\ PortInv(t)'
    BY <1>1, <1>2, <1>3, Stays DEF ThreadInv, SocketInv, PortInv, Own, Started
  <2>3. LoopInv(t)' /\ EventInv(t)'
    BY <1>1, <1>2, <1>3, Stays DEF ThreadInv, LoopInv, EventInv, Looping, Handling, HasEvent
  <2>4. QED
    BY <1>3, <2>1, <2>2, <2>3, Local DEF ThreadInv
<1>4. CASE Close(cur[t].fd)
  <2> DEFINE fd == cur[t].fd
  <2>1. /\ Serves(t, fd) /\ (state[t] = "listening" => fdTable[fd] # Listener(t))
        /\ \A e \in ready[t] : e.fd # fd
    BY <1>1 DEF ThreadInv, EventInv, HasEvent, Harmless
  <2>2. fd \in Fds /\ \A s \in Server \ {t} : ~Serves(s, fd) /\ fdTable[fd] # Listener(s)
    BY <2>1, ServedOnce DEF GoodInv
  <2>3. /\ fdTable' = [f \in Fds |-> IF f = fd THEN Free ELSE fdTable[f]]
        /\ watched' = [s \in Server |-> watched[s] \ {fd}]
        /\ \A s \in Server : state'[s] = IF fdTable[fd] = Listener(s) THEN "gone" ELSE state[s]
    BY <1>4, <2>2 DEF Close
  <2> HIDE DEF fd
  <2>4. /\ fdTable'[fd] = Free
        /\ \A f \in Fds : f # fd => fdTable'[f] = fdTable[f]
    BY <2>2, <2>3
  <2>5. OthersRest(t) /\ watched'[t] = watched[t] \ {fd}
    BY <1>1, <2>2, <2>3 DEF OthersRest, TypeOK
  <2>6. state[t] = "listening" => state'[t] = "listening"
    BY <2>1, <2>3
  <2>7. \A s \in Server : state'[s] = "listening" => state[s] = "listening"
    BY <2>3
  <2>8. /\ PortTaken => PortTaken'
        /\ \A s \in Server \ {t} : ThreadInv(s)'
    <3>1. \A s \in Server \ {t}, f \in Fds : Serves(s, f) => fdTable'[f] = fdTable[f]
      BY <2>2, <2>4
    <3>2. \A s \in Server, f \in Fds : fdTable'[f] = Listener(s) => fdTable[f] = Listener(s)
      BY <2>4, Files
    <3>3. QED
      BY <2>5, <2>6, <3>1, <3>2, OthersKeep DEF GoodInv
  <2>9. OneListens'
    BY <2>7 DEF GoodInv, OneListens
  <2>10. ASSUME NEW f, Serves(t, f), f # fd PROVE Serves(t, f)' /\ fdTable'[f] = fdTable[f]
    BY <2>4, <2>6, <2>10 DEF Serves
  <2>11. SocketInv(t)'
    BY <1>1, <1>2, <2>4, Files DEF ThreadInv, SocketInv
  <2>12. PortInv(t)'
    BY <1>1, <1>2, <2>8 DEF ThreadInv, PortInv, Started
  <2>13. LoopInv(t)'
    <3>1. \A e \in ready[t] : Serves(t, e.fd)' /\ fdTable'[e.fd] = fdTable[e.fd]
      BY <1>1, <2>1, <2>10 DEF ThreadInv, LoopInv
    <3>2. \A f \in watched'[t] : Serves(t, f)'
      BY <1>1, <2>5, <2>10 DEF ThreadInv, LoopInv
    <3>3. QED
      BY <1>1, <1>2, <2>7, <3>1, <3>2 DEF ThreadInv, LoopInv, Harmless, Looping, Handling, HasEvent
  <2>14. EventInv(t)'
    BY <1>1, <1>2, <2>6 DEF ThreadInv, EventInv, Handling, HasEvent
  <2>15. QED
    BY <2>8, <2>9, <2>11, <2>12, <2>13, <2>14 DEF GoodInv, ThreadInv
<1>5. QED
  BY <1>3, <1>4 DEF PollEventRemove

(* A second close that closes nothing. *)
LEMMA ClosesNothing ==
  ASSUME TypeOK, FdType, NEW t \in Server, CloseAgain(t), victims' = {}
  PROVE  /\ UNCHANGED <<fdTable, state>>
         /\ cur[t].fd \in Fds => fdTable[cur[t].fd] = Free
         /\ watched' = [s \in Server |-> watched[s] \ {cur[t].fd}]
<1>1. Close(cur[t].fd) /\ {fdTable[fd] : fd \in Fds \cap {cur[t].fd}} \ {Free} = {}
  BY DEF CloseAgain
<1>2. cur[t].fd \in Fds => fdTable[cur[t].fd] = Free
  BY <1>1
<1>3. UNCHANGED fdTable
  <2>1. fdTable' = [f \in Fds |-> IF f = cur[t].fd THEN Free ELSE fdTable[f]]
    BY <1>1 DEF Close
  <2>2. fdTable' = [f \in Fds |-> fdTable[f]]
    BY <1>2, <2>1
  <2>3. QED
    BY <2>2 DEF FdType
<1>4. UNCHANGED state
  <2>1. state' = [s \in Server |-> IF cur[t].fd \in Fds /\ fdTable[cur[t].fd] = Listener(s)
                                   THEN "gone" ELSE state[s]]
    BY <1>1 DEF Close
  <2>2. state' = [s \in Server |-> state[s]]
    BY <1>2, <2>1, Files
  <2>3. QED
    BY <2>2 DEF TypeOK
<1>5. watched' = [s \in Server |-> watched[s] \ {cur[t].fd}]
  BY <1>1 DEF Close
<1>6. QED
  BY <1>2, <1>3, <1>4, <1>5

LEMMA CloseAgainStep ==
  ASSUME TypeOK, FdType, GoodInv, NEW t \in Server, CloseAgain(t), victims' = {}
  PROVE  GoodInv'
<1>1. /\ pc[t] = "close again" /\ pc' = [pc EXCEPT ![t] = "next"] /\ ThreadInv(t)
      /\ UNCHANGED <<sock, ready, cur, new>>
  BY DEF CloseAgain, Go, GoodInv
<1>2. UNCHANGED <<fdTable, state>> /\ watched' = [s \in Server |-> watched[s] \ {cur[t].fd}]
  BY ClosesNothing
<1>3. OthersRest(t) /\ pc'[t] = "next" /\ watched'[t] \subseteq watched[t]
  BY <1>1, <1>2 DEF OthersRest, TypeOK
<1>4. SocketInv(t)' /\ PortInv(t)'
  BY <1>1, <1>2, <1>3, Stays DEF ThreadInv, SocketInv, PortInv, Own, Started
<1>5. LoopInv(t)' /\ EventInv(t)'
  BY <1>1, <1>2, <1>3, Stays DEF ThreadInv, LoopInv, EventInv, Looping, Handling, HasEvent
<1>6. QED
  BY <1>2, <1>3, <1>4, <1>5, Local DEF ThreadInv

(* What the others of the process do concerns no thread. *)
LEMMA ClientStep ==
  ASSUME TypeOK, GoodInv, UNCHANGED <<thread, state, watched, fdTable>>
  PROVE  GoodInv'
<1>1. \A s \in Server :
        /\ pc'[s] = pc[s] /\ sock'[s] = sock[s] /\ ready'[s] = ready[s] /\ cur'[s] = cur[s]
        /\ new'[s] = new[s] /\ state'[s] = state[s] /\ watched'[s] \subseteq watched[s]
  BY DEF thread
<1>2. PortTaken => PortTaken'
  BY DEF PortTaken
<1>3. \A s \in Server : ThreadInv(s)'
  BY <1>1, <1>2, Frame DEF GoodInv
<1>4. QED
  BY <1>3 DEF GoodInv, OneListens

LEMMA FdStep == TypeOK /\ FdType /\ [Next]_vars => FdType'
<1> SUFFICES ASSUME TypeOK, FdType, [Next]_vars PROVE FdType'
  OBVIOUS
<1> DEFINE Kinds == {Free} \cup {Epoll(s) : s \in Server} \cup {Listener(s) : s \in Server}
                      \cup {Client(c) : c \in Conn}
<1>1. fdTable \in [Fds -> Kinds]
  BY DEF FdType
<1>2. Free \in Kinds /\ (\A s \in Server : Epoll(s) \in Kinds /\ Listener(s) \in Kinds)
      /\ \A c \in Conn : Client(c) \in Kinds
  OBVIOUS
<1> HIDE DEF Kinds
<1>3. ASSUME NEW fd, Close(fd) PROVE fdTable' \in [Fds -> Kinds]
  BY <1>1, <1>2, <1>3 DEF Close
<1>4. ASSUME NEW fd \in NewFd, NEW kind \in Kinds, fdTable' = [fdTable EXCEPT ![fd] = kind]
      PROVE  fdTable' \in [Fds -> Kinds]
  BY <1>1, <1>4
<1>5. ASSUME NEW s \in Server, CreateSocket(s) PROVE fdTable' \in [Fds -> Kinds]
  BY <1>2, <1>4, <1>5 DEF CreateSocket
<1>6. ASSUME NEW s \in Server, PollEventNew(s) PROVE fdTable' \in [Fds -> Kinds]
  BY <1>1, <1>2, <1>4, <1>6 DEF PollEventNew
<1>7. ASSUME NEW s \in Server, Accept(s) PROVE fdTable' \in [Fds -> Kinds]
  BY <1>1, <1>2, <1>4, <1>7 DEF Accept
<1>8. ASSUME NEW s \in Server, PollEventRemove(s) \/ CloseAgain(s) PROVE fdTable' \in [Fds -> Kinds]
  BY <1>1, <1>3, <1>8 DEF PollEventRemove, CloseAgain
<1>9. ASSUME UNCHANGED fdTable PROVE fdTable' \in [Fds -> Kinds]
  BY <1>1, <1>9
<1>10. fdTable' \in [Fds -> Kinds]
  BY <1>5, <1>6, <1>7, <1>8, <1>9
     DEF Next, Run, Connect, ClientEnds, CreateTcpServer, CreateSocketFails, BindSocket,
         ListenSocket, AddToEpoll, EpollWait, NextEvent, EventsDone, HandleEvent, AddClient,
         ReadCb, CheckHup, EraseBuffer, vars, kernel
<1>11. QED
  BY <1>10 DEF FdType, Kinds

LEMMA StartStep == StartInv /\ [Next]_vars => StartInv'
<1> SUFFICES ASSUME TypeOK, FdType, victims = {} => GoodInv, [Next]_vars, victims' = {}
             PROVE  GoodInv'
  BY TypeStep, FdStep DEF StartInv
<1>1. ASSUME NEW s \in Server, CloseAgain(s) PROVE GoodInv'
  <2>1. victims = {}
    BY <1>1 DEF CloseAgain
  <2>2. QED
    BY <1>1, <2>1, CloseAgainStep
<1>2. CASE UNCHANGED victims
  <2>1. GoodInv
    BY <1>2
  <2>2. ASSUME NEW s \in Server, CreateTcpServer(s) \/ Run(s) PROVE GoodInv'
    BY <1>1, <2>1, <2>2, MoveStep, WaitStep, AddStep, CreateStep, BindStep, ListenStep,
       EpollStep, AcceptStep, RemoveStep
       DEF Run
  <2>3. ASSUME NEW c \in Conn, Connect(c) \/ ClientEnds(c) PROVE GoodInv'
    BY <2>1, <2>3, ClientStep DEF Connect, ClientEnds
  <2>4. CASE UNCHANGED vars
    BY <2>1, <2>4, ClientStep DEF vars, kernel
  <2>5. QED
    BY <2>2, <2>3, <2>4 DEF Next
<1>3. QED
  BY <1>1, <1>2
     DEF Next, Run, Connect, ClientEnds, CreateTcpServer, CreateSocket, CreateSocketFails,
         BindSocket, ListenSocket, PollEventNew, AddToEpoll, EpollWait, NextEvent, EventsDone,
         HandleEvent, Accept, AddClient, ReadCb, CheckHup, PollEventRemove, EraseBuffer, vars

LEMMA StartInit == Init => StartInv
<1> SUFFICES ASSUME Init PROVE FdType /\ GoodInv
  BY FdKinds DEF StartInv, Init, TypeOK, NoEvent
<1>1. FdType
  BY DEF Init, FdType
<1>2. \A s \in Server : pc[s] = "none" /\ state[s] = "none" /\ watched[s] = {} /\ ready[s] = {}
  BY DEF Init
<1>3. \A fd \in Fds : fdTable[fd] = Free
  BY DEF Init
<1>4. OneListens
  BY <1>2 DEF OneListens
<1>5. ASSUME NEW s \in Server PROVE ThreadInv(s)
  BY <1>2, <1>3, Files
     DEF ThreadInv, SocketInv, PortInv, LoopInv, EventInv, Started, Looping, Handling, HasEvent
<1>6. QED
  BY <1>1, <1>4, <1>5 DEF GoodInv

LEMMA StartInvariant == Spec => []StartInv
  BY StartInit, StartStep, PTL DEF Spec

(***************************************************************************)
(* Of two threads that meet in the table or in receiveMapBuffers, one is   *)
(* registering its listener or handles an event of a listener of its own   *)
(* that does not listen: for any number of presses, and whatever           *)
(* connections come and go.                                                *)
(***************************************************************************)
THEOREM RacesAreAtStart == Spec => []RaceIsAtStart
<1>1. StartInv => RaceIsAtStart
  <2> SUFFICES ASSUME GoodInv, NEW s \in Server, NEW t \in Server, Racing(s, t),
                      \A u \in {s, t} : pc[u] # "add listener"
               PROVE  \E u \in {s, t} : HangsUp(u)
    BY DEF StartInv, RaceIsAtStart
  <2>1. s # t /\ pc[s] \in Handling /\ pc[t] \in Handling
    BY DEF Racing, AtTable, Handling, HasEvent
  <2>2. PICK u \in {s, t} : state[u] # "listening"
    BY <2>1 DEF GoodInv, OneListens
  <2>3. cur[u].fd = sock[u] /\ sock[u] \in Fds
    BY <2>1, <2>2 DEF GoodInv, ThreadInv, EventInv
  <2>4. QED
    BY <2>2, <2>3 DEF HangsUp
<1>2. QED
  BY <1>1, StartInvariant, PTL

-----------------------------------------------------------------------------
(* The hash table that the threads share. *)

TableInv == Sound(sp_nodes)

Nodes == FoundKeys(sp_nodes)

LEMMA AddNode ==
  ASSUME TypeOK, TableInv, NEW t \in Server, PollEventAdd(t)
  PROVE  TableInv' /\ Nodes' = Nodes \cup {new[t]}
<1> DEFINE fd == new[t]
<1>1. fd \in Keys
  BY FdKinds DEF TypeOK
<1>2. Nodes = Contents(sp_nodes) /\ Nodes' = Contents(sp_nodes')
  BY FoundAreContents DEF Nodes
<1>3. fd \in Nodes <=> HashFind(sp_nodes, fd) = fd
  BY <1>1 DEF Nodes, FoundKeys
<1>4. sp_nodes' = IF fd \in Nodes THEN sp_nodes ELSE HashAdd(sp_nodes, fd)
  BY <1>3 DEF PollEventAdd
<1>5. CASE fd \in Nodes
  BY <1>2, <1>4, <1>5 DEF TableInv
<1>6. CASE fd \notin Nodes
  BY <1>1, <1>2, <1>4, <1>6, AddSound DEF TableInv
<1>7. QED
  BY <1>5, <1>6

LEMMA RemoveNode ==
  ASSUME TypeOK, TableInv, NEW t \in Server, PollEventRemove(t)
  PROVE  /\ TableInv' /\ Nodes' = Nodes \ {cur[t].fd}
         /\ IF cur[t].fd \in Nodes THEN accepting' = accepting \ {cur[t].fd} /\ Close(cur[t].fd)
            ELSE UNCHANGED <<accepting, fdTable, watched, state>>
<1> DEFINE fd == cur[t].fd
<1>1. fd \in Keys
  <2>1. cur[t] \in {NoEvent} \cup [fd : Fds, hup : BOOLEAN]
    BY DEF TypeOK
  <2>2. QED
    BY <2>1, FdKinds DEF NoEvent
<1>2. Nodes = Contents(sp_nodes) /\ Nodes' = Contents(sp_nodes')
  BY FoundAreContents DEF Nodes
<1>3. fd \in Nodes <=> HashFind(sp_nodes, fd) = fd
  BY <1>1 DEF Nodes, FoundKeys
<1>4. CASE fd \in Nodes
  <2>1. /\ sp_nodes' = FreeItem(HashDelete(sp_nodes, fd), fd)
        /\ accepting' = accepting \ {fd} /\ Close(fd)
    BY <1>3, <1>4 DEF PollEventRemove
  <2> HIDE DEF fd
  <2>2. QED
    BY <1>2, <1>4, <2>1, DeleteSound DEF TableInv, fd
<1>5. CASE fd \notin Nodes
  <2>1. UNCHANGED <<nodes, fdTable, watched, state>>
    BY <1>3, <1>5 DEF PollEventRemove
  <2>2. UNCHANGED <<sp_nodes, accepting>>
    BY <2>1 DEF nodes
  <2> HIDE DEF fd
  <2>3. QED
    BY <1>2, <1>5, <2>1, <2>2 DEF TableInv, fd
<1>6. QED
  BY <1>4, <1>5

LEMMA TableStep == TypeOK /\ TableInv /\ [Next]_vars => TableInv'
<1> SUFFICES ASSUME TypeOK, TableInv, [Next]_vars PROVE TableInv'
  OBVIOUS
<1>1. ASSUME NEW t \in Server, AddToEpoll(t) \/ AddClient(t) PROVE TableInv'
  BY <1>1, AddNode DEF AddToEpoll, AddClient
<1>2. ASSUME NEW t \in Server, PollEventRemove(t) PROVE TableInv'
  BY <1>2, RemoveNode
<1>3. CASE UNCHANGED sp_nodes
  BY <1>3 DEF TableInv
<1>4. QED
  BY <1>1, <1>2, <1>3
     DEF Next, Run, Connect, ClientEnds, CreateTcpServer, CreateSocket, CreateSocketFails,
         BindSocket, ListenSocket, PollEventNew, EpollWait, NextEvent, EventsDone,
         HandleEvent, Accept, ReadCb, CheckHup, EraseBuffer, CloseAgain, vars, nodes

LEMMA TableInit == Init => TableInv
<1> SUFFICES ASSUME Init PROVE TableInv
  OBVIOUS
<1>1. PICK hashv \in Hashes : sp_nodes = NoTable(hashv)
  BY DEF Init
<1>2. hashv \in [Keys -> Nat]
  BY StartAssumption DEF HashFunctions
<1>3. QED
  BY <1>1, <1>2, NoTableSound DEF TableInv

LEMMA TableInvariant == Spec => [](TypeOK /\ TableInv)
<1>1. Init => TypeOK
  BY FdKinds DEF Init, TypeOK, NoEvent
<1>2. QED
  BY <1>1, TypeStep, TableInit, TableStep, PTL DEF Spec

(***************************************************************************)
(* Whatever the threads add and remove, uthash would find nothing wrong    *)
(* with its lists, its counters and the lengths of its chains.             *)
(***************************************************************************)
THEOREM TableStaysSound == Spec => []TableSound
<1>1. TableInv => TableSound
  BY SoundChecks DEF TableInv, TableSound
<1>2. QED
  BY <1>1, TableInvariant, PTL

-----------------------------------------------------------------------------
(* What is in the table, and who serves the port. *)

ExactInv == Nodes \ {NoFd} = Registered

Starting == {"bind", "listen", "epoll", "add listener"}

(* A socket is its thread's until it is closed; the one that listens stays registered. *)
ServingInv(s) ==
  /\ state[s] \in {"closed", "bound", "listening", "elsewhere"} => Own(s)
  /\ s \in epoll => pc[s] \in Looping \cup {"add listener"}
  /\ s \in epoll /\ state[s] = "listening" /\ pc[s] # "add listener" =>
       sock[s] \in watched[s] \cap accepting \cap Nodes

ServeInv == ExactInv /\ \A s \in Server : ServingInv(s)

TableServeInv == StartInv /\ TableInv /\ (victims = {} => ServeInv)

(* One descriptor in Registered. *)
IsRegistered(fd) ==
  \/ /\ \E c \in Conn : fdTable[fd] = Client(c)
     /\ \A s \in Server : pc[s] = "add client" => new[s] # fd
  \/ \E s \in Server : fdTable[fd] = Listener(s) /\ pc[s] \notin Starting

LEMMA RegisteredIs == Registered = {fd \in Fds : IsRegistered(fd)}
  BY DEF Registered, IsRegistered, Starting

LEMMA RegisteredSame ==
  ASSUME UNCHANGED fdTable,
         \A s \in Server : /\ pc'[s] = "add client" <=> pc[s] = "add client"
                           /\ pc[s] = "add client" => new'[s] = new[s]
                           /\ pc'[s] \in Starting <=> pc[s] \in Starting
  PROVE  Registered' = Registered
<1>1. \A fd \in Fds : IsRegistered(fd)' <=> IsRegistered(fd)
  BY DEF IsRegistered
<1>2. Registered' = {fd \in Fds : IsRegistered(fd)'}
  BY DEF Registered, IsRegistered, Starting
<1>3. QED
  BY <1>1, <1>2, RegisteredIs

(* A step that may close the socket of s, and takes nothing else from it. *)
LEMMA ServingKeeps ==
  ASSUME NEW s \in Server, ServingInv(s),
         sock'[s] = sock[s], state'[s] = state[s] \/ state'[s] = "gone",
         pc'[s] = pc[s] \/ (pc[s] \in Looping /\ pc'[s] \in Looping),
         s \in epoll' => s \in epoll,
         state'[s] # "gone" /\ Own(s) =>
           /\ Own(s)'
           /\ sock[s] \in watched[s] => sock[s] \in watched'[s]
           /\ sock[s] \in accepting => sock[s] \in accepting'
           /\ sock[s] \in Nodes => sock[s] \in Nodes'
  PROVE  ServingInv(s)'
<1>1. "add listener" \notin Looping
  BY DEF Looping, Handling, HasEvent
<1>2. QED
  BY <1>1 DEF ServingInv

(* The steps that change neither descriptors, sockets nor the table. *)
LEMMA QuietServe ==
  ASSUME TypeOK, ServeInv, NEW t \in Server,
         UNCHANGED <<fdTable, state, sock, epoll, watched, new, sp_nodes, accepting>>,
         NEW to, pc' = [pc EXCEPT ![t] = to],
         \/ pc[t] \in Looping \ {"add client"} /\ to \in Looping \ {"add client"}
         \/ pc[t] \in {"none", "socket"} /\ to \in {"socket", "returned"}
  PROVE  ServeInv'
<1>1. Nodes' = Nodes
  BY DEF Nodes
<1>2. \A s \in Server : pc'[s] = IF s = t THEN to ELSE pc[s]
  BY DEF TypeOK
<1>3. Registered' = Registered
  BY <1>2, RegisteredSame DEF Looping, Handling, HasEvent, Starting
<1>4. ASSUME NEW s \in Server PROVE ServingInv(s)'
  <2>1. ServingInv(s)
    BY DEF ServeInv
  <2>2. Own(s)' <=> Own(s)
    BY DEF Own
  <2>3. CASE pc'[s] = pc[s] \/ (pc[s] \in Looping /\ pc'[s] \in Looping)
    BY <1>1, <2>1, <2>2, <2>3, ServingKeeps
  <2>4. CASE pc[s] \in {"none", "socket"} /\ pc'[s] \in {"socket", "returned"}
    <3>1. s \notin epoll
      BY <2>1, <2>4 DEF ServingInv, Looping, Handling, HasEvent
    <3>2. QED
      BY <2>1, <2>2, <3>1 DEF ServingInv
  <2>5. QED
    BY <1>2, <2>3, <2>4
<1>5. QED
  BY <1>1, <1>3, <1>4 DEF ServeInv, ExactInv

LEMMA QuietSteps ==
  ASSUME TypeOK, ServeInv, NEW t \in Server,
         \/ CreateTcpServer(t) \/ CreateSocketFails(t) \/ EpollWait(t) \/ NextEvent(t) \/ EventsDone(t)
         \/ HandleEvent(t) \/ ReadCb(t) \/ CheckHup(t) \/ EraseBuffer(t)
  PROVE  ServeInv'
<1>1. UNCHANGED <<fdTable, state, sock, epoll, watched, new, sp_nodes, accepting>>
  BY DEF CreateTcpServer, CreateSocketFails, EpollWait, NextEvent, EventsDone, HandleEvent, ReadCb,
         CheckHup, EraseBuffer, kernel, nodes
<1>2. PICK to : /\ pc' = [pc EXCEPT ![t] = to]
                /\ \/ pc[t] \in Looping \ {"add client"} /\ to \in Looping \ {"add client"}
                   \/ pc[t] \in {"none", "socket"} /\ to \in {"socket", "returned"}
  <2> USE DEF Go, Looping, Handling, HasEvent
  <2>1. CASE CreateTcpServer(t) \/ CreateSocketFails(t)
    BY <2>1 DEF CreateTcpServer, CreateSocketFails
  <2>2. CASE EpollWait(t) \/ NextEvent(t) \/ EventsDone(t)
    BY <2>2 DEF EpollWait, NextEvent, EventsDone
  <2>3. CASE HandleEvent(t)
    <3>1. pc[t] = "find"
      BY <2>3 DEF HandleEvent
    <3>2. PICK to \in {"next", "hup", "accept", "read"} : pc' = [pc EXCEPT ![t] = to]
      BY <2>3 DEF HandleEvent
    <3>3. QED
      BY <3>1, <3>2
  <2>4. CASE ReadCb(t) \/ CheckHup(t) \/ EraseBuffer(t)
    BY <2>4 DEF ReadCb, CheckHup, EraseBuffer
  <2>5. QED
    BY <2>1, <2>2, <2>3, <2>4
<1>3. QED
  BY <1>1, <1>2, QuietServe

LEMMA BindListenServe ==
  ASSUME TypeOK, GoodInv, ServeInv, NEW t \in Server, BindSocket(t) \/ ListenSocket(t)
  PROVE  ServeInv'
<1>1. UNCHANGED <<fdTable, sock, epoll, watched, new, sp_nodes, accepting>>
  BY DEF BindSocket, ListenSocket, nodes
<1>2. PICK to \in Starting : pc' = [pc EXCEPT ![t] = to] /\ pc[t] \in {"bind", "listen"}
  BY DEF BindSocket, ListenSocket, Go, Starting
<1>3. \A s \in Server \ {t} : state'[s] = state[s]
  BY DEF BindSocket, ListenSocket, TypeOK
<1>4. \A s \in Server : pc'[s] = IF s = t THEN to ELSE pc[s]
  BY <1>2 DEF TypeOK
<1>5. Nodes' = Nodes
  BY <1>1 DEF Nodes
<1>6. Registered' = Registered
  BY <1>1, <1>2, <1>4, RegisteredSame DEF Starting
<1>7. ServingInv(t)'
  <2>1. Own(t)'
    BY <1>1, <1>2 DEF GoodInv, ThreadInv, SocketInv, Own
  <2>2. t \notin epoll'
    BY <1>1, <1>2 DEF ServeInv, ServingInv, Looping, Handling, HasEvent
  <2>3. QED
    BY <2>1, <2>2 DEF ServingInv
<1>8. ASSUME NEW s \in Server \ {t} PROVE ServingInv(s)'
  <2>1. ServingInv(s) /\ (Own(s)' <=> Own(s))
    BY <1>1 DEF ServeInv, Own
  <2>2. QED
    BY <1>1, <1>3, <1>4, <1>5, <2>1, ServingKeeps
<1>9. QED
  BY <1>5, <1>6, <1>7, <1>8 DEF ServeInv, ExactInv

LEMMA CreateServe ==
  ASSUME TypeOK, FdType, GoodInv, ServeInv, NEW t \in Server, CreateSocket(t)
  PROVE  ServeInv'
<1>1. PICK fd \in FreeFds : /\ sock' = [sock EXCEPT ![t] = fd]
                            /\ fdTable' = [fdTable EXCEPT ![fd] = Listener(t)]
  BY DEF CreateSocket, NewFd
<1>2. /\ pc[t] = "socket" /\ pc' = [pc EXCEPT ![t] = "bind"]
      /\ state' = [state EXCEPT ![t] = "closed"]
      /\ UNCHANGED <<epoll, new, watched, sp_nodes, accepting>>
  BY DEF CreateSocket, Go, nodes
<1>3. /\ fd \in Fds /\ fdTable'[fd] = Listener(t) /\ fdTable[fd] = Free
      /\ \A f \in Fds : f # fd => fdTable'[f] = fdTable[f]
  BY <1>1, Fresh DEF FreeFds
<1>4. /\ pc'[t] = "bind" /\ sock'[t] = fd
      /\ \A s \in Server \ {t} : pc'[s] = pc[s] /\ sock'[s] = sock[s] /\ state'[s] = state[s]
  BY <1>1, <1>2 DEF TypeOK
<1>5. Nodes' = Nodes
  BY <1>2 DEF Nodes
<1>6. Registered' = Registered
  <2>1. \A f \in Fds : fdTable[f] # Listener(t)
    BY <1>2 DEF GoodInv, ThreadInv, SocketInv
  <2>2. ~IsRegistered(fd)
    BY <1>3, Files DEF IsRegistered
  <2>3. ~IsRegistered(fd)'
    <3>1. \A c \in Conn : fdTable'[fd] # Client(c)
      BY <1>3, Files
    <3>2. \A s \in Server : fdTable'[fd] = Listener(s) => s = t
      BY <1>3, Files
    <3>3. pc'[t] \in Starting
      BY <1>4 DEF Starting
    <3>4. QED
      BY <3>1, <3>2, <3>3 DEF IsRegistered
  <2>4. ASSUME NEW f \in Fds, f # fd PROVE IsRegistered(f)' <=> IsRegistered(f)
    BY <1>2, <1>3, <1>4, <2>1, <2>4 DEF IsRegistered
  <2>5. Registered' = {f \in Fds : IsRegistered(f)'}
    BY DEF Registered, IsRegistered, Starting
  <2>6. QED
    BY <2>2, <2>3, <2>4, <2>5, RegisteredIs
<1>7. ServingInv(t)'
  <2>1. Own(t)'
    BY <1>3, <1>4 DEF Own
  <2>2. t \notin epoll'
    BY <1>2 DEF ServeInv, ServingInv, Looping, Handling, HasEvent
  <2>3. QED
    BY <2>1, <2>2 DEF ServingInv
<1>8. ASSUME NEW s \in Server \ {t} PROVE ServingInv(s)'
  <2>1. ServingInv(s) /\ (Own(s) => Own(s)')
    BY <1>3, <1>4, Files DEF ServeInv, Own
  <2>2. QED
    BY <1>2, <1>4, <1>5, <2>1, ServingKeeps
<1>9. QED
  BY <1>5, <1>6, <1>7, <1>8 DEF ServeInv, ExactInv

LEMMA EpollServe ==
  ASSUME TypeOK, FdType, GoodInv, ServeInv, NEW t \in Server, PollEventNew(t)
  PROVE  ServeInv'
<1>1. /\ pc[t] = "epoll" /\ pc' = [pc EXCEPT ![t] = "add listener"]
      /\ new' = [new EXCEPT ![t] = sock[t]]
      /\ UNCHANGED <<sock, watched, state, sp_nodes, accepting>>
      /\ \A s \in Server \ {t} : s \in epoll' => s \in epoll
  BY DEF PollEventNew, Go, nodes
<1>2. /\ pc'[t] = "add listener"
      /\ \A s \in Server \ {t} : pc'[s] = pc[s] /\ new'[s] = new[s]
  BY <1>1 DEF TypeOK
<1>3. ASSUME NEW f \in Fds PROVE fdTable'[f] = fdTable[f] \/ (fdTable[f] = Free /\ fdTable'[f] = Epoll(t))
  <2>1. ASSUME NEW fd \in FreeFds, fdTable' = [fdTable EXCEPT ![fd] = Epoll(t)]
        PROVE  fdTable'[f] = fdTable[f] \/ (fdTable[f] = Free /\ fdTable'[f] = Epoll(t))
    BY <2>1, Fresh DEF FreeFds
  <2>2. QED
    BY <2>1 DEF PollEventNew, NewFd
<1>4. Nodes' = Nodes
  BY <1>1 DEF Nodes
<1>5. Registered' = Registered
  <2>1. ASSUME NEW f \in Fds PROVE IsRegistered(f)' <=> IsRegistered(f)
    <3>1. \A c \in Conn : fdTable'[f] = Client(c) <=> fdTable[f] = Client(c)
      BY <1>3, Files DEF Epoll, Client
    <3>2. \A s \in Server : fdTable'[f] = Listener(s) <=> fdTable[f] = Listener(s)
      BY <1>3, Files
    <3>3. \A s \in Server : pc'[s] \in Starting <=> pc[s] \in Starting
      BY <1>1, <1>2 DEF Starting
    <3>4. \A s \in Server : pc'[s] = "add client" => pc[s] = "add client" /\ new'[s] = new[s]
      BY <1>2
    <3>5. \A s \in Server : pc[s] = "add client" => pc'[s] = "add client" /\ new'[s] = new[s]
      BY <1>1, <1>2
    <3>6. QED
      BY <3>1, <3>2, <3>3, <3>4, <3>5 DEF IsRegistered
  <2>2. Registered' = {f \in Fds : IsRegistered(f)'}
    BY DEF Registered, IsRegistered, Starting
  <2>3. QED
    BY <2>1, <2>2, RegisteredIs
<1>6. ASSUME NEW s \in Server, Own(s) PROVE Own(s)'
  BY <1>1, <1>3, <1>6, Files DEF Own
<1>7. ServingInv(t)'
  <2>1. Own(t)'
    BY <1>1, <1>6 DEF GoodInv, ThreadInv, SocketInv
  <2>2. QED
    BY <1>2, <2>1 DEF ServingInv
<1>8. ASSUME NEW s \in Server \ {t} PROVE ServingInv(s)'
  <2>1. ServingInv(s)
    BY DEF ServeInv
  <2>2. QED
    BY <1>1, <1>2, <1>4, <1>6, <2>1, ServingKeeps
<1>9. QED
  BY <1>4, <1>5, <1>7, <1>8 DEF ServeInv, ExactInv

(* One descriptor more, or one less, that counts as registered. *)
LEMMA RegisteredAdds ==
  ASSUME NEW x \in Fds, IsRegistered(x)',
         \A f \in Fds : f # x => (IsRegistered(f)' <=> IsRegistered(f))
  PROVE  Registered' = Registered \cup {x}
<1>1. Registered' = {f \in Fds : IsRegistered(f)'} /\ Registered = {f \in Fds : IsRegistered(f)}
  BY RegisteredIs DEF Registered, IsRegistered, Starting
<1>2. ASSUME NEW f \in Fds PROVE IsRegistered(f)' <=> (IsRegistered(f) \/ f = x)
  BY <1>2
<1> QED
  BY <1>1, <1>2

LEMMA RegisteredLoses ==
  ASSUME NEW x \in Fds, ~IsRegistered(x)',
         \A f \in Fds : f # x => (IsRegistered(f)' <=> IsRegistered(f))
  PROVE  Registered' = Registered \ {x}
<1>1. Registered' = {f \in Fds : IsRegistered(f)'} /\ Registered = {f \in Fds : IsRegistered(f)}
  BY RegisteredIs DEF Registered, IsRegistered, Starting
<1>2. ASSUME NEW f \in Fds PROVE IsRegistered(f)' <=> (IsRegistered(f) /\ f # x)
  BY <1>2
<1> QED
  BY <1>1, <1>2

(* The node of the listener is new, so that it is watched. *)
LEMMA AddListenerServe ==
  ASSUME TypeOK, TableInv, GoodInv, ServeInv, NEW t \in Server, AddToEpoll(t)
  PROVE  ServeInv'
<1>1. /\ pc[t] = "add listener" /\ pc' = [pc EXCEPT ![t] = "wait"] /\ PollEventAdd(t)
      /\ accepting' = accepting \cup {new[t]}
      /\ UNCHANGED <<sock, epoll, new, state, fdTable>>
  BY DEF AddToEpoll, Go
<1>2. /\ pc'[t] = "wait" /\ \A s \in Server \ {t} : pc'[s] = pc[s]
  BY <1>1 DEF TypeOK
<1>3. new[t] = sock[t] /\ Own(t) /\ \A f \in Fds : fdTable[f] = Listener(t) => f = sock[t]
  BY <1>1 DEF GoodInv, ThreadInv, SocketInv
<1>4. sock[t] \in Fds /\ fdTable[sock[t]] = Listener(t) /\ sock[t] # NoFd
  BY <1>3, FdKinds DEF Own
<1>5. Nodes' = Nodes \cup {sock[t]}
  BY <1>1, <1>3, AddNode
<1> PICK x \in Fds : x = sock[t]
  BY <1>4
<1>6. ~IsRegistered(x) /\ IsRegistered(x)'
  BY <1>1, <1>2, <1>4, Files DEF IsRegistered, Starting
<1>7. ASSUME NEW f \in Fds, f # x PROVE IsRegistered(f)' <=> IsRegistered(f)
  BY <1>1, <1>2, <1>3, <1>7 DEF IsRegistered
<1>8. Registered' = Registered \cup {sock[t]}
  <2>1. \A f \in Fds : f # x => (IsRegistered(f)' <=> IsRegistered(f))
    BY <1>7
  <2>2. Registered' = Registered \cup {x}
    BY <1>6, <2>1, RegisteredAdds
  <2>3. QED
    BY <2>2
<1>9. sock[t] \notin Nodes
  BY <1>4, <1>6, RegisteredIs DEF ServeInv, ExactInv
<1>10. HashFind(sp_nodes, new[t]) # new[t]
  BY <1>3, <1>4, <1>9, FdKinds DEF Nodes, FoundKeys
<1>11. watched' = IF t \in epoll THEN [watched EXCEPT ![t] = @ \cup {sock[t]}] ELSE watched
  <2>1. fdTable[sock[t]] # Free
    BY <1>4, Files
  <2>2. QED
    BY <1>1, <1>3, <1>4, <1>10, <2>1 DEF PollEventAdd
<1>12. \A s \in Server : watched[s] \subseteq watched'[s]
  BY <1>11 DEF TypeOK
<1>13. ServingInv(t)'
  <2>1. t \in epoll => sock[t] \in watched'[t]
    BY <1>11 DEF TypeOK
  <2>2. Own(t)'
    BY <1>1, <1>3 DEF Own
  <2>3. QED
    BY <1>1, <1>2, <1>3, <1>5, <2>1, <2>2 DEF ServingInv, Looping
<1>14. ASSUME NEW s \in Server \ {t} PROVE ServingInv(s)'
  <2>1. ServingInv(s) /\ (Own(s)' <=> Own(s))
    BY <1>1 DEF ServeInv, Own
  <2>2. QED
    BY <1>1, <1>2, <1>5, <1>12, <2>1, ServingKeeps
<1>15. QED
  BY <1>4, <1>5, <1>8, <1>13, <1>14 DEF ServeInv, ExactInv

LEMMA AcceptServe ==
  ASSUME TypeOK, FdType, GoodInv, ServeInv, NEW t \in Server, Accept(t)
  PROVE  ServeInv'
<1>1. /\ pc[t] = "accept" /\ pc' = [pc EXCEPT ![t] = "add client"]
      /\ UNCHANGED <<sock, epoll, watched, state, sp_nodes, accepting>>
  BY DEF Accept, Go, nodes
<1>2. /\ pc'[t] = "add client" /\ \A s \in Server \ {t} : pc'[s] = pc[s]
  BY <1>1 DEF TypeOK
<1>3. Nodes' = Nodes
  BY <1>1 DEF Nodes
<1>4. "accept" \in Looping /\ "add client" \in Looping
  BY DEF Looping, Handling, HasEvent
<1>5. Registered' = {f \in Fds : IsRegistered(f)'} /\ Registered = {f \in Fds : IsRegistered(f)}
  BY RegisteredIs DEF Registered, IsRegistered, Starting
<1>6. CASE UNCHANGED fdTable /\ new' = [new EXCEPT ![t] = NoFd]
  <2>1. new'[t] = NoFd /\ \A s \in Server \ {t} : new'[s] = new[s]
    BY <1>6 DEF TypeOK
  <2>2. ASSUME NEW f \in Fds PROVE IsRegistered(f)' <=> IsRegistered(f)
    <3>1. f # NoFd
      BY FdKinds
    <3>2. QED
      BY <1>1, <1>2, <1>6, <2>1, <3>1 DEF IsRegistered, Starting
  <2>3. ASSUME NEW s \in Server PROVE ServingInv(s)'
    <3>1. ServingInv(s) /\ (Own(s)' <=> Own(s))
      BY <1>1, <1>6 DEF ServeInv, Own
    <3>2. QED
      BY <1>1, <1>2, <1>3, <1>4, <3>1, ServingKeeps
  <2>4. Registered' = Registered
    BY <1>5, <2>2
  <2>5. QED
    BY <1>3, <2>3, <2>4 DEF ServeInv, ExactInv
<1>7. ASSUME NEW c \in Conn, NEW fd \in NewFd, fdTable' = [fdTable EXCEPT ![fd] = Client(c)],
             new' = [new EXCEPT ![t] = fd]
      PROVE  ServeInv'
  <2>1. new'[t] = fd /\ \A s \in Server \ {t} : new'[s] = new[s]
    BY <1>7 DEF TypeOK
  <2>2. /\ fd \in Fds /\ fdTable'[fd] = Client(c) /\ fdTable[fd] = Free
        /\ \A f \in Fds : f # fd => fdTable'[f] = fdTable[f]
    BY <1>7, Fresh DEF NewFd, FreeFds
  <2>3. ~IsRegistered(fd)
    BY <2>2, Files DEF IsRegistered
  <2>4. ~IsRegistered(fd)'
    BY <1>2, <2>1, <2>2, Files DEF IsRegistered
  <2>5. ASSUME NEW f \in Fds, f # fd PROVE IsRegistered(f)' <=> IsRegistered(f)
    BY <1>1, <1>2, <2>1, <2>2, <2>5 DEF IsRegistered, Starting
  <2>6. \A f \in Fds : IsRegistered(f)' <=> IsRegistered(f)
    BY <2>3, <2>4, <2>5
  <2>7. ASSUME NEW s \in Server PROVE ServingInv(s)'
    <3>1. ServingInv(s) /\ (Own(s) => Own(s)')
      BY <1>1, <2>2, Files DEF ServeInv, Own
    <3>2. QED
      BY <1>1, <1>2, <1>3, <1>4, <3>1, ServingKeeps
  <2>8. Registered' = Registered
    BY <1>5, <2>6
  <2>9. QED
    BY <1>3, <2>7, <2>8 DEF ServeInv, ExactInv
<1>8. QED
  BY <1>6, <1>7 DEF Accept

(* A connection is registered when its node is there. *)
LEMMA AddClientServe ==
  ASSUME TypeOK, TableInv, GoodInv, ServeInv, NEW t \in Server, AddClient(t)
  PROVE  ServeInv'
<1>1. /\ pc[t] = "add client" /\ pc' = [pc EXCEPT ![t] = "hup"] /\ PollEventAdd(t)
      /\ UNCHANGED <<sock, epoll, new, state, fdTable, accepting>>
  BY DEF AddClient, Go
<1>2. /\ pc'[t] = "hup" /\ \A s \in Server \ {t} : pc'[s] = pc[s]
  BY <1>1 DEF TypeOK
<1>3. Nodes' = Nodes \cup {new[t]}
  BY <1>1, AddNode
<1>4. "hup" \in Looping /\ "add client" \in Looping
  BY DEF Looping, Handling, HasEvent
<1>5. Registered' = {f \in Fds : IsRegistered(f)'} /\ Registered = {f \in Fds : IsRegistered(f)}
  BY RegisteredIs DEF Registered, IsRegistered, Starting
<1>6. ASSUME NEW f \in Fds, f # new[t] PROVE IsRegistered(f)' <=> IsRegistered(f)
  BY <1>1, <1>2, <1>6 DEF IsRegistered, Starting
<1>7. ASSUME NEW x \in Fds, x = new[t] PROVE IsRegistered(x)'
  <2>1. new[t] \in Fds
    BY <1>7
  <2>2. Serves(t, new[t])
    BY <1>1, <2>1, FdKinds DEF GoodInv, ThreadInv, EventInv
  <2>3. \A s \in Server \ {t} : ~Serves(s, new[t])
    BY <2>2, ServedOnce DEF GoodInv
  <2>4. ASSUME NEW s \in Server \ {t}, pc[s] = "add client" PROVE new[s] # new[t]
    <3>1. new[s] = NoFd \/ Serves(s, new[s])
      BY <2>4 DEF GoodInv, ThreadInv, EventInv
    <3>2. QED
      BY <2>1, <2>3, <3>1, FdKinds
  <2>5. \A s \in Server : pc'[s] = "add client" => new[s] # new[t]
    BY <1>2, <2>4
  <2>6. CASE fdTable[new[t]] = Listener(t)
    BY <1>1, <1>2, <1>7, <2>6 DEF IsRegistered, Starting
  <2>7. CASE \E c \in Conn : fdTable[new[t]] = Client(c)
    BY <1>1, <1>7, <2>5, <2>7 DEF IsRegistered
  <2>8. QED
    BY <2>2, <2>6, <2>7 DEF Serves
<1>8. Nodes' \ {NoFd} = Registered'
  <2>1. Nodes \ {NoFd} = Registered
    BY DEF ServeInv, ExactInv
  <2>2. CASE new[t] = NoFd
    <3>1. \A f \in Fds : IsRegistered(f)' <=> IsRegistered(f)
      BY <1>6, <2>2, FdKinds
    <3>2. QED
      BY <1>3, <1>5, <2>1, <2>2, <3>1
  <2>3. CASE new[t] # NoFd
    <3>1. PICK x \in Fds : x = new[t]
      BY <2>3 DEF TypeOK
    <3>2. IsRegistered(x)'
      BY <1>7, <3>1
    <3>3. \A f \in Fds : f # x => (IsRegistered(f)' <=> IsRegistered(f))
      BY <1>6, <3>1
    <3>4. Registered' = Registered \cup {x}
      BY <3>2, <3>3, RegisteredAdds
    <3>5. QED
      BY <1>3, <2>1, <2>3, <3>1, <3>4, FdKinds
  <2>4. QED
    BY <2>2, <2>3
<1>9. \A s \in Server : watched[s] \subseteq watched'[s]
  BY <1>1 DEF PollEventAdd, TypeOK
<1>10. ASSUME NEW s \in Server PROVE ServingInv(s)'
  <2>1. ServingInv(s) /\ (Own(s)' <=> Own(s))
    BY <1>1 DEF ServeInv, Own
  <2>2. QED
    BY <1>1, <1>2, <1>3, <1>4, <1>9, <2>1, ServingKeeps
<1>11. QED
  BY <1>8, <1>10 DEF ServeInv, ExactInv

(* What is hung up leaves the table, the epoll objects and the descriptors at once. *)
LEMMA RemoveServe ==
  ASSUME TypeOK, TableInv, GoodInv, ServeInv, NEW t \in Server, PollEventRemove(t)
  PROVE  ServeInv'
<1> DEFINE fd == cur[t].fd
<1>1. /\ pc[t] = "remove" /\ pc' = [pc EXCEPT ![t] = "erase"]
      /\ UNCHANGED <<sock, epoll, new>>
  BY DEF PollEventRemove, Go
<1>2. /\ pc'[t] = "erase" /\ \A s \in Server \ {t} : pc'[s] = pc[s]
  BY <1>1 DEF TypeOK
<1>3. fd \in Fds
  BY <1>1 DEF GoodInv, ThreadInv, EventInv, HasEvent, Serves
<1>4. /\ Nodes' = Nodes \ {fd}
      /\ IF fd \in Nodes THEN accepting' = accepting \ {fd} /\ Close(fd)
         ELSE UNCHANGED <<accepting, fdTable, watched, state>>
  BY RemoveNode
<1>5. "remove" \in Looping /\ "erase" \in Looping
  BY DEF Looping, Handling, HasEvent
<1>6. Registered' = {f \in Fds : IsRegistered(f)'} /\ Registered = {f \in Fds : IsRegistered(f)}
  BY RegisteredIs DEF Registered, IsRegistered, Starting
<1> HIDE DEF fd
<1>7. CASE fd \notin Nodes
  <2>1. UNCHANGED <<accepting, fdTable, watched, state>> /\ Nodes' = Nodes
    BY <1>4, <1>7
  <2>2. Registered' = Registered
    BY <1>1, <1>2, <2>1, RegisteredSame DEF Starting
  <2>3. ASSUME NEW s \in Server PROVE ServingInv(s)'
    <3>1. ServingInv(s) /\ (Own(s)' <=> Own(s))
      BY <1>1, <2>1 DEF ServeInv, Own
    <3>2. QED
      BY <1>1, <1>2, <1>5, <2>1, <3>1, ServingKeeps
  <2>4. QED
    BY <2>1, <2>2, <2>3 DEF ServeInv, ExactInv
<1>8. CASE fd \in Nodes
  <2>1. /\ fdTable' = [f \in Fds |-> IF f = fd THEN Free ELSE fdTable[f]]
        /\ watched' = [s \in Server |-> watched[s] \ {fd}]
        /\ \A s \in Server : state'[s] = IF fdTable[fd] = Listener(s) THEN "gone" ELSE state[s]
    BY <1>3, <1>4, <1>8 DEF Close
  <2>2. fdTable'[fd] = Free /\ \A f \in Fds : f # fd => fdTable'[f] = fdTable[f]
    BY <1>3, <2>1
  <2>3. PICK x \in Fds : x = fd
    BY <1>3
  <2>4. ~IsRegistered(x)'
    BY <2>2, <2>3, Files DEF IsRegistered
  <2>5. \A f \in Fds : f # x => (IsRegistered(f)' <=> IsRegistered(f))
    BY <1>1, <1>2, <2>2, <2>3 DEF IsRegistered, Starting
  <2>6. Registered' = Registered \ {fd}
    <3>1. Registered' = Registered \ {x}
      BY <2>4, <2>5, RegisteredLoses
    <3>2. QED
      BY <2>3, <3>1
  <2>7. accepting' = accepting \ {fd}
    BY <1>4, <1>8
  <2>8. ASSUME NEW s \in Server PROVE ServingInv(s)'
    <3>1. ServingInv(s)
      BY DEF ServeInv
    <3>2. ASSUME state'[s] # "gone", Own(s) PROVE sock[s] # fd /\ Own(s)'
      BY <1>1, <2>1, <2>2, <3>2 DEF Own
    <3>3. state'[s] = state[s] \/ state'[s] = "gone"
      BY <2>1
    <3>4. \A f : f # fd /\ f \in watched[s] => f \in watched'[s]
      BY <2>1
    <3>5. QED
      BY <1>1, <1>2, <1>4, <1>5, <2>7, <3>1, <3>2, <3>3, <3>4, ServingKeeps
  <2>9. QED
    BY <1>4, <2>6, <2>8 DEF ServeInv, ExactInv
<1>9. QED
  BY <1>7, <1>8

LEMMA CloseAgainServe ==
  ASSUME TypeOK, FdType, ServeInv, NEW t \in Server, CloseAgain(t), victims' = {}
  PROVE  ServeInv'
<1>1. /\ pc[t] = "close again" /\ pc' = [pc EXCEPT ![t] = "next"]
      /\ UNCHANGED <<sock, epoll, new, sp_nodes, accepting>>
  BY DEF CloseAgain, Go, nodes
<1>2. /\ UNCHANGED <<fdTable, state>>
      /\ cur[t].fd \in Fds => fdTable[cur[t].fd] = Free
      /\ watched' = [s \in Server |-> watched[s] \ {cur[t].fd}]
  BY ClosesNothing
<1>3. /\ pc'[t] = "next" /\ \A s \in Server \ {t} : pc'[s] = pc[s]
  BY <1>1 DEF TypeOK
<1>4. "close again" \in Looping /\ "next" \in Looping
  BY DEF Looping, Handling, HasEvent
<1>5. Nodes' = Nodes
  BY <1>1 DEF Nodes
<1>6. Registered' = Registered
  BY <1>1, <1>2, <1>3, RegisteredSame DEF Starting
<1>7. ASSUME NEW s \in Server PROVE ServingInv(s)'
  <2>1. ServingInv(s) /\ (Own(s)' <=> Own(s))
    BY <1>1, <1>2 DEF ServeInv, Own
  <2>2. Own(s) => sock[s] # cur[t].fd
    BY <1>2, Files DEF Own
  <2>3. \A f : f # cur[t].fd /\ f \in watched[s] => f \in watched'[s]
    BY <1>2
  <2>4. QED
    BY <1>1, <1>2, <1>3, <1>4, <1>5, <2>1, <2>2, <2>3, ServingKeeps
<1>8. QED
  BY <1>5, <1>6, <1>7 DEF ServeInv, ExactInv

LEMMA RestServe ==
  ASSUME ServeInv, UNCHANGED <<thread, state, watched, fdTable, nodes>>
  PROVE  ServeInv'
<1>1. UNCHANGED <<pc, sock, epoll, new, state, watched, fdTable, sp_nodes, accepting>>
  BY DEF thread, nodes
<1>2. Nodes' = Nodes /\ Registered' = Registered
  BY <1>1, RegisteredSame DEF Nodes
<1>3. \A s \in Server : ServingInv(s)'
  BY <1>1, <1>2 DEF ServeInv, ServingInv, Own
<1>4. QED
  BY <1>2, <1>3 DEF ServeInv, ExactInv

LEMMA ServeStep == TableServeInv /\ [Next]_vars => TableServeInv'
<1> SUFFICES ASSUME StartInv, TableInv, victims = {} => ServeInv, [Next]_vars, victims' = {}
             PROVE  ServeInv'
  BY StartStep, TableStep DEF TableServeInv, StartInv
<1>1. TypeOK /\ FdType /\ (victims = {} => GoodInv)
  BY DEF StartInv
<1>2. ASSUME NEW t \in Server, CloseAgain(t) PROVE ServeInv'
  <2>1. victims = {}
    BY <1>2 DEF CloseAgain
  <2>2. QED
    BY <1>1, <1>2, <2>1, CloseAgainServe
<1>3. CASE UNCHANGED victims
  <2>1. GoodInv /\ ServeInv
    BY <1>1, <1>3
  <2>2. ASSUME NEW t \in Server, CreateTcpServer(t) \/ Run(t) PROVE ServeInv'
    BY <1>1, <1>2, <2>1, <2>2, QuietSteps, BindListenServe, CreateServe, EpollServe,
       AddListenerServe, AcceptServe, AddClientServe, RemoveServe
       DEF Run
  <2>3. ASSUME NEW c \in Conn, Connect(c) \/ ClientEnds(c) PROVE ServeInv'
    BY <2>1, <2>3, RestServe DEF Connect, ClientEnds
  <2>4. CASE UNCHANGED vars
    BY <2>1, <2>4, RestServe DEF vars, kernel
  <2>5. QED
    BY <2>2, <2>3, <2>4 DEF Next
<1>4. QED
  BY <1>2, <1>3
     DEF Next, Run, Connect, ClientEnds, CreateTcpServer, CreateSocket, CreateSocketFails,
         BindSocket, ListenSocket, PollEventNew, AddToEpoll, EpollWait, NextEvent, EventsDone,
         HandleEvent, Accept, AddClient, ReadCb, CheckHup, PollEventRemove, EraseBuffer, vars

LEMMA ServeInvariant == Spec => []TableServeInv
<1>1. Init => TableServeInv
  <2> SUFFICES ASSUME Init PROVE ServeInv
    BY StartInit, TableInit DEF TableServeInv
  <2>1. /\ \A s \in Server : pc[s] = "none" /\ state[s] = "none"
        /\ \A fd \in Fds : fdTable[fd] = Free
        /\ epoll = {}
    BY DEF Init
  <2>2. Nodes = {}
    <3>1. PICK hashv \in Hashes : sp_nodes = NoTable(hashv)
      BY DEF Init
    <3>2. sp_nodes.head = NULL
      BY <3>1 DEF NoTable
    <3>3. QED
      BY <3>2, FoundAreContents DEF Nodes, Contents
  <2>3. Registered = {}
    BY <2>1, Files, RegisteredIs DEF IsRegistered
  <2>4. \A s \in Server : ServingInv(s)
    BY <2>1 DEF ServingInv
  <2>5. QED
    BY <2>2, <2>3, <2>4 DEF ServeInv, ExactInv
<1>2. QED
  BY <1>1, ServeStep, PTL DEF Spec

(***************************************************************************)
(* While no close has taken another's descriptor, the table has a node for *)
(* exactly the descriptors that the loops answer for.                      *)
(***************************************************************************)
THEOREM TableIsExact == Spec => []TableExact
<1>1. TableServeInv => TableExact
  BY DEF TableServeInv, ServeInv, ExactInv, TableExact, Nodes
<1>2. QED
  BY <1>1, ServeInvariant, PTL

(***************************************************************************)
(* bind and listen may fail without anybody noticing, yet as soon as one   *)
(* thread has made its calls exactly one socket listens on the port; no    *)
(* event closes it, and its thread watches it and finds its node.          *)
(***************************************************************************)
THEOREM PortStaysServed == Spec => []PortIsServed
<1>1. TableServeInv => PortIsServed
  <2> SUFFICES ASSUME TypeOK, GoodInv, ServeInv, NEW s \in Server, Started(s)
               PROVE  /\ Cardinality({u \in Server : state[u] = "listening"}) = 1
                      /\ \A u \in epoll :
                           state[u] = "listening" /\ pc[u] # "add listener" =>
                             sock[u] \in watched[u] \cap accepting \cap FoundKeys(sp_nodes)
    BY DEF TableServeInv, StartInv, PortIsServed
  <2>1. PICK t \in Server : state[t] = "listening"
    BY DEF GoodInv, ThreadInv, PortInv, PortTaken
  <2>2. {u \in Server : state[u] = "listening"} = {t}
    BY <2>1 DEF GoodInv, OneListens
  <2>3. epoll \subseteq Server
    BY DEF TypeOK
  <2>4. QED
    BY <2>2, <2>3, FS_Singleton DEF ServeInv, ServingInv, Nodes
<1>2. QED
  BY <1>1, ServeInvariant, PTL
=============================================================================
