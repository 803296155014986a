--------------------------- MODULE PollLoop_proofs ---------------------------
(***************************************************************************)
(* Proofs about PollLoop, for every number of connections and descriptors, *)
(* and every order of the loop and of the other threads.                   *)
(*                                                                         *)
(* LoopInv holds while nothing is damaged (Intact).  It says, besides the  *)
(* properties, that the event being handled is of an open descriptor which *)
(* has no second event waiting, until close_cb has closed it: then nobody  *)
(* but another thread can have been given the number, and the node still   *)
(* holds it.  TypeOK holds whatever is damaged.                            *)
(***************************************************************************)
EXTENDS PollLoop, TLAPS

FdsInv ==
  /\ fdTable \in [Fds -> Conn \cup {Listen, Other, Free}]
  /\ ended \subseteq Conn
  /\ held = {fd \in Fds : fdTable[fd] = Other}
  /\ \A fd \in Fds : fdTable[fd] = Listen <=> fd = ListenFd

EventsInv ==
  /\ \A e \in ready : /\ e.fd \in Owned
                      /\ fdTable[e.fd] = e.conn
                      /\ e.hup => e.fd # ListenFd
  /\ \A e, f \in ready : e.fd = f.fd => e = f

CurInv ==
  /\ pc \in {"wait", "next", "in", "hup", "erase", "close again"}
  /\ pc \in {"in", "hup"} => cur.fd \in Owned /\ (cur.hup => cur.fd # ListenFd)
  /\ pc \in {"erase", "close again"} => cur.fd \in Fds \ Owned /\ nodeFd = cur.fd
  /\ pc \in {"in", "hup", "erase", "close again"} => \A e \in ready : e.fd # cur.fd
  /\ pc = "wait" => ready = {}

Agree == sp_nodes \ {NoFd} = Owned /\ watched = Owned

BuffersInv ==
  /\ buffers \in [Fds -> SUBSET Conn]
  /\ \A fd \in Fds :
       IF fdTable[fd] \in Conn
       THEN buffers[fd] \subseteq {fdTable[fd]}
       ELSE buffers[fd] = {} \/ (pc = "erase" /\ fd = cur.fd)

LoopInv == FdsInv /\ Agree /\ EventsInv /\ CurInv /\ BuffersInv

LEMMA Distinct ==
  /\ Listen # Other /\ Listen # Free /\ Other # Free
  /\ Conn \cap {Listen, Other, Free} = {}
  /\ NoFd \notin Fds /\ ListenFd \in Fds
<1>1. NoFd \notin Nat
  BY DEF NoFd
<1>2. ListenFd \in Fds /\ Fds \subseteq Nat
  BY FdAssumption
<1>3. /\ Listen # Other /\ Listen # Free /\ Other # Free
      /\ Conn \cap {Listen, Other, Free} = {}
  BY DistinctAssumption
<1>4. QED
  BY <1>1, <1>2, <1>3

LEMMA LoopInit == Init => LoopInv
  BY Distinct DEF Init, LoopInv, FdsInv, EventsInv, CurInv, Agree, BuffersInv, Owned

(* Damage is never undone. *)
LEMMA IntactBefore == [Next]_vars /\ Intact' => Intact
<1> SUFFICES ASSUME [Next]_vars, Intact' PROVE Intact
  OBVIOUS
<1> USE DEF Intact, clients, tables, loop, history
<1>1. CASE CloseAgain
  BY <1>1 DEF CloseAgain
<1>2. CASE Overwrite
  BY <1>2 DEF Overwrite
<1>3. CASE UNCHANGED <<victims, overwritten>>
  BY <1>3
<1>4. QED
  BY <1>1, <1>2, <1>3
     DEF Next, Loop, Clients, Others, Connect, Arrive, ClientEnds, OtherOpens, OtherCloses,
         EpollWait, NextEvent, EventsDone, Accept, AcceptFails, ReadCb, NoHup,
         PollEventRemove, EraseBuffer, vars

LEMMA LoopStep == LoopInv /\ [Next]_vars /\ Intact' => LoopInv'
<1> SUFFICES ASSUME LoopInv, [Next]_vars, Intact' PROVE LoopInv'
  OBVIOUS
<1> USE DEF LoopInv, clients, tables, loop, history
<1>1. CASE UNCHANGED <<fdTable, held, ended, sp_nodes, watched, ready, cur, nodeFd, pc, buffers>>
  BY <1>1 DEF FdsInv, EventsInv, CurInv, Agree, BuffersInv, Owned
<1>2. ASSUME NEW c \in Conn, ClientEnds(c) PROVE LoopInv'
  BY <1>2 DEF ClientEnds, FdsInv, EventsInv, CurInv, Agree, BuffersInv, Owned
<1>3. CASE OtherOpens
  <2>1. PICK fd \in FreeFds : fdTable' = [fdTable EXCEPT ![fd] = Other] /\ held' = held \cup {fd}
    BY <1>3 DEF OtherOpens, NewFd
  <2>2. UNCHANGED <<ended, sp_nodes, watched, ready, cur, nodeFd, pc, buffers>>
    BY <1>3 DEF OtherOpens
  <2>3. fd \in Fds /\ fdTable[fd] = Free
    BY DEF FreeFds
  <2>4. Owned' = Owned /\ FdsInv'
    BY <2>1, <2>2, <2>3, Distinct DEF Owned, FdsInv
  <2>5. \A f \in Owned : fdTable'[f] = fdTable[f]
    BY <2>1, <2>3, Distinct DEF Owned, FdsInv
  <2>6. Agree' /\ EventsInv' /\ CurInv'
    BY <2>2, <2>4, <2>5 DEF EventsInv, CurInv, Agree
  <2>7. \A f \in Fds : fdTable'[f] = fdTable[f] \/ (fdTable[f] \notin Conn /\ fdTable'[f] \notin Conn)
    BY <2>1, <2>3, Distinct DEF FdsInv
  <2>8. BuffersInv'
    BY <2>2, <2>7 DEF BuffersInv
  <2>9. QED
    BY <2>4, <2>6, <2>8
<1>4. ASSUME NEW fd \in held, OtherCloses(fd) PROVE LoopInv'
  <2>1. /\ fdTable' = [f \in Fds |-> IF f = fd THEN Free ELSE fdTable[f]]
        /\ held' = held \ {fd}
        /\ watched' = watched \ {fd}
        /\ UNCHANGED <<ended, sp_nodes, ready, cur, nodeFd, pc, buffers>>
    BY <1>4 DEF OtherCloses, Close
  <2>2. fd \in Fds /\ fdTable[fd] = Other
    BY DEF FdsInv
  <2>3. Owned' = Owned /\ FdsInv' /\ watched' = watched
    BY <2>1, <2>2, Distinct DEF Owned, FdsInv, Agree
  <2>4. \A f \in Owned : fdTable'[f] = fdTable[f]
    BY <2>1, <2>2, Distinct DEF Owned, FdsInv
  <2>5. Agree' /\ EventsInv' /\ CurInv'
    BY <2>1, <2>3, <2>4 DEF EventsInv, CurInv, Agree
  <2>6. \A f \in Fds : fdTable'[f] = fdTable[f] \/ (fdTable[f] \notin Conn /\ fdTable'[f] \notin Conn)
    BY <2>1, <2>2, Distinct DEF FdsInv
  <2>7. BuffersInv'
    BY <2>1, <2>6 DEF BuffersInv
  <2>8. QED
    BY <2>3, <2>5, <2>7
<1>5. CASE EpollWait
  <2>1. PICK S \in SUBSET watched : ready' = {EventOf(fd) : fd \in S}
    BY <1>5 DEF EpollWait
  <2>2. pc = "wait" /\ pc' = "next"
        /\ UNCHANGED <<fdTable, held, ended, sp_nodes, watched, cur, nodeFd, buffers>>
    BY <1>5 DEF EpollWait
  <2>3. S \subseteq Owned /\ Listen \notin ended
    BY Distinct DEF Agree, FdsInv
  <2>4. EventsInv'
    <3>1. Owned' = Owned /\ fdTable' = fdTable /\ fdTable[ListenFd] = Listen
      BY <2>2, Distinct DEF Owned, FdsInv
    <3>2. ASSUME NEW fd \in S PROVE EventOf(fd).hup => fd # ListenFd
      BY <2>3, <3>1 DEF EventOf
    <3>3. ASSUME NEW e \in ready'
          PROVE  e.fd \in S /\ e = EventOf(e.fd) /\ fdTable[e.fd] = e.conn
      BY <2>1, <3>3 DEF EventOf
    <3>4. QED
      BY <2>3, <3>1, <3>2, <3>3 DEF EventsInv
  <2>5. QED
    BY <2>2, <2>4 DEF FdsInv, CurInv, Agree, BuffersInv, Owned
<1>6. ASSUME NEW e \in ready, NextEvent(e) PROVE LoopInv'
  <2>1. /\ pc = "next" /\ cur' = e /\ ready' = ready \ {e}
        /\ UNCHANGED <<fdTable, held, ended, sp_nodes, watched, nodeFd, buffers>>
        /\ pc' = IF e.fd \in sp_nodes THEN "in" ELSE "next"
    BY <1>6 DEF NextEvent
  <2>2. e.fd \in Owned /\ (e.hup => e.fd # ListenFd) /\ \A f \in ready' : f.fd # e.fd
    BY <2>1 DEF EventsInv
  <2>3. FdsInv' /\ Agree' /\ EventsInv' /\ Owned' = Owned
    BY <2>1 DEF FdsInv, Agree, EventsInv, Owned
  <2>4. CurInv' /\ BuffersInv'
    BY <2>1, <2>2, <2>3 DEF CurInv, BuffersInv
  <2>5. QED
    BY <2>3, <2>4
<1>7. CASE EventsDone
  <2>1. pc = "next" /\ pc' = "wait" /\ ready = {}
        /\ UNCHANGED <<fdTable, held, ended, sp_nodes, watched, ready, nodeFd, buffers>>
    BY <1>7 DEF EventsDone
  <2>2. QED
    BY <2>1 DEF FdsInv, Agree, EventsInv, CurInv, BuffersInv, Owned
<1>8. ASSUME NEW c \in Conn, Accept(c) PROVE LoopInv'
  <2>1. PICK fd \in FreeFds : fdTable' = [fdTable EXCEPT ![fd] = c] /\ PollEventAdd(fd)
    BY <1>8 DEF Accept, NewFd
  <2>2. pc = "in" /\ pc' = "hup" /\ UNCHANGED <<ended, held, ready, cur, nodeFd, buffers>>
    BY <1>8 DEF Accept, AtListener
  <2>3. fd \in Fds /\ fdTable[fd] = Free /\ fd \notin Owned /\ fd # NoFd
    BY Distinct DEF FreeFds, Owned
  <2>4. Owned' = Owned \cup {fd} /\ FdsInv'
    BY <2>1, <2>2, <2>3, Distinct DEF Owned, FdsInv
  <2>5. sp_nodes' \ {NoFd} = Owned' /\ watched' = Owned'
    BY <2>1, <2>3, <2>4 DEF PollEventAdd, Agree
  <2>6. \A f \in Owned : fdTable'[f] = fdTable[f]
    BY <2>1, <2>3
  <2>7. EventsInv' /\ CurInv'
    BY <2>2, <2>4, <2>6 DEF EventsInv, CurInv
  <2>8. buffers[fd] = {}
    BY <2>2, <2>3, Distinct DEF BuffersInv
  <2>9. \A f \in Fds \ {fd} : fdTable'[f] = fdTable[f]
    BY <2>1
  <2>10. BuffersInv'
    BY <2>1, <2>2, <2>3, <2>8, <2>9 DEF BuffersInv, FdsInv
  <2>11. QED
    BY <2>4, <2>5, <2>7, <2>10 DEF Agree
<1>9. CASE AcceptFails
  <2>1. /\ sp_nodes' = sp_nodes \cup {NoFd}
        /\ watched' = IF NoFd \in sp_nodes \/ NoFd = NoFd THEN watched ELSE watched \cup {NoFd}
    BY <1>9 DEF AcceptFails, PollEventAdd
  <2>2. pc = "in" /\ pc' = "hup"
        /\ UNCHANGED <<fdTable, held, ended, ready, cur, nodeFd, buffers>>
    BY <1>9 DEF AcceptFails, AtListener
  <2>3. QED
    BY <2>1, <2>2 DEF FdsInv, Agree, EventsInv, CurInv, BuffersInv, Owned
<1>10. CASE ReadCb
  <2>1. /\ pc = "in" /\ pc' = "hup" /\ cur.fd # ListenFd
        /\ UNCHANGED <<fdTable, held, ended, sp_nodes, watched, ready, cur, nodeFd>>
    BY <1>10 DEF ReadCb
  <2>2. FdsInv' /\ Agree' /\ EventsInv' /\ CurInv'
    BY <2>1 DEF FdsInv, Agree, EventsInv, CurInv, Owned
  <2>3. cur.fd \in Fds /\ fdTable[cur.fd] \in Conn
    BY <2>1, Distinct DEF CurInv, FdsInv, Owned
  <2>4. \/ buffers' = buffers
        \/ \E kept \in {{}, buffers[cur.fd] \cup {fdTable[cur.fd]}} :
             buffers' = [buffers EXCEPT ![cur.fd] = kept]
    BY <1>10 DEF ReadCb
  <2>5. BuffersInv'
    BY <2>1, <2>3, <2>4 DEF BuffersInv
  <2>6. QED
    BY <2>2, <2>5
<1>11. CASE NoHup
  <2>1. pc = "hup" /\ pc' = "next"
        /\ UNCHANGED <<fdTable, held, ended, sp_nodes, watched, ready, cur, nodeFd, buffers>>
    BY <1>11 DEF NoHup
  <2>2. QED
    BY <2>1 DEF FdsInv, Agree, EventsInv, CurInv, BuffersInv, Owned
<1>12. CASE PollEventRemove
  <2>1. /\ pc = "hup" /\ cur.hup /\ pc' = "erase"
        /\ sp_nodes' = sp_nodes \ {cur.fd}
        /\ fdTable' = [f \in Fds |-> IF f = cur.fd THEN Free ELSE fdTable[f]]
        /\ watched' = watched \ {cur.fd}
        /\ nodeFd' = cur.fd
        /\ UNCHANGED <<held, ended, ready, cur, buffers>>
    BY <1>12 DEF PollEventRemove, Close
  <2>2. cur.fd \in Owned /\ cur.fd # ListenFd /\ \A e \in ready : e.fd # cur.fd
    BY <2>1 DEF CurInv
  <2>3. cur.fd \in Fds /\ fdTable[cur.fd] \in Conn /\ cur.fd # NoFd
    BY <2>2, Distinct DEF Owned, FdsInv
  <2>4. Owned' = Owned \ {cur.fd} /\ FdsInv'
    BY <2>1, <2>3, Distinct DEF Owned, FdsInv
  <2>5. Agree'
    BY <2>1, <2>3, <2>4 DEF Agree
  <2>6. EventsInv' /\ CurInv'
    <3>1. \A f \in Owned' : f \in Owned /\ fdTable'[f] = fdTable[f]
      BY <2>1, <2>4 DEF Owned
    <3>2. EventsInv'
      BY <2>1, <2>2, <2>4, <3>1 DEF EventsInv
    <3>3. CurInv'
      BY <2>1, <2>2, <2>3, <2>4 DEF CurInv
    <3>4. QED
      BY <3>2, <3>3
  <2>7. BuffersInv'
    BY <2>1, <2>3, Distinct DEF BuffersInv
  <2>8. QED
    BY <2>4, <2>5, <2>6, <2>7
<1>13. CASE EraseBuffer
  <2>1. /\ pc = "erase" /\ pc' = "close again"
        /\ buffers' = [fd \in Fds |-> IF fd = nodeFd THEN {} ELSE buffers[fd]]
        /\ UNCHANGED <<fdTable, held, ended, sp_nodes, watched, ready, cur, nodeFd>>
    BY <1>13 DEF EraseBuffer
  <2>2. FdsInv' /\ Agree' /\ EventsInv' /\ CurInv'
    BY <2>1 DEF FdsInv, Agree, EventsInv, CurInv, Owned
  <2>3. nodeFd = cur.fd
    BY <2>1 DEF CurInv
  <2>4. BuffersInv'
    BY <2>1, <2>3 DEF BuffersInv
  <2>5. QED
    BY <2>2, <2>4
<1>14. CASE CloseAgain
  <2>1. /\ pc = "close again" /\ pc' = "next"
        /\ fdTable' = [f \in Fds |-> IF f = nodeFd THEN Free ELSE fdTable[f]]
        /\ watched' = watched \ {nodeFd}
        /\ victims' = victims \cup ({fdTable[fd] : fd \in Fds \cap {nodeFd}} \ {Free})
        /\ UNCHANGED <<held, ended, sp_nodes, ready, cur, buffers>>
    BY <1>14 DEF CloseAgain, Close
  <2>2. nodeFd = cur.fd /\ cur.fd \in Fds \ Owned
    BY <2>1 DEF CurInv
  <2>3. fdTable[nodeFd] = Free
    BY <2>1, <2>2 DEF Intact
  <2>4. fdTable' = fdTable
    BY <2>1, <2>3 DEF FdsInv
  <2>5. watched' = watched
    BY <2>1, <2>2 DEF Agree
  <2>6. FdsInv' /\ Owned' = Owned /\ Agree' /\ EventsInv'
    BY <2>1, <2>4, <2>5 DEF FdsInv, Agree, EventsInv, Owned
  <2>7. CurInv' /\ BuffersInv'
    BY <2>1, <2>4, <2>6 DEF CurInv, BuffersInv
  <2>8. QED
    BY <2>6, <2>7
<1>15. CASE Overwrite
  BY <1>15 DEF Overwrite, Intact
<1>16. QED
  BY <1>1, <1>2, <1>3, <1>4, <1>5, <1>6, <1>7, <1>8, <1>9, <1>10, <1>11, <1>12, <1>13,
     <1>14, <1>15
     DEF Next, Loop, Clients, Others, Connect, Arrive, vars

LEMMA LoopInvariant == Spec => [](Intact => LoopInv)
<1>1. Init => (Intact => LoopInv)
  BY LoopInit
<1>2. (Intact => LoopInv) /\ [Next]_vars => (Intact => LoopInv)'
  BY IntactBefore, LoopStep
<1>3. QED
  BY <1>1, <1>2, PTL DEF Spec

(***************************************************************************)
(* While nothing is damaged, the open descriptors, the hash table and the  *)
(* epoll interest list agree, for any number of connections, descriptors   *)
(* and events.                                                             *)
(***************************************************************************)
THEOREM TablesAlwaysAgree == Spec => []TablesAgree
<1>1. (Intact => LoopInv) => TablesAgree
  BY DEF LoopInv, Agree, TablesAgree
<1>2. QED
  BY <1>1, LoopInvariant, PTL

(***************************************************************************)
(* No event in the array is handled for a connection that came later.      *)
(***************************************************************************)
THEOREM EventsStayCurrent == Spec => []EventsAreCurrent
<1>1. (Intact => LoopInv) => EventsAreCurrent
  BY DEF LoopInv, EventsInv, EventsAreCurrent
<1>2. QED
  BY <1>1, LoopInvariant, PTL

(***************************************************************************)
(* No connection finds the bytes of an earlier one in its buffer.          *)
(***************************************************************************)
THEOREM BuffersAreOwn == Spec => []BufferIsOwn
<1>1. (Intact => LoopInv) => BufferIsOwn
  BY DEF LoopInv, BuffersInv, BufferIsOwn
<1>2. QED
  BY <1>1, LoopInvariant, PTL

-----------------------------------------------------------------------------
(***************************************************************************)
(* The second close, also after it has done damage: between the two closes *)
(* nothing is accepted, so the number is nobody's or another thread's.     *)
(***************************************************************************)
WindowInv ==
  /\ fdTable \in [Fds -> Conn \cup {Listen, Other, Free}]
  /\ ~overwritten =>
       /\ victims \subseteq {Other}
       /\ pc \in {"erase", "close again"} /\ nodeFd \in Fds => fdTable[nodeFd] \in {Other, Free}

LEMMA WindowStep == WindowInv /\ [Next]_vars => WindowInv'
<1> SUFFICES ASSUME WindowInv, [Next]_vars PROVE WindowInv'
  OBVIOUS
<1> USE DEF WindowInv, clients, tables, loop, history
<1>1. CASE UNCHANGED <<fdTable, pc, nodeFd, victims, overwritten>>
  BY <1>1
<1>2. CASE OtherOpens
  BY <1>2 DEF OtherOpens, NewFd, FreeFds
<1>3. ASSUME NEW fd \in held, OtherCloses(fd) PROVE WindowInv'
  BY <1>3 DEF OtherCloses, Close
<1>4. CASE EpollWait \/ EventsDone \/ AcceptFails \/ ReadCb \/ NoHup
  BY <1>4 DEF EpollWait, EventsDone, AcceptFails, ReadCb, NoHup
<1>5. ASSUME NEW e \in ready, NextEvent(e) PROVE WindowInv'
  BY <1>5 DEF NextEvent
<1>6. ASSUME NEW c \in Conn, Accept(c) PROVE WindowInv'
  BY <1>6 DEF Accept, NewFd, FreeFds
<1>7. CASE PollEventRemove
  BY <1>7 DEF PollEventRemove, Close
<1>8. CASE EraseBuffer
  BY <1>8 DEF EraseBuffer
<1>9. CASE CloseAgain
  <2>1. /\ fdTable' = [f \in Fds |-> IF f = nodeFd THEN Free ELSE fdTable[f]]
        /\ victims' = victims \cup ({fdTable[fd] : fd \in Fds \cap {nodeFd}} \ {Free})
        /\ pc = "close again" /\ pc' = "next" /\ overwritten' = overwritten
    BY <1>9 DEF CloseAgain, Close
  <2>2. ~overwritten => victims' \subseteq {Other}
    BY <2>1
  <2>3. QED
    BY <2>1, <2>2
<1>10. CASE Overwrite
  BY <1>10 DEF Overwrite
<1>11. QED
  BY <1>1, <1>2, <1>3, <1>4, <1>5, <1>6, <1>7, <1>8, <1>9, <1>10
     DEF Next, Loop, Clients, Others, Connect, Arrive, ClientEnds, vars

(***************************************************************************)
(* For a server with one event loop: whatever the other threads open and   *)
(* close, the second close of close_cb never closes a connection of this   *)
(* loop or its listening socket, unless the freed node was overwritten.    *)
(* It says nothing of two loops, where the other one opens and closes      *)
(* connections of the server too (the victims of ServerStart).             *)
(***************************************************************************)
THEOREM SecondCloseSparesTheServer == Spec => []SecondCloseSparesServer
<1>1. Init => WindowInv
  BY DEF Init, WindowInv
<1>2. WindowInv => SecondCloseSparesServer
  BY DEF WindowInv, SecondCloseSparesServer
<1>3. QED
  BY <1>1, <1>2, WindowStep, PTL DEF Spec

-----------------------------------------------------------------------------
(* Type correctness, damage or not. *)

Entries == Conn \cup {Listen, Other, Free}
Events == [fd : Fds, conn : Entries, hup : BOOLEAN]

(* Closing any number, -1 and garbage too, keeps the tables' types. *)
LEMMA CloseType ==
  ASSUME TypeOK, NEW fd, Close(fd)
  PROVE  /\ fdTable' \in [Fds -> Entries]
         /\ watched' \subseteq Fds
         /\ stage' \in [Conn -> {"new", "backlog", "accepted", "closed"}]
  BY DEF TypeOK, Close, Entries

LEMMA EventType ==
  ASSUME TypeOK, NEW fd \in watched
  PROVE  EventOf(fd) \in Events
<1>1. fd \in Fds /\ fdTable[fd] \in Entries
  BY DEF TypeOK, Entries
<1>2. CASE fdTable[fd] \in ended
  <2>1. EventOf(fd) = [fd |-> fd, conn |-> fdTable[fd], hup |-> TRUE]
    BY <1>2 DEF EventOf
  <2>2. QED
    BY <1>1, <2>1 DEF Events
<1>3. CASE fdTable[fd] \notin ended
  <2>1. (fdTable[fd] \in ended) = FALSE
    BY <1>3
  <2>2. EventOf(fd) = [fd |-> fd, conn |-> fdTable[fd], hup |-> FALSE]
    BY <2>1, Zenon DEF EventOf
  <2>3. QED
    BY <1>1, <2>2 DEF Events
<1>4. QED
  BY <1>2, <1>3

LEMMA TypeStep == TypeOK /\ [Next]_vars => TypeOK'
<1> SUFFICES ASSUME TypeOK, [Next]_vars PROVE TypeOK'
  OBVIOUS
<1> USE DEF TypeOK, clients, tables, loop, history
<1>1. ASSUME NEW c \in Conn, Connect(c) \/ Arrive(c) \/ ClientEnds(c) PROVE TypeOK'
  BY <1>1 DEF Connect, Arrive, ClientEnds
<1>2. CASE OtherOpens
  BY <1>2 DEF OtherOpens, NewFd, FreeFds
<1>3. ASSUME NEW fd \in held, OtherCloses(fd) PROVE TypeOK'
  <2>1. Close(fd)
    BY <1>3 DEF OtherCloses
  <2>2. held' \subseteq Fds
    BY <1>3 DEF OtherCloses
  <2>3. QED
    BY <1>3, <2>1, <2>2, CloseType DEF OtherCloses, Entries
<1>4. CASE Overwrite
  BY <1>4 DEF Overwrite
<1>5. CASE EpollWait
  <2>1. PICK S \in SUBSET watched : ready' = {EventOf(fd) : fd \in S}
    BY <1>5 DEF EpollWait
  <2>2. ready' \subseteq Events
    BY <2>1, EventType
  <2>3. QED
    BY <1>5, <2>2 DEF EpollWait, Events, Entries
<1>6. ASSUME NEW e \in ready, NextEvent(e) PROVE TypeOK'
  <2>1. ready' \subseteq ready /\ cur' \in ready /\ pc' \in {"in", "next"}
    BY <1>6 DEF NextEvent
  <2>2. QED
    BY <1>6, <2>1 DEF NextEvent
<1>7. CASE EventsDone
  BY <1>7 DEF EventsDone
<1>8. ASSUME NEW c \in Conn, Accept(c) PROVE TypeOK'
  <2>1. PICK fd \in Fds : fdTable' = [fdTable EXCEPT ![fd] = c] /\ PollEventAdd(fd)
    BY <1>8 DEF Accept, NewFd, FreeFds
  <2>2. sp_nodes' \subseteq Fds \cup {NoFd} /\ watched' \subseteq Fds
    BY <2>1 DEF PollEventAdd
  <2>3. QED
    BY <1>8, <2>1, <2>2 DEF Accept
<1>9. CASE AcceptFails
  <2>1. sp_nodes' \subseteq Fds \cup {NoFd} /\ watched' = watched
    BY <1>9 DEF AcceptFails, PollEventAdd
  <2>2. QED
    BY <1>9, <2>1 DEF AcceptFails
<1>10. CASE ReadCb
  <2>1. unread' \subseteq Conn /\ buffers' \in [Fds -> SUBSET Conn]
    BY <1>10 DEF ReadCb
  <2>2. QED
    BY <1>10, <2>1 DEF ReadCb
<1>11. CASE NoHup
  BY <1>11 DEF NoHup
<1>12. CASE PollEventRemove
  <2>1. Close(cur.fd) /\ sp_nodes' \subseteq sp_nodes /\ nodeFd' = cur.fd
    BY <1>12 DEF PollEventRemove
  <2>2. nodeFd' \in Fds \cup {NoFd, Garbage}
    <3>1. CASE cur = NoEvent
      BY <2>1, <3>1 DEF NoEvent
    <3>2. CASE cur \in Events
      BY <2>1, <3>2 DEF Events
    <3>3. QED
      BY <3>1, <3>2 DEF Events, Entries
  <2>3. QED
    BY <1>12, <2>1, <2>2, CloseType DEF PollEventRemove, Entries
<1>13. CASE EraseBuffer
  BY <1>13 DEF EraseBuffer
<1>14. CASE CloseAgain
  <2>1. Close(nodeFd) /\ nodeFd' = NoFd
        /\ victims' = victims \cup ({fdTable[fd] : fd \in Fds \cap {nodeFd}} \ {Free})
    BY <1>14 DEF CloseAgain
  <2>2. victims' \subseteq Conn \cup {Listen, Other}
    <3>1. ASSUME NEW fd \in Fds, fdTable[fd] # Free
          PROVE  fdTable[fd] \in Conn \cup {Listen, Other}
      BY <3>1
    <3>2. ASSUME NEW v \in victims', v \notin victims
          PROVE  v \in Conn \cup {Listen, Other}
      <4>1. PICK fd \in Fds : v = fdTable[fd] /\ v # Free
        BY <2>1, <3>2
      <4>2. QED
        BY <3>1, <4>1
    <3>3. victims \subseteq Conn \cup {Listen, Other}
      OBVIOUS
    <3>4. QED
      BY <3>2, <3>3
  <2>3. QED
    BY <1>14, <2>1, <2>2, CloseType DEF CloseAgain, Entries
<1>15. CASE UNCHANGED vars
  BY <1>15 DEF vars
<1>16. QED
  BY <1>1, <1>2, <1>3, <1>4, <1>5, <1>6, <1>7, <1>8, <1>9, <1>10, <1>11, <1>12, <1>13,
     <1>14, <1>15
     DEF Next, Loop, Clients, Others

(***************************************************************************)
(* The tables of the loop keep their types, also when close_cb closes what *)
(* a freed node names: a number that is no descriptor closes nothing.      *)
(***************************************************************************)
THEOREM TypeCorrect == Spec => []TypeOK
<1>1. Init => TypeOK
  BY Distinct DEF Init, TypeOK, NoEvent
<1>2. QED
  BY <1>1, TypeStep, PTL DEF Spec
=============================================================================
