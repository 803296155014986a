------------------------------ MODULE PollLoop ------------------------------
(***************************************************************************)
(* The server's event loop: poll_event_process, poll_event_add and         *)
(* poll_event_remove over the hash table sp_nodes, and the callbacks       *)
(* accept_cb, read_cb and close_cb, with the descriptor table they share   *)
(* with the other threads of the process and the epoll interest list.      *)
(*                                                                         *)
(* The bytes are abstracted to who sent them: ServerReceive has the rest   *)
(* of read_cb.  close_cb is split where another thread can act.            *)
(***************************************************************************)
EXTENDS Integers, FiniteSets

CONSTANTS
  Conn,             \* client connections
  Fds,              \* descriptor numbers that are left for the server and the others
  ListenFd,         \* the listening socket
  MAX_EVENTS,       \* most events of one epoll_wait (100 in the code)
  MaxHeld,          \* bound: most descriptors the other threads hold at a time
  Listen, Other, Free       \* the other values an entry of the descriptor table has

ASSUME FdAssumption ==
  /\ Fds \subseteq Nat
  /\ IsFiniteSet(Fds)
  /\ ListenFd \in Fds
  /\ MAX_EVENTS \in Nat \ {0}
  /\ MaxHeld \in Nat

ASSUME DistinctAssumption ==
  /\ Listen # Other /\ Listen # Free /\ Other # Free
  /\ Conn \cap {Listen, Other, Free} = {}

NoFd == -1          \* accept failed
Garbage == -2       \* what freed memory may hold, if not a descriptor number

VARIABLES
  stage,        \* per connection: "new", "backlog", "accepted" or "closed"
  unread,       \* the connections with bytes in the kernel
  ended,        \* the connections whose client has closed its end
  fdTable,      \* what each descriptor number stands for
  held,         \* descriptor numbers the other threads believe are theirs
  sp_nodes,     \* keys of the hash table of nodes
  watched,      \* the epoll interest list
  buffers,      \* receiveMapBuffers: whose bytes the entry of a descriptor holds
  ready,        \* events of the current epoll_wait that are not handled yet
  cur,          \* the event being handled
  nodeFd,       \* what close_cb reads as node->fd, in the node that is freed
  pc,           \* where the loop is
  greeted,      \* history: the peers OnConnect was called for, NoFd if there is none
  victims,      \* history: what close_cb's second close has closed
  overwritten   \* history: a freed node was overwritten before close_cb read it

clients == <<stage, unread, ended>>
tables == <<fdTable, sp_nodes, watched>>
loop == <<ready, cur, nodeFd, pc>>
history == <<greeted, victims, overwritten>>
vars == <<clients, tables, held, buffers, loop, history>>

NoEvent == [fd |-> NoFd, conn |-> Free, hup |-> FALSE]

Init ==
  /\ stage = [c \in Conn |-> "new"]
  /\ unread = {}
  /\ ended = {}
  /\ fdTable = [fd \in Fds |-> IF fd = ListenFd THEN Listen ELSE Free]
  /\ held = {}
  /\ sp_nodes = {ListenFd}
  /\ watched = {ListenFd}
  /\ buffers = [fd \in Fds |-> {}]
  /\ ready = {}
  /\ cur = NoEvent
  /\ nodeFd = NoFd
  /\ pc = "wait"
  /\ greeted = {}
  /\ victims = {}
  /\ overwritten = FALSE

FreeFds == {fd \in Fds : fdTable[fd] = Free}

(* The number the kernel gives out, the lowest free one, if there is one. *)
NewFd == {fd \in FreeFds : \A other \in FreeFds : fd <= other}

(* close(fd) closes whatever the number stands for now; epoll forgets it. *)
Close(fd) ==
  /\ fdTable' = [f \in Fds |-> IF f = fd THEN Free ELSE fdTable[f]]
  /\ watched' = watched \ {fd}
  /\ stage' = [c \in Conn |-> IF fd \in Fds /\ fdTable[fd] = c THEN "closed" ELSE stage[c]]

-----------------------------------------------------------------------------
(* The clients. *)

Connect(c) ==
  /\ stage[c] = "new"
  /\ stage' = [stage EXCEPT ![c] = "backlog"]
  /\ UNCHANGED <<unread, ended, tables, held, buffers, loop, history>>

Arrive(c) ==
  /\ stage[c] \in {"backlog", "accepted"}
  /\ c \notin ended \cup unread
  /\ unread' = unread \cup {c}
  /\ UNCHANGED <<stage, ended, tables, held, buffers, loop, history>>

ClientEnds(c) ==
  /\ stage[c] \in {"backlog", "accepted"}
  /\ c \notin ended
  /\ ended' = ended \cup {c}
  /\ UNCHANGED <<stage, unread, tables, held, buffers, loop, history>>

-----------------------------------------------------------------------------
(* The other threads of the process: TcpClient, the Java side. *)

OtherOpens ==
  /\ Cardinality(held) < MaxHeld
  /\ \E fd \in NewFd :
       /\ fdTable' = [fdTable EXCEPT ![fd] = Other]
       /\ held' = held \cup {fd}
  /\ UNCHANGED <<clients, sp_nodes, watched, buffers, loop, history>>

OtherCloses(fd) ==
  /\ fd \in held
  /\ held' = held \ {fd}
  /\ Close(fd)
  /\ UNCHANGED <<unread, ended, sp_nodes, buffers, loop, history>>

(***************************************************************************)
(* The memory of the node that poll_event_remove has freed is used again,  *)
(* by anybody, before close_cb reads node->fd in it.                       *)
(***************************************************************************)
Overwrite ==
  /\ pc \in {"erase", "close again"}
  /\ nodeFd' \in Fds \cup {Garbage}
  /\ overwritten' = TRUE
  /\ UNCHANGED <<clients, tables, held, buffers, ready, cur, pc, greeted, victims>>

-----------------------------------------------------------------------------
(* The loop. *)

(* Faulty variant: EPOLLRDHUP and EPOLLHUP are not asked for. *)
IsReadyToRead(fd) ==
  \/ fdTable[fd] = Listen /\ \E c \in Conn : stage[c] = "backlog"
  \/ fdTable[fd] \in unread

IsReady(fd) ==
  \/ fdTable[fd] = Listen /\ \E c \in Conn : stage[c] = "backlog"
  \/ fdTable[fd] \in unread \cup ended

EventOf(fd) == [fd |-> fd, conn |-> fdTable[fd], hup |-> fdTable[fd] \in ended]

EpollWait ==
  /\ pc = "wait"
  /\ \E S \in SUBSET {fd \in watched : IsReady(fd)} :
       /\ S # {}
       /\ Cardinality(S) <= MAX_EVENTS
       /\ Cardinality(S) = MAX_EVENTS \/ \A fd \in watched \ S : ~IsReady(fd)
       /\ ready' = {EventOf(fd) : fd \in S}
  /\ pc' = "next"
  /\ UNCHANGED <<clients, tables, held, buffers, cur, nodeFd, history>>

(* Faulty variants: the event is handled again, and the events after the first are forgotten. *)
NextEventAgain(e) ==
  /\ pc = "next"
  /\ e \in ready
  /\ \/ ready' = ready
     \/ ready' = ready \ {e}
  /\ cur' = e
  /\ pc' = IF e.fd \in sp_nodes THEN "in" ELSE "next"
  /\ UNCHANGED <<clients, tables, held, buffers, nodeFd, history>>

NextEventOnly(e) ==
  /\ pc = "next"
  /\ e \in ready
  /\ ready' = {}
  /\ cur' = e
  /\ pc' = IF e.fd \in sp_nodes THEN "in" ELSE "next"
  /\ UNCHANGED <<clients, tables, held, buffers, nodeFd, history>>

(* The next event, in the order the kernel chose; HASH_FIND its node. *)
NextEvent(e) ==
  /\ pc = "next"
  /\ e \in ready
  /\ ready' = ready \ {e}
  /\ cur' = e
  /\ pc' = IF e.fd \in sp_nodes THEN "in" ELSE "next"
  /\ UNCHANGED <<clients, tables, held, buffers, nodeFd, history>>

EventsDone ==
  /\ pc = "next"
  /\ ready = {}
  /\ cur' = NoEvent
  /\ pc' = "wait"
  /\ UNCHANGED <<clients, tables, held, buffers, ready, nodeFd, history>>

(* Faulty variant: any number is registered. *)
PollEventAddUnchecked(fd) ==
  /\ sp_nodes' = sp_nodes \cup {fd}
  /\ watched' = watched \cup {fd}

(***************************************************************************)
(* poll_event_add(fd): a node that exists is reused and EPOLL_CTL_MOD is   *)
(* called, which fails on a descriptor that epoll does not watch.  A new   *)
(* node is followed by EPOLL_CTL_ADD, which fails on -1.                   *)
(***************************************************************************)
PollEventAdd(fd) ==
  /\ sp_nodes' = sp_nodes \cup {fd}
  /\ watched' = IF fd \in sp_nodes \/ fd = NoFd THEN watched ELSE watched \cup {fd}

AtListener == pc = "in" /\ cur.fd = ListenFd

Accept(c) ==
  /\ AtListener
  /\ fdTable[ListenFd] = Listen
  /\ stage[c] = "backlog"
  /\ stage' = [stage EXCEPT ![c] = "accepted"]
  /\ \E fd \in NewFd :
       /\ fdTable' = [fdTable EXCEPT ![fd] = c]
       /\ PollEventAdd(fd)
  /\ greeted' = greeted \cup {c}
  /\ pc' = "hup"
  /\ UNCHANGED <<unread, ended, held, buffers, ready, cur, nodeFd, victims, overwritten>>

(***************************************************************************)
(* accept returns -1, for want of a descriptor (or the listening socket    *)
(* itself was closed by mistake): accept_cb goes on with -1.               *)
(***************************************************************************)
AcceptFails ==
  /\ AtListener
  /\ FreeFds = {} \/ fdTable[ListenFd] # Listen
  /\ PollEventAdd(NoFd)
  /\ greeted' = greeted \cup {NoFd}
  /\ pc' = "hup"
  /\ UNCHANGED <<clients, fdTable, held, buffers, ready, cur, nodeFd, victims, overwritten>>

(***************************************************************************)
(* read_cb reads what the descriptor stands for now.  Bytes are left in    *)
(* the kernel when there are more than one read takes, and in the entry    *)
(* when a PDU is not complete.                                             *)
(***************************************************************************)
ReadCb ==
  /\ pc = "in"
  /\ cur.fd # ListenFd
  /\ LET owner == fdTable[cur.fd] IN
       IF owner \in unread
       THEN /\ unread' \in {unread, unread \ {owner}}
            /\ \E kept \in {{}, buffers[cur.fd] \cup {owner}} :
                 buffers' = [buffers EXCEPT ![cur.fd] = kept]
       ELSE UNCHANGED <<unread, buffers>>
  /\ pc' = "hup"
  /\ UNCHANGED <<stage, ended, tables, held, ready, cur, nodeFd, history>>

NoHup ==
  /\ pc = "hup"
  /\ ~cur.hup
  /\ pc' = "next"
  /\ UNCHANGED <<clients, tables, held, buffers, ready, cur, nodeFd, history>>

(* Faulty variants: poll_event_remove without HASH_DEL, or without close. *)
PollEventRemoveKeepsNode ==
  /\ pc = "hup"
  /\ cur.hup
  /\ Close(cur.fd)
  /\ nodeFd' = cur.fd
  /\ pc' = "erase"
  /\ UNCHANGED <<unread, ended, sp_nodes, held, buffers, ready, cur, history>>

PollEventRemoveNoClose ==
  /\ pc = "hup"
  /\ cur.hup
  /\ sp_nodes' = sp_nodes \ {cur.fd}
  /\ nodeFd' = cur.fd
  /\ pc' = "erase"
  /\ UNCHANGED <<clients, fdTable, watched, held, buffers, ready, cur, history>>

(* close_cb, first poll_event_remove: HASH_DEL, free the node, close(fd). *)
PollEventRemove ==
  /\ pc = "hup"
  /\ cur.hup
  /\ sp_nodes' = sp_nodes \ {cur.fd}
  /\ Close(cur.fd)
  /\ nodeFd' = cur.fd
  /\ pc' = "erase"
  /\ UNCHANGED <<unread, ended, held, buffers, ready, cur, history>>

(* Faulty variant: the entry is not erased. *)
NoErase ==
  /\ pc = "erase"
  /\ pc' = "close again"
  /\ UNCHANGED <<clients, tables, held, buffers, ready, cur, nodeFd, history>>

(* receiveMapBuffers.erase(node->fd) *)
EraseBuffer ==
  /\ pc = "erase"
  /\ buffers' = [fd \in Fds |-> IF fd = nodeFd THEN {} ELSE buffers[fd]]
  /\ pc' = "close again"
  /\ UNCHANGED <<clients, tables, held, ready, cur, nodeFd, history>>

(* close(node->fd), then OnDisconnect. *)
CloseAgain ==
  /\ pc = "close again"
  /\ Close(nodeFd)
  /\ victims' = victims \cup ({fdTable[fd] : fd \in Fds \cap {nodeFd}} \ {Free})
  /\ nodeFd' = NoFd
  /\ pc' = "next"
  /\ UNCHANGED <<unread, ended, sp_nodes, held, buffers, ready, cur, greeted, overwritten>>

Loop ==
  \/ EpollWait
  \/ \E e \in ready : NextEvent(e)
  \/ EventsDone
  \/ \E c \in Conn : Accept(c)
  \/ AcceptFails
  \/ ReadCb
  \/ NoHup
  \/ PollEventRemove
  \/ EraseBuffer
  \/ CloseAgain

Clients == \E c \in Conn : Connect(c) \/ Arrive(c) \/ ClientEnds(c)

Others == OtherOpens \/ Overwrite \/ \E fd \in held : OtherCloses(fd)

Next == Loop \/ Clients \/ Others

Spec == Init /\ [][Next]_vars

(* The thread that runs poll_event_loop is scheduled. *)
FairSpec == Spec /\ WF_vars(Loop)

-----------------------------------------------------------------------------
(* Properties. *)

TypeOK ==
  /\ stage \in [Conn -> {"new", "backlog", "accepted", "closed"}]
  /\ unread \subseteq Conn /\ ended \subseteq Conn
  /\ fdTable \in [Fds -> Conn \cup {Listen, Other, Free}]
  /\ held \subseteq Fds
  /\ sp_nodes \subseteq Fds \cup {NoFd}
  /\ watched \subseteq Fds
  /\ buffers \in [Fds -> SUBSET Conn]
  /\ ready \subseteq [fd : Fds, conn : Conn \cup {Listen, Other, Free}, hup : BOOLEAN]
  /\ cur \in {NoEvent} \cup [fd : Fds, conn : Conn \cup {Listen, Other, Free}, hup : BOOLEAN]
  /\ nodeFd \in Fds \cup {NoFd, Garbage}
  /\ pc \in {"wait", "next", "in", "hup", "erase", "close again"}
  /\ greeted \subseteq Conn \cup {NoFd}
  /\ victims \subseteq Conn \cup {Listen, Other}
  /\ overwritten \in BOOLEAN

Owned == {fd \in Fds : fdTable[fd] \in Conn \cup {Listen}}

(* No damage yet from the second close, or from the memory of a node.      *)
Intact == victims = {} /\ ~overwritten

(***************************************************************************)
(* The three views of the open connections agree: the descriptors that are *)
(* open, the nodes of the hash table and the epoll interest list.  So a    *)
(* connection that is open is looked after, and a node never stands for a  *)
(* number that somebody else was given.  (-1 is the node of failed         *)
(* accepts.)  Once close_cb has closed a descriptor of another thread,     *)
(* that thread closes it again, and the views come apart.                  *)
(***************************************************************************)
TablesAgree ==
  Intact => sp_nodes \ {NoFd} = Owned /\ watched = Owned

(***************************************************************************)
(* An event that waits in the array of poll_event_process is still about   *)
(* the connection it was reported for when its turn comes, although the    *)
(* events before it close descriptors and accept gives them out again.     *)
(***************************************************************************)
EventsAreCurrent == Intact => \A e \in ready : fdTable[e.fd] = e.conn

(***************************************************************************)
(* net_base.h:98: a buffer per connection.  An entry of receiveMapBuffers  *)
(* only holds bytes of the connection its descriptor stands for, though    *)
(* close_cb erases it after the descriptor was closed and may have been    *)
(* given out again.                                                        *)
(***************************************************************************)
BufferIsOwn ==
  Intact => \A fd \in Fds : fdTable[fd] \in Conn => buffers[fd] \subseteq {fdTable[fd]}

(***************************************************************************)
(* With one event loop, whatever the other threads open and close, by      *)
(* mistake too, the second close of close_cb closes no connection of the   *)
(* server and not its listener, unless the node was overwritten.  (After a *)
(* second press another loop accepts as well, which is in ServerStart: the *)
(* close of one loop may then hit a connection of the other.)              *)
(***************************************************************************)
SecondCloseSparesServer == ~overwritten => victims \subseteq {Other}

(***************************************************************************)
(* net_base.cpp:77: "close the socket, we are done with it".  close_cb     *)
(* closes this socket and nothing else.                                    *)
(***************************************************************************)
SecondCloseClosesNothing == ~overwritten => victims = {}

(***************************************************************************)
(* A client that connects is accepted, if accept never wanted for a        *)
(* descriptor and nothing was damaged.                                     *)
(***************************************************************************)
BacklogIsAccepted ==
  \A c \in Conn :
    (stage[c] = "backlog") ~> (stage[c] \in {"accepted", "closed"} \/ NoFd \in greeted \/ ~Intact)

(* A connection whose client is gone is closed: no descriptor is leaked. *)
EndedIsClosed ==
  \A c \in Conn :
    (stage[c] = "accepted" /\ c \in ended) ~> (stage[c] = "closed" \/ ~Intact)
=============================================================================
