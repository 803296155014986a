----------------------------- MODULE ServerStart -----------------------------
(***************************************************************************)
(* openTcpServer, pressed more than once: net_server_manager starts a      *)
(* thread each time, which makes a listening socket, registers it and runs *)
(* the event loop for ever.  The threads share one NetBase, the hash table *)
(* sp_nodes and receiveMapBuffers, without a lock; each has an epoll       *)
(* object of its own.                                                      *)
(*                                                                         *)
(* An operation on the table or on the buffers begins with one step and    *)
(* ends with another.  When two threads are in it at a time, one of them   *)
(* writing, C++ promises nothing: the state is a Race, and the model stops *)
(* there.  What the loop reads is abstracted (ServerReceive), and so is    *)
(* what other threads do to descriptors and to freed nodes (PollLoop).     *)
(***************************************************************************)
EXTENDS UtHash

CONSTANTS
  Server,   \* the threads, one for each press of the button
  Conn,     \* client connections
  Fds,      \* descriptor numbers that are left
  Hashes    \* the hash functions that are tried

NoFd == -1

ASSUME StartAssumption ==
  /\ Fds \subseteq Nat \ {0}
  /\ Keys = Fds \cup {NoFd}
  /\ Hashes \subseteq HashFunctions

Free == [is |-> "free"]
Epoll(s) == [is |-> "epoll", of |-> s]
Listener(s) == [is |-> "listener", of |-> s]
Client(c) == [is |-> "client", of |-> c]

VARIABLES
  pc,         \* where each thread is
  sock,       \* sockFd of each thread
  state,      \* its socket: "none", "closed", "bound", "listening", "elsewhere" or "gone"
  epoll,      \* the threads with an epoll object
  watched,    \* the interest list of each
  ready,      \* the events of each epoll_wait that are not handled yet
  cur,        \* the event being handled
  new,        \* the descriptor that poll_event_add is called for
  fdTable,    \* what each descriptor number stands for
  sp_nodes,   \* the hash table
  accepting,  \* keys of the nodes with ACCEPT_CB
  stage,      \* per connection: "new", "backlog", "accepted" or "closed"
  ended,      \* the connections whose client has closed its end
  victims     \* history: what the second close of close_cb has closed

thread == <<pc, sock, epoll, ready, cur, new>>
kernel == <<state, watched, fdTable, stage, ended>>
nodes == <<sp_nodes, accepting>>
vars == <<thread, kernel, nodes, victims>>

NoEvent == [fd |-> NoFd, hup |-> FALSE]

Init ==
  /\ pc = [s \in Server |-> "none"]
  /\ sock = [s \in Server |-> NoFd]
  /\ state = [s \in Server |-> "none"]
  /\ epoll = {}
  /\ watched = [s \in Server |-> {}]
  /\ ready = [s \in Server |-> {}]
  /\ cur = [s \in Server |-> NoEvent]
  /\ new = [s \in Server |-> NoFd]
  /\ fdTable = [fd \in Fds |-> Free]
  /\ \E hashv \in Hashes : sp_nodes = NoTable(hashv)
  /\ accepting = {}
  /\ stage = [c \in Conn |-> "new"]
  /\ ended = {}
  /\ victims = {}

FreeFds == {fd \in Fds : fdTable[fd] = Free}

(* The number the kernel gives out, the lowest free one, if there is one. *)
NewFd == {fd \in FreeFds : \A other \in FreeFds : fd <= other}

Go(s, to) == pc' = [pc EXCEPT ![s] = to]

(* The port is taken: a socket listens on it. *)
PortTaken == \E s \in Server : state[s] = "listening"

Own(s) == sock[s] \in Fds /\ fdTable[sock[s]] = Listener(s)

(* close(fd): a listening socket takes its backlog with it. *)
Close(fd) ==
  LET is(file) == fd \in Fds /\ fdTable[fd] = file IN
  /\ fdTable' = [f \in Fds |-> IF f = fd THEN Free ELSE fdTable[f]]
  /\ watched' = [s \in Server |-> watched[s] \ {fd}]
  /\ state' = [s \in Server |-> IF is(Listener(s)) THEN "gone" ELSE state[s]]
  /\ stage' = [c \in Conn |->
       IF \/ is(Client(c))
          \/ stage[c] = "backlog" /\ \E s \in Server : state[s] = "listening" /\ is(Listener(s))
       THEN "closed" ELSE stage[c]]

-----------------------------------------------------------------------------
(* The clients. *)

Connect(c) ==
  /\ stage[c] = "new"
  /\ PortTaken
  /\ stage' = [stage EXCEPT ![c] = "backlog"]
  /\ UNCHANGED <<thread, state, watched, fdTable, ended, nodes, victims>>

ClientEnds(c) ==
  /\ stage[c] \in {"backlog", "accepted"}
  /\ c \notin ended
  /\ ended' = ended \cup {c}
  /\ UNCHANGED <<thread, state, watched, fdTable, stage, nodes, victims>>

-----------------------------------------------------------------------------
(* A thread starts: create_tcp_server, StartServer, createListenSocket. *)

CreateTcpServer(s) ==
  /\ pc[s] = "none"
  /\ Go(s, "socket")
  /\ UNCHANGED <<sock, epoll, ready, cur, new, kernel, nodes, victims>>

CreateSocket(s) ==
  /\ pc[s] = "socket"
  /\ \E fd \in NewFd :
       /\ sock' = [sock EXCEPT ![s] = fd]
       /\ fdTable' = [fdTable EXCEPT ![fd] = Listener(s)]
  /\ state' = [state EXCEPT ![s] = "closed"]
  /\ Go(s, "bind")
  /\ UNCHANGED <<epoll, ready, cur, new, watched, stage, ended, nodes, victims>>

CreateSocketFails(s) ==
  /\ pc[s] = "socket"
  /\ Go(s, "returned")
  /\ UNCHANGED <<sock, epoll, ready, cur, new, kernel, nodes, victims>>

(* With SO_REUSEADDR bind only fails while a socket listens; nobody asks. *)
BindSocket(s) ==
  /\ pc[s] = "bind"
  /\ state' = IF Own(s) /\ ~PortTaken THEN [state EXCEPT ![s] = "bound"] ELSE state
  /\ Go(s, "listen")
  /\ UNCHANGED <<sock, epoll, ready, cur, new, watched, fdTable, stage, ended, nodes, victims>>

(***************************************************************************)
(* listen fails when another socket listens on the port; a socket that is  *)
(* not bound is given a port that nobody knows.  Nobody asks either.       *)
(***************************************************************************)
ListenSocket(s) ==
  /\ pc[s] = "listen"
  /\ state' = CASE Own(s) /\ state[s] = "closed" -> [state EXCEPT ![s] = "elsewhere"]
                [] Own(s) /\ state[s] = "bound" /\ ~PortTaken -> [state EXCEPT ![s] = "listening"]
                [] OTHER -> state
  /\ Go(s, "epoll")
  /\ UNCHANGED <<sock, epoll, ready, cur, new, watched, fdTable, stage, ended, nodes, victims>>

(* poll_event_new; when epoll_create fails it goes on with epoll_fd = -1. *)
PollEventNew(s) ==
  /\ pc[s] = "epoll"
  /\ \/ \E fd \in NewFd :
          /\ fdTable' = [fdTable EXCEPT ![fd] = Epoll(s)]
          /\ epoll' = epoll \cup {s}
     \/ UNCHANGED <<fdTable, epoll>>
  /\ new' = [new EXCEPT ![s] = sock[s]]
  /\ Go(s, "add listener")
  /\ UNCHANGED <<sock, ready, cur, state, watched, stage, ended, nodes, victims>>

-----------------------------------------------------------------------------
(* The table and the buffers, and who is at them. *)

AtTable == {"add listener", "find", "add client", "remove"}

Racing(s, t) ==
  /\ s # t
  /\ \/ pc[s] \in AtTable \ {"find"} /\ pc[t] \in AtTable
     \/ pc[s] \in {"read", "erase"} /\ pc[t] \in {"read", "erase"}

Race == \E s, t \in Server : Racing(s, t)

(* Faulty variant: the kernel watches a descriptor that is not one. *)
PollEventAddUnchecked(s) ==
  LET fd == new[s]
      found == HashFind(sp_nodes, fd) = fd
  IN  /\ sp_nodes' = IF found THEN sp_nodes ELSE HashAdd(sp_nodes, fd)
      /\ watched' = IF found \/ s \notin epoll THEN watched ELSE [watched EXCEPT ![s] = @ \cup {fd}]

(***************************************************************************)
(* poll_event_add(new): a node that exists is reused and EPOLL_CTL_MOD is  *)
(* called, which fails on a descriptor this epoll object does not watch.   *)
(***************************************************************************)
PollEventAdd(s) ==
  LET fd == new[s]
      found == HashFind(sp_nodes, fd) = fd
  IN  /\ sp_nodes' = IF found THEN sp_nodes ELSE HashAdd(sp_nodes, fd)
      /\ watched' = IF found \/ fd = NoFd \/ s \notin epoll \/ (fd \in Fds /\ fdTable[fd] = Free)
                    THEN watched
                    ELSE [watched EXCEPT ![s] = @ \cup {fd}]

(* Faulty variant: the flag ACCEPT_CB is not set. *)
AddToEpollWithoutFlag(s) ==
  /\ pc[s] = "add listener"
  /\ PollEventAdd(s)
  /\ Go(s, "wait")
  /\ UNCHANGED <<sock, epoll, ready, cur, new, state, fdTable, stage, ended, accepting, victims>>

(* addToEpoll: the node accepts, and the loop begins. *)
AddToEpoll(s) ==
  /\ pc[s] = "add listener"
  /\ PollEventAdd(s)
  /\ accepting' = accepting \cup {new[s]}
  /\ Go(s, "wait")
  /\ UNCHANGED <<sock, epoll, ready, cur, new, state, fdTable, stage, ended, victims>>

-----------------------------------------------------------------------------
(* The loop. *)

Hup(fd) ==
  \/ \E c \in ended : fdTable[fd] = Client(c)
  \/ \E s \in Server : fdTable[fd] = Listener(s) /\ state[s] \in {"closed", "bound"}

IsReady(fd) ==
  \/ Hup(fd)
  \/ \E s \in Server : /\ fdTable[fd] = Listener(s) /\ state[s] = "listening"
                       /\ \E c \in Conn : stage[c] = "backlog"

(* Faulty variant: the loops share one epoll object. *)
EpollWaitOnAll(s) ==
  LET all == UNION {watched[t] : t \in Server} IN
  /\ pc[s] = "wait"
  /\ {fd \in all : IsReady(fd)} # {}
  /\ ready' = [ready EXCEPT ![s] = {[fd |-> fd, hup |-> Hup(fd)] : fd \in {f \in all : IsReady(f)}}]
  /\ Go(s, "next")
  /\ UNCHANGED <<sock, epoll, cur, new, kernel, nodes, victims>>

(* epoll_wait; a timeout changes nothing. *)
EpollWait(s) ==
  /\ pc[s] = "wait"
  /\ {fd \in watched[s] : IsReady(fd)} # {}
  /\ ready' = [ready EXCEPT ![s] = {[fd |-> fd, hup |-> Hup(fd)] : fd \in {f \in watched[s] : IsReady(f)}}]
  /\ Go(s, "next")
  /\ UNCHANGED <<sock, epoll, cur, new, kernel, nodes, victims>>

NextEvent(s) ==
  /\ pc[s] = "next"
  /\ \E e \in ready[s] :
       /\ ready' = [ready EXCEPT ![s] = @ \ {e}]
       /\ cur' = [cur EXCEPT ![s] = e]
  /\ Go(s, "find")
  /\ UNCHANGED <<sock, epoll, new, kernel, nodes, victims>>

EventsDone(s) ==
  /\ pc[s] = "next"
  /\ ready[s] = {}
  /\ cur' = [cur EXCEPT ![s] = NoEvent]
  /\ Go(s, "wait")
  /\ UNCHANGED <<sock, epoll, ready, new, kernel, nodes, victims>>

(* A listener that does not listen reports EPOLLHUP only: no callback reads. *)
HandleEvent(s) ==
  /\ pc[s] = "find"
  /\ LET fd == cur[s].fd IN
       Go(s, CASE HashFind(sp_nodes, fd) # fd -> "next"
               [] OTHER -> IF \E t \in Server : fdTable[fd] = Listener(t) /\ cur[s].hup THEN "hup"
                           ELSE IF fd \in accepting THEN "accept" ELSE "read")
  /\ UNCHANGED <<sock, epoll, ready, cur, new, kernel, nodes, victims>>

(* accept_cb, to the call of poll_event_add *)
Accept(s) ==
  /\ pc[s] = "accept"
  /\ LET able == {c \in Conn : /\ stage[c] = "backlog"
                               /\ \E t \in Server : state[t] = "listening" /\ fdTable[cur[s].fd] = Listener(t)}
     IN  \/ \E c \in able, fd \in NewFd :
              /\ stage' = [stage EXCEPT ![c] = "accepted"]
              /\ fdTable' = [fdTable EXCEPT ![fd] = Client(c)]
              /\ new' = [new EXCEPT ![s] = fd]
         \/ /\ able = {} \/ FreeFds = {}
            /\ new' = [new EXCEPT ![s] = NoFd]
            /\ UNCHANGED <<stage, fdTable>>
  /\ Go(s, "add client")
  /\ UNCHANGED <<sock, epoll, ready, cur, state, watched, ended, nodes, victims>>

AddClient(s) ==
  /\ pc[s] = "add client"
  /\ PollEventAdd(s)
  /\ Go(s, "hup")
  /\ UNCHANGED <<sock, epoll, ready, cur, new, state, fdTable, stage, ended, accepting, victims>>

ReadCb(s) ==
  /\ pc[s] = "read"
  /\ Go(s, "hup")
  /\ UNCHANGED <<sock, epoll, ready, cur, new, kernel, nodes, victims>>

CheckHup(s) ==
  /\ pc[s] = "hup"
  /\ Go(s, IF cur[s].hup THEN "remove" ELSE "next")
  /\ UNCHANGED <<sock, epoll, ready, cur, new, kernel, nodes, victims>>

(* Faulty variant: the node stays in the table. *)
PollEventRemoveKeepsNode(s) ==
  /\ pc[s] = "remove"
  /\ Close(cur[s].fd)
  /\ Go(s, "erase")
  /\ UNCHANGED <<sock, epoll, ready, cur, new, ended, nodes, victims>>

(* close_cb: poll_event_remove, erase and the second close. *)
PollEventRemove(s) ==
  /\ pc[s] = "remove"
  /\ LET fd == cur[s].fd IN
       IF HashFind(sp_nodes, fd) = fd
       THEN /\ sp_nodes' = FreeItem(HashDelete(sp_nodes, fd), fd)
            /\ accepting' = accepting \ {fd}
            /\ Close(fd)
       ELSE UNCHANGED <<nodes, fdTable, watched, state, stage>>
  /\ Go(s, "erase")
  /\ UNCHANGED <<sock, epoll, ready, cur, new, ended, victims>>

EraseBuffer(s) ==
  /\ pc[s] = "erase"
  /\ Go(s, "close again")
  /\ UNCHANGED <<sock, epoll, ready, cur, new, kernel, nodes, victims>>

CloseAgain(s) ==
  /\ pc[s] = "close again"
  /\ Close(cur[s].fd)
  /\ victims' = victims \cup ({fdTable[fd] : fd \in Fds \cap {cur[s].fd}} \ {Free})
  /\ Go(s, "next")
  /\ UNCHANGED <<sock, epoll, ready, cur, new, ended, nodes>>

Run(s) ==
  \/ CreateSocket(s) \/ CreateSocketFails(s) \/ BindSocket(s) \/ ListenSocket(s)
  \/ PollEventNew(s) \/ AddToEpoll(s)
  \/ EpollWait(s) \/ NextEvent(s) \/ EventsDone(s) \/ HandleEvent(s)
  \/ Accept(s) \/ AddClient(s) \/ ReadCb(s)
  \/ CheckHup(s) \/ PollEventRemove(s) \/ EraseBuffer(s) \/ CloseAgain(s)

Next ==
  /\ ~Race
  /\ \/ \E s \in Server : CreateTcpServer(s) \/ Run(s)
     \/ \E c \in Conn : Connect(c) \/ ClientEnds(c)

Spec == Init /\ [][Next]_vars

-----------------------------------------------------------------------------
(* Properties. *)

TypeOK ==
  /\ pc \in [Server -> {"none", "socket", "returned", "bind", "listen", "epoll", "wait", "next",
                        "accept", "hup", "read", "erase", "close again"} \cup AtTable]
  /\ sock \in [Server -> Fds \cup {NoFd}] /\ new \in [Server -> Fds \cup {NoFd}]
  /\ state \in [Server -> {"none", "closed", "bound", "listening", "elsewhere", "gone"}]
  /\ epoll \subseteq Server
  /\ watched \in [Server -> SUBSET Fds]
  /\ ready \in [Server -> SUBSET [fd : Fds, hup : BOOLEAN]]
  /\ cur \in [Server -> {NoEvent} \cup [fd : Fds, hup : BOOLEAN]]
  /\ accepting \subseteq Keys
  /\ stage \in [Conn -> {"new", "backlog", "accepted", "closed"}]
  /\ ended \subseteq Conn

Started(s) == pc[s] \notin {"none", "socket", "returned", "bind", "listen"}

(***************************************************************************)
(* However the presses interleave, and though bind and listen may fail     *)
(* without anybody noticing: as soon as one thread has made its calls, one *)
(* socket listens on the port, and no event ever closes it.  Once its      *)
(* thread is in the loop, the socket is watched and its node accepts,      *)
(* unless its epoll object could not be created.                           *)
(***************************************************************************)
PortIsServed ==
  (\E s \in Server : Started(s)) /\ victims = {} =>
    /\ Cardinality({s \in Server : state[s] = "listening"}) = 1
    /\ \A s \in epoll :
         state[s] = "listening" /\ pc[s] # "add listener" =>
           sock[s] \in watched[s] \cap accepting \cap FoundKeys(sp_nodes)

(* uthash's own check of its lists, which is compiled out, holds after every operation. *)
TableSound == HashFsck(sp_nodes) /\ ChainsBounded(sp_nodes)

(***************************************************************************)
(* While nobody is in the middle of it, the table has a node for exactly   *)
(* the descriptors that the loops are responsible for: neither the moving  *)
(* of items between buckets nor the other loop loses one.                  *)
(***************************************************************************)
Registered ==
  {fd \in Fds :
     \/ \E c \in Conn : fdTable[fd] = Client(c)
        /\ ~\E s \in Server : pc[s] = "add client" /\ new[s] = fd
     \/ \E s \in Server : fdTable[fd] = Listener(s)
        /\ pc[s] \notin {"bind", "listen", "epoll", "add listener"}}

TableExact == victims = {} => FoundKeys(sp_nodes) \ {NoFd} = Registered

(* s handles an event of its own listening socket, which does not listen. *)
HangsUp(s) ==
  /\ state[s] # "listening"
  /\ sock[s] \in Fds
  /\ cur[s].fd = sock[s]

(***************************************************************************)
(* Two threads only ever race when one of the two starts, or hangs up a    *)
(* listener of its own that does not listen: once it is through with that, *)
(* a thread never meets another one, however many were started.            *)
(***************************************************************************)
RaceIsAtStart ==
  victims = {} =>
    \A s, t \in Server :
      Racing(s, t) => \E u \in {s, t} : pc[u] = "add listener" \/ HangsUp(u)
=============================================================================
