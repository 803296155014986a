# TLA+ models of jni_dev

`jni_dev` is an Android application with a C++ core: a TCP client with a send
queue and a receive thread, a TCP server built on `epoll`, a wire format
(`PduUtil`, `PDUBase`) that both use, and a JNI layer between them and the
Java side. This directory holds TLA+ models of the core, TLC runs over small
instances, and proofs checked by TLAPS. Paths below are relative to
`src/app/src/main/cpp` unless they begin with `java/`.

## 1. The system

| Component | State it keeps | Operations | Module |
|---|---|---|---|
| `TcpClient` (`net/tcp/client`) | `socketFd`, `m_exit`, `m_ip`, `m_queue`, mutex, condition variable | `Open`, `Send`/`SendProto`, `Close`, and the threads `connectTcp` + `receiveThread` and `sendThread` | `TcpClient` |
| receive side of `TcpClient` | `total_buffer`, `total_length` | `receiveThread` | `ClientReceive` |
| `PduUtil`, `PDUBase` (`net`) | none | `OnPduPack`, `OnPduParse` | `PduCodec`, `PduStream` |
| `NetBase` (`net/tcp/server/net_base.*`) | `receiveMapBuffers` | `StartServer`, `read_cb`, `close_cb`, `accept_cb`, `Send` | `ServerReceive`, `PollLoop` |
| event loop (`net/tcp/server/poll.*`) | hash table `sp_nodes`, epoll list, `ptrNetBase` | `poll_event_new`, `poll_event_add`, `poll_event_remove`, `poll_event_process` | `PollLoop`, `ServerStart` |
| `uthash` (`util/uthash.h`) | buckets, two lists through the items | find, add, expand, delete, self-check | `UtHash` |
| `net_server_manager`, `CSocketBase` | one `NetBase` for every start | `create_tcp_server`; socket, bind, listen | `ServerStart` |
| `sdk_manager` | one client | `create_tcp_client`, `send_*`, the receive listener | `TcpClient`, `JniHelper` |
| `JniHelper`, `java_call_cpp` | `_classLoader`, `_methodID`, thread key | `nativeSetContext`, `sendString`, `sendBytes`, attach, detach, look up, call `onReceivePdu` | `JniHelper` |
| `tcpServer` (alternative server) | its own epoll list | `start` | none: its call is commented out |
| `java/` `MainActivity`, `UtilJni`, `DeviceUtil` | none | `onCreate`, four buttons | the user in `TcpClient`, the UI thread in `JniHelper` |
| `log` | none | | left out |

How they interact. A button calls a native method; `sdk_manager` calls
`TcpClient::Open` or `Send` on the UI thread. Every `Open` starts a detached
thread that connects and then receives; every connection starts a detached
sender. All of them share the members of one `TcpClient`, and only the queue is
guarded. Received PDUs go through a callback to `JniHelper::ConReceivePdu` and
Java. `create_tcp_server` starts a thread that runs the event loop for ever.
Client and server live in one process and share its descriptor table: a number
that one side closes may be given to the other at once.

What is hard here:

* TCP cuts the stream anywhere. The parser looks at the start flag before it
  looks at how many bytes there are, and reads the header from whatever memory
  is behind them.
* The two receivers treat the answer -1 differently: the server throws its
  buffer away, the client keeps it until 512 KB are full.
* `socketFd` and `m_exit` are read and written by several threads without a
  lock; threads of old connections live on and act on the new one's socket.
* A sender waits for messages only: `Close` cannot wake it. It writes with the mutex
  held, and a server that does not read keeps it in `write`.
* `close_cb` uses a node after it was freed and closes a descriptor twice.
* Events are handled by descriptor number, while numbers are reused.
* Every press of the server button starts one more event loop over the same hash
  table, and whether `bind` and `listen` succeeded is not looked at.
* PDUs reach Java from native threads that attach by themselves, through a class
  loader and a method that `onCreate` replaces at any time, two globals that are read
  one after the other without a lock, with calls that may fail half way.

The full list, with lines, is `hazards` in `PROJECT.json`.

What makes each component correct:

* wire format: what is packed is parsed, and a cut PDU is waited for;
* receivers: every PDU that has arrived is delivered once and in order;
* client: messages leave in the order of `Send`, as a whole, and none is lost in
  silence; nobody sleeps while there is work; `Send` returns, unless the server does
  not read what is written; no socket leaks;
* event loop: its three tables agree, events and buffers belong to the connection
  they are used for, connections are accepted and closed;
* hash table: its lists and counts are consistent and every item is found, also
  after the buckets have been doubled;
* start of the server: however often it is pressed, one socket serves the port;
* JNI layer: whoever calls Java is attached and whoever has ended is not, no
  reference is used after it was deleted or kept for nothing, and no memory of a
  message is given back while the message is queued.

## 2. The modules

### PduStream: the byte stream and the parser, abstractly

Shared by the receivers. A byte is its position in the stream; a buffer is an
interval `lo .. hi-1`; PDU `i` is `Start[i] .. Start[i+1]-1`. `OnPduParse(lo,
hi, mem, r)` says whether `r` is a possible answer of the code for that
interval, where `mem` tells what the memory behind the bytes holds: zeros (the
stack buffer of `read_cb`), the header of the PDU before (what `memmove` leaves),
or junk. Answers are a size, `NeedMore` (0), `BadFormat` (-1) and `Crash`:
`new char[base.length]` throws on a negative length, which junk may give.
One assumption: what a buffer out of step holds does not look like the beginning of a
start flag, so that it is never mistaken for one in step. That is more than a payload
without a flag in it: a buffer that is cut after the first byte of something like a flag
is completed by an old header behind it, and `PduCodec` shows such buffers
(`FalseFlag`).

### PduCodec: the parser and the packer, byte by byte

`OnPduPack` and `OnPduParse` on sequences of bytes, including the lines that
mix up `offset` and `pdu_type`, and both sizes of `long`. Where pointers have 32 bits,
the sum of header and length may overflow, and does so only for a length that was read
from junk. What comes back of a packed PDU is written down in full (`Received`, `PayloadRoundTrips`):
five of the eight fields as they were, the time stamp with a long of 8 bytes and only its
sign with one of 4, the offset always 0x05000000 and the type never.
Its invariant `StreamModelIsRight` ties `PduStream` to it: for every interval
of a stream and every memory behind it (`Memory`), the answer of the byte-level parser
is one that `PduStream` allows. That makes the abstraction of the receivers a checked,
and for any two bodies and any header a proved one.

### ClientReceive: `TcpClient::receiveThread`

One connection. `hi - lo` is `total_length`. Actions: `Read` (140-149),
`DropAll` (the overflow branch, 144-147), `ReadEof` and `ReadError` (160-171),
`ParsePdu` (a round of the loop), `ParseEnds` (0 or -1), `ParseThrows`.
`Arrive` and `PeerClose` are the server and the network.

`InOrderDelivery` is the abstract specification: PDUs become complete, and are
delivered one by one in order. `ClientReceive` implements it, for PDUs that fit,
under `complete <- PdusBefore(arrived)`, `delivered <- received`.

### ServerReceive: `read_cb` and `close_cb`, one connection

The same stream, into an entry of `receiveMapBuffers`. `EpollWait` takes the event
with or without the close flags, `ReadCb` runs once, `Parse` is its loop (with
`ParseReject`, which erases the entry), then `CloseCb` if the flags were set.

### PollLoop: the event loop

Several connections and the other threads of the process over one descriptor
table. Bytes are abstracted to who sent them. `EpollWait`, `NextEvent`, `Accept`,
`AcceptFails`, `ReadCb`, `NoHup`, `EventsDone` follow `poll_event_process`;
`close_cb` is three actions, `PollEventRemove`, `EraseBuffer`, `CloseAgain`,
because other threads can act between them. Three environment actions:
`OtherOpens` and `OtherCloses` (a thread that opens a descriptor believes in its
number until it closes it) and `Overwrite` (the memory of the freed node is used
again). The two histories `victims` (what the second close hit) and
`overwritten` record damage; `Intact` is that there was none. There is one event loop:
what the second close spares (`SecondCloseSparesServer`) are the connections of that loop.
After a second press of the server button the number it hits may be that of a connection
of the other loop; `ServerStart` reaches such states, of which
`PortIsServed`, `TableExact` and `RaceIsAtStart` say nothing (`victims`).

### TcpClient: the threads of the client

The user (`Open`, `Send` in two steps), a thread per `Open` (`CreateSocket`,
`CheckSocket`, which reads the shared `socketFd` again, `CheckAddress`,
`ConnectSucceeds`/`ConnectFails`, `Read`, `ReadData`, `ReadEnds`, and `Close` in three
steps) and a sender per connection (`CheckExit`, `Lock`, `CallWrite`, and `Write` or
`GiveUp` when the write returns). A message is a number; a write sends some of its
`Parts`. A write stays on the socket it was called on (`writing`) until the kernel takes
bytes or the connection has ended; while the server does not read (`ServerStalls`,
`stalled`) it does not return at all, and the mutex is held. `fdTable` says which socket a number stands for, so that
a stale `socketFd` reaches whatever is there now. `notify_one` wakes any one
of the waiting senders; `Lock` evaluates the predicate of `interrupt.wait`.
A `read` that is blocked stays on its socket when the number is closed, as in Linux.

`SendFifo` is the abstract specification of the send side: messages are accepted,
and leave in that order, written or lost. `TcpClient` implements it under
`accepted <- sent`, `pending <- Unsent` (the message of the sender that holds the
mutex, then `m_queue`), `written <- Written`. Two senders at a time, a reconnect in
the middle of a message and a sender that gives up are all one queue to the caller.

### UtHash: the hash table of `poll.cpp`

`HASH_FIND`, `HASH_ADD` and `HASH_DEL` as operators on a record `h`: the buckets
with their counts, the chain of each bucket (`hh_prev`, `hh_next`), the list in
order of insertion (`prev`, `next`, `head`, `tail`), and the doubling of the
buckets with `expand_mult`, `ineff_expands` and `noexpand`. An item is its key.
The hash function may be any function from keys to numbers (`HashFunctions`): the
arithmetic of `HASH_JEN` is not modelled. `HashFsck` is the self-check of uthash (compiled out in the program), and
`ChainsBounded` the bound on the length of a chain: `expand_mult + 1` times the
threshold, as the comment at `uthash.h:1068` says, or the same multiple of
`ideal_chain_maxlen`. The second is needed since an expansion moves items without
looking at the threshold: a table with few buckets, a low threshold and a hash function
that puts everything into one of them has longer chains after it than the comment
allows, and doubles again only with the next `HASH_ADD` to that bucket.

### ServerStart: pressing the button more than once

A thread per press: `CreateTcpServer`, `CreateSocket`, `BindSocket`,
`ListenSocket` (which fail as the kernel's rules for the port say, and nobody
asks), `PollEventNew`, `AddToEpoll`, then the loop, in smaller steps than in
`PollLoop`: an operation on `sp_nodes` or `receiveMapBuffers` begins with one step
and ends with another. Two threads inside the same structure, one of them writing,
are a `Race`: C++ promises nothing then, and the model stops. What the loop does
with descriptors and bytes is abstracted, since `PollLoop` and `ServerReceive` have
it; what is new here is the start, the table and the second loop. A socket that
was bound or created but does not listen is reported by epoll as hung up, so that
the loop of a second server closes its own listener and goes on for nobody.

### JniHelper: between the threads and Java

The UI thread runs `onCreate` (`SetContextFails`, `StoreLoader`, `StoreMethod`: the
two globals are stored one after the other), starts connections and sends
(`GetChars`, `SendProto`, `ReleaseChars`). A receive thread goes through
`ConReceivePdu` step by step: `CacheEnv` or `CacheEnvFails`, `NewName`,
`ReadClassLoader`, `ReadMethodID`, `LoadClass` or `LoadClassFails`, `FindMethod` or
`FindMethodFails`, `CallJava`, which may leave an exception pending, and `ThreadExit`,
the destructor of the key. The two globals are read in two steps, and the call goes by
what was read (`loader`, `method`), however old it is: a thread that has read the loader
before `onCreate` stored it aborts the process with both set. `NameAborts`, `ClassAborts`,
`NewArrayAborts` and `ExitAborts` are where the VM aborts the process; `aborted` says
which thread did, and why. The history `ready` has the threads whose lookup began after
`_methodID` was set. The messages of the user are followed from the characters of the Java
string to the copy in the queue and to the sender (`TakePdu`, `PackPdu`).

### The rest

`MC*` modules give the instances their values. The modules `*_proofs` hold the
proofs. Operators marked "faulty variant" are not part of
the models: each is a definition with a plausible bug in it, used to see that
the properties notice the bug (`mutants` in `PROJECT.json`).

## 3. The runs

| Run | Instance | Shows |
|---|---|---|
| `client_receive_fits` | 4 PDUs of sizes 3, 5, 4, 3 (flag 2, header 3), reads of up to 6, buffer 10: the largest PDU just fits | exact, ordered delivery; the overflow branch is dead; refinement of `InOrderDelivery`; what has arrived is received |
| `client_receive_large` | sizes 4, 7, 3, reads of up to 3, buffer 7: the 7 does not fit | what is received is in order, whatever is thrown away (`InOrder`); after an overflow the client delivers nothing until the next overflow (`ResyncOnlyByOverflow`), and still in order |
| `server_receive` | sizes 3, 3, 6, reads of up to 5 | delivery is exact until a reject; the first reject is of a cut start flag; what arrives is received, and only a full last read can leave PDUs behind at the close |
| `server_receive_contract` | the same | **violated**: a partial PDU is thrown away |
| `poll_loop` | 2 connections, 2 descriptors besides the listener, 1 other holder, 2 events at a time | tables agree, events and buffers are of the right connection, the second close spares the connections of this loop, accept and close happen |
| `poll_loop_close` | 1 connection | **violated**: the second close hits another thread |
| `tcp_client` | 2 overlapping Opens, 3 messages of 2 parts, good and bad addresses | send order, `TcpClient` implements `SendFifo`, no lost wakeup |
| `tcp_client_live` | 3 Opens one after the other, 2 messages, 2 descriptors | only bad addresses leak a socket; liveness, up to a sender that is stuck in a write |
| `tcp_client_torn` | 2 Opens, 1 message | **violated**: a message is split over two connections |
| `pdu_codec` | 2 PDUs, without a body and with one of 2 bytes, 4 headers with positive, negative and flag-like fields, every interval, zeros, an old header or 3 kinds of junk behind it, `long` of 4 and 8 | `PduStream` is right; what comes back of each field |
| `jni_helper` | 2 receive threads with 2 PDUs each, 2 calls of `onCreate`, 2 messages | attachment, class loader, local references, aborts, memory of queued messages |
| `server_start` | 2 presses, 2 clients, 5 descriptors; 1 initial bucket, chains of up to 2; a hash function with some collisions and one with nothing else | one socket serves the port; the table is sound and exact through two doublings; of two threads that meet in a table one is starting, or closes its own listener, which never listened |

Why the bounds are enough. The receivers depend on lengths only by comparison,
so sizes are chosen around the comparisons: PDUs with and without a body, a start
flag of two bytes that can be cut, reads longer than a PDU, so that one read
completes two, a buffer that a PDU fills exactly, and one it exceeds by one read.
The event loop needs a second connection that can be given the number of the first,
a third party that can be given it as well, and an array that takes two events, so that
the second is handled after the first has changed the tables. It is never too small here:
two connections and the listener could be three events, but the listener is ready only
while a client waits for `accept`, so that more than `MAX_EVENTS` at once does not happen.
The client needs two connections, two senders at a time, a message to lose, one to
overtake it, a write that is cut and one that is blocked; three Opens and two descriptors let bad
addresses use the descriptors up. The JNI layer needs a second thread to
see what is per thread and what is shared, a second PDU to meet what the first left
behind, and a second `onCreate` to replace the loader under a call, or, if the
first one failed, to store it under a lookup that has found it unset. `server_start`
has descriptors for two listeners, two epoll objects and a client, and runs out of
them; the sizes of the hash table are scaled down from 32 buckets and chains of 10,
so that a handful of nodes doubles the buckets twice. `noexpand` is not reached with
that many nodes: it takes two doublings in a row that do not help, and the expansion
limit of each bucket grows with the first; the proofs cover it. `MaxOpen`, `MaxMsg`, `MaxHeld`,
`MaxCreate`, `MaxPdu` and `MaxSend` are the only
bounds that are not the code's. Deadlock is not checked: each instance ends
when its PDUs, calls or connections are used up, and a sender that waits for a
message for ever is what the code does.

Fairness. `ClientReceive`, `ServerReceive` and `PollLoop` assume that the thread
that runs the loop is scheduled and that `read` and `epoll_wait` return when
there is something; nothing is assumed of the peer. `TcpClient` assumes weak
fairness of each thread for the steps it can take: a finite piece of code, or a system
call whose answer the kernel has. `connect` fails at last; `read` returns when the
connection has ended; `write` returns when the socket takes bytes or the connection has
ended, and not while the server stays connected and does not read, since no timeout is
set on the socket (`SO_SNDTIMEO` is only read, `tcp_client.cpp:107`). That a server reads
or closes is not assumed: `QueueIsEmptied` and `SendReturns` name the state in which a
sender is stuck in such a write (`SenderStuck`), and say that nothing else keeps the
queue or the UI thread. The mutex needs no more: there are finitely many
messages, so nobody is overtaken for ever. `JniHelper` and `ServerStart` state no
fairness and no liveness: a thread of the first does finitely many steps for a PDU
unless the VM aborts, and what the loop of the second promises is in `PollLoop`,
where nothing stops at a race. Nothing is assumed of the user, and
nothing of which events `epoll_wait` picks when more are ready than the array takes,
which the instance does not reach.

## 4. What the violated runs show

1. `pdu_util.h:17` promises 0 for an incomplete package; `pdu_util.cpp:41`
   answers -1 when fewer than four bytes are there, and `net_base.cpp:57` erases
   them. The connection is then out of step for good.
2. `net_base.cpp:77` says the socket is closed; it is closed twice (`poll.cpp:124`,
   `net_base.cpp:81`), and the second close takes a descriptor that another
   thread was given in between.
3. `tcp_client.cpp:201` wants the message sent until it is complete; the loop reads
   `socketFd` anew, and after a reconnect the rest goes to the new connection.

Seen while reading, without a run: `pdu_util.cpp:28` refers to the fields of
`pdu_base.h`, but the type byte is parsed into `offset` (`pdu_util.cpp:48`), so that
`pdu_type` stays uninitialised, and the field `offset` is packed as 5, the local
variable of that name, in host order (135), so that the other side reads 0x05000000.
Where `long` has 4 bytes the time stamp is lost: `htonq` widens it to 64 bits and swaps
them, and what is stored and sent is the half with the sign (110); the parser does the
same again (60), and gets 0, or -1 for a negative one. No document of the repository
promises that a PDU comes back as it was, so these three are no violated run;
`PduCodec` has them as the code does, and `PayloadRoundTrips` says what is left of each
field. Nothing sets a timeout on the client's socket: `tcp_client.cpp:107` reads
`SO_SNDTIMEO` under a comment that speaks of setting an option, so that a server which
does not read stops the sender, and `Send` on the UI thread with it. `JniHelper.cpp:228` reads
the two globals without a lock: when the first `nativeSetContext` has failed, a PDU that arrives
while the next `onCreate` stores them may abort the process with both set. With two event loops the second close of
`net_base.cpp:81` may hit a connection of the other loop. `JniHelper.cpp:136` returns without deleting the
reference to the class, and `setClassLoaderFrom` forgets the global reference of the
`onCreate` before, which is what keeps `LoaderIsValid` true. An exception thrown by
`onReceivePdu` stays pending, and the next JNI call of the thread aborts.
`net_base.h:34` speaks of edge-triggered
epoll, and the code uses it level-triggered; `net_base.cpp:28` writes one byte
behind `subBuf` after a read of 1024, and `OnReceive` (209) one behind the body;
the header is 4 bytes shorter where `long` has 4 bytes, so that a 32-bit and a
64-bit build do not understand each other.

## 5. The proofs

All theorems hold for every value of the constants that satisfies the named
assumptions (`StreamAssumption`, `BufferAssumption`, `ChunkAssumption`,
`FdAssumption`, `DistinctAssumption`, `ClientAssumption`, `JniAssumption`,
`UtHashAssumption`, `StartAssumption`, `CodecAssumption`), which TLC evaluates in the runs.

* **`PduCodec_proofs`**: `StreamModelHolds` (`StreamModelIsRight`), `PayloadComesBack`
  (`PayloadRoundTrips`) and `PackedStreamIsAllowed`, for any two bodies, any header
  fields, both sizes of `long` and any memory behind the buffer. The inductive invariant
  is simple (`CodecInv`: the answer is that of `OnPduParse` for the buffer); the work is
  below it, in three layers. The bytes of an integer, taken apart by `\div` and `%`, add up
  to it again, for all 32-bit integers (`IntBytes`) and for all 64-bit ones as two halves
  (`LongBytes`). A packed PDU has each field where the parser looks for it (`PackLayout`),
  and so have the stream and, as far as it reaches, the buffer (`PduInBuffer`), also the two
that do not come back: the offset has the bytes of 0x05000000 (`FiveBytes`), and of a
cut time stamp only the byte with the sign is looked at. What is
  answered then depends on what the four bytes of the flag and those of the length
  are made of: the stream, the memory behind it, or both (`CutFlag`, `LengthRead`). The
  bound on the length of a body is needed there: a length of which the
  first bytes are of one header and the last of another must not be negative either.
  `PackedStreamIsAllowed` closes the gap on the other side: the stream of packed PDUs
  satisfies `StreamAssumption`, from which the theorems about the receivers start.
* **`ClientReceive_proofs`**: `TypeCorrect`, `ReceivedInOrder` for any stream;
  `NeverOverflows`, `DeliveryIsExact` and `Refinement` for streams that satisfy
  `FitsBuffer`. The exact delivery invariant needs that no overflow happens, and
  that needs that what is left in the buffer is less than the PDU at its front,
  which holds because the buffer starts at a PDU: the inductive invariant is the
  conjunction, with the leftover bound by program point. `RejectedBytesStay` is
  `ResyncOnlyByOverflow` for any stream: a step that moves a front which is not at
  a PDU is the overflow (`FrontMoves`), since the parser answers with a PDU
  only at the start of one. Underneath, as in `ServerReceive_proofs`, are facts about the
  stream: starts are increasing (`EndsBefore`, `StartInjective`), a PDU the parser
  returns is wholly in the buffer (`ParsedIsBuffered`), what it calls incomplete is a
  proper prefix of a PDU (`NeedMoreIsPrefix`), and a reject at the start of a PDU is of a
  cut flag (`RejectIsCutFlag`).
* **`ServerReceive_proofs`**: `TypeCorrect`, `ReceivedInOrder`,
  `DeliveryIsExactUntilDropped`, `FirstDropIsOfACutFlag`. The invariant says that
  until the first reject `lo` is the start of the next PDU; the reject is then
  at a start, and the lemma about cut flags applies. `OnlyAFullReadLeavesPdus`
  (`ClosedAfterAll`) needs two more conjuncts, of which neither is about the close:
  `NextIsIncomplete`, that outside the parser's loop the next PDU is not wholly in
  the buffer, and `HangUp`, that a read which was not full, after the peer has
  closed, has taken everything there was.
* **`PollLoop_proofs`**: `TablesAlwaysAgree`, `EventsStayCurrent`,
  `BuffersAreOwn`, `SecondCloseSparesTheServer`, for one event loop. `LoopInv` adds that the event
  being handled is of an open descriptor without a second event waiting, until
  `close_cb` has closed it; then the number is free or another thread's and the
  node still holds it. Without that, closing and accepting inside one array of
  events could make a later event stale. It holds while `Intact`, and damage is
  never undone (`IntactBefore`), so that `Intact => LoopInv` is inductive. `TypeCorrect`
  holds with damage as well.
* **`TcpClient_proofs`**: `NoWakeupIsLost` (any number of senders, messages and
  overlapping Opens) and `WritersExclude`. The invariant counts: the queue is no
  longer than the number of notified senders while one sleeps; the mutex has
  an owner exactly while a sender writes, blocked or not. `TypeCorrect` and `ClientIsFifo` rest on
  `WriterInv`, which adds to the mutex invariant that a sender in the write loop has
  a message and parts left of it, and on `BoundInv`. The refinement then goes by
  actions: `SendLocked` is an `Accept`, the last `Write` of a message a `Deliver`, a
  `GiveUp` a `Lose`, and everything else moves nothing the caller of `Send` sees:
  `Lock` only moves the head of the queue to the holder of the mutex.
  `MessagesLeaveInOrder` (`SendOrder`) and
  `OnlyBadAddressesLeak` (`OpenSocketHasThread`). The order of what is on the wire is an
  invariant of the whole path of a message: the queue holds the numbers
  after `Taken`, a writer has `Taken` itself (`QueueInv`), and nothing on the wire is
  ahead of that (`BehindInv`). Only the last part on the wire may still be followed up
  (`TailInv`), and each message that was given up has a sender that ended for it
  (`LostInv`). That sockets do not leak is proved for `~Overlap`, the case the
  property is about: the user waits for one Open to be done with before the next.
* **`JniHelper_proofs`**: `AttachedThroughout`, `LoaderStaysValid`,
  `AbortsExplained`, `ReferencesBalanced`, and `Invariance` of what they follow from:
  `Keyed` (a thread is attached exactly while the key has a value for it, so that the
  destructor detaches whom `cacheEnv` attached), `LoaderStored` (the loader is a live
  global reference, and the method is there only after it), `Lookups` (a lookup that
  began when the method was set reads a loader that is set and a method that is set, in
  whatever order the UI thread stores new ones meanwhile), `References` (how many
  local references a thread holds at each place of its code), with the types of what
  they speak of (`ThreadType`). `BodiesStayLive` (`QueuedBodiesLive`) has an invariant of
  its own, `MemoryInv`: messages leave in the order they were sent, so that a copy is
  freed by the sender that has packed it and by nobody before.
* **`UtHash_proofs`**: what the macros of uthash do, for any set of keys, any number of
  buckets and every hash function. A chain is named by the sequence of its items
  (`IsList`), so that a push, an append and a deletion of links become an item in front,
  one at the end, one less. `Sound` is the inductive invariant of a table: it has items
  exactly while it has a head; the list in order of insertion and the chains of all
  buckets are lists without repetition, linked backwards as well; an item is in the chain of
  the bucket its hash value names and in no other; the counts are the lengths. `AddSound`
  and `DeleteSound` say that `HashAdd` and `HashDelete` keep it and change the contents
  by one item, `SoundChecks` that it implies `HashFsck` and `ChainsBounded`, and
  `FoundAreContents` that `HASH_FIND` finds exactly the contents. An expansion is an
  induction inside one operation, over the buckets and the items of each (`Chained`,
  of a table that is partly moved). Induction over data is out of the prover's reach as a
  theorem about an operator; it is stated here about a set of numbers (`Induct`, from the
  well-foundedness of `<`), which each use instantiates with a set of its own.
* **`ServerStart_proofs`**: `TypeCorrect`, `RacesAreAtStart` (`RaceIsAtStart`),
  `TableStaysSound` (`TableSound`), `TableIsExact` (`TableExact`) and `PortStaysServed`
  (`PortIsServed`), for any number of presses and any hash function. `RaceIsAtStart` is
  about each pair that races: one of these two threads is at its first `poll_event_add`,
  or has its own listener, which does not listen, as the event in hand. `StartInv` says what
  each thread serves: its own listening socket and, if that is the one on the port, the
  connections; its interest list, its events and the event in hand are of descriptors
  it serves. Two threads never serve the same one, so that the steps of one leave the
  invariant of the others alone (`Frame`). What the hash table answers plays no part in
  it, and it holds until a second close hits somebody (`victims`). `TableInv` is that the
  table is `Sound`, always. `ServeInv` is on top of both: the contents of the table
  are what the threads answer for, and the socket that listens keeps its node, its flag
  and its place in the interest list. It needs `StartInv` where an event is hung
  up (the node that goes is of a descriptor its thread serves), and `TableInv` where
  an answer of `HASH_FIND` decides what is closed.

Every safety invariant, action property and refinement that a run checks is stated by one
of these theorems. Only model-checked: all liveness (`ArrivedIsReceived`,
`BacklogIsAccepted`, `EndedIsClosed`, `QueueIsEmptied`, `SendReturns`, `EndedRunEnds`),
since fairness and `ENABLED` are out of the prover's reach. The codec is proved for two
PDUs, which is what a buffer out of step and a PDU behind another need; for any number, the
stream would be a recursive definition, and induction over it is out of reach as well.

## 6. What is not modelled

* `tcpServer::start`: it is compiled, and its only call is commented out
  (`net_server_manager.cpp:35`), so that no execution of the program reaches it.
* What follows a data race on `sp_nodes` or `receiveMapBuffers` (`ServerStart` stops
  there); the arithmetic of `HASH_JEN`; the parts of uthash that `poll.cpp` does not
  expand (sorting, replacing, selecting, Bloom filter).
* `getMethodInfo` of `JniHelper`, which nothing calls.
* `SetUserId`, the setters of the listeners, `poll_event_delete`, `SetBlock` and
  the other helpers of `CSocketBase` nothing calls; `NetBase::Send`, which nothing
  calls either; `timeout_cb`, which counts for the log.
* Memory errors other than those above: an `int` that is torn by a data race, the
  string `m_ip` that a second `Open` assigns while the first thread reads it
  (modelled as reading the new value).
* `malloc` and thread creation failing, signals.
* Destructors: the singletons live as long as the process.

## 7. What could follow

1. Client and server on one descriptor table, in place of the anonymous other
   threads of `PollLoop`.
2. A specification of the server's receiver that may skip PDUs but never reorders
   them, implemented by `ServerReceive`.
