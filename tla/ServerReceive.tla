---------------------------- MODULE ServerReceive ----------------------------
(***************************************************************************)
(* read_cb and close_cb of the server, for one connection: reassembly of   *)
(* PDUs in the connection's entry of receiveMapBuffers, and the end of the *)
(* connection as poll_event_process sees it.                               *)
(*                                                                         *)
(* The buffer that is parsed holds the stream bytes lo .. hi-1 (val in the *)
(* code, hi - lo here); see PduStream.  The kernel and the client are the  *)
(* environment.  That two connections share the map is in PollLoop.        *)
(***************************************************************************)
EXTENDS PduStream, Sequences

CONSTANT CHUNK          \* size of subBuf, the most bytes one read_cb takes (1024 in the code)

ASSUME ChunkAssumption == CHUNK \in Nat \ {0}

VARIABLES
  arrived,      \* bytes of the stream in the kernel or already read
  peer,         \* the client's end: "open", "closed" (FIN) or "reset" (RST)
  hup,          \* EPOLLRDHUP, EPOLLERR or EPOLLHUP is among the events being processed
  entry,        \* the connection has an entry in receiveMapBuffers
  lo, hi,       \* the bytes of the stream in the buffer
  mem,          \* what the buffer holds beyond them
  last,         \* what the last read returned
  received,     \* PDUs passed to OnReceive, in order
  dropped,      \* history: some bytes were thrown away
  pc            \* where the event loop is with this connection

env == <<arrived, peer>>
buffer == <<entry, lo, hi, mem>>
vars == <<env, hup, buffer, last, received, dropped, pc>>

Init ==
  /\ arrived = 0
  /\ peer = "open"
  /\ hup = FALSE
  /\ entry = FALSE
  /\ lo = 0
  /\ hi = 0
  /\ mem = "zero"
  /\ last = 0
  /\ received = <<>>
  /\ dropped = FALSE
  /\ pc = "wait"

-----------------------------------------------------------------------------
(* The environment. *)

Arrive ==
  /\ peer = "open"
  /\ \E k \in 1 .. StreamEnd - arrived : arrived' = arrived + k
  /\ UNCHANGED <<peer, hup, buffer, last, received, dropped, pc>>

PeerEnds ==
  /\ peer = "open"
  /\ peer' \in {"closed", "reset"}
  /\ UNCHANGED <<arrived, hup, buffer, last, received, dropped, pc>>

-----------------------------------------------------------------------------
(* The event loop. *)

(* epoll_wait, level-triggered, reports the connection with EPOLLIN. *)
EpollWait ==
  /\ pc = "wait"
  /\ arrived > hi \/ peer # "open"
  /\ hup' = (peer # "open")
  /\ pc' = "read"
  /\ UNCHANGED <<env, buffer, last, received, dropped>>

(* What poll_event_process does with the connection after read_cb. *)
AfterReadCb == IF hup THEN "close" ELSE "wait"

(* Faulty variant: more than subBuf holds. *)
ReadLenUncapped == arrived - hi

(* val, the answer of read(node->fd, buf, 1024) when there is data. *)
ReadLen == IF arrived - hi < CHUNK THEN arrived - hi ELSE CHUNK

(* A read that returns data: merge it with the entry, or make the entry. *)
ReadData ==
  /\ pc = "read"
  /\ arrived > hi
  /\ last' = ReadLen
  /\ hi' = hi + last'
  /\ entry' = TRUE
  /\ mem' = IF entry THEN "junk" ELSE "zero"
  /\ pc' = "parse"
  /\ UNCHANGED <<env, hup, lo, received, dropped>>

(* read returns 0 or -1: nothing to do. *)
ReadNothing ==
  /\ pc = "read"
  /\ peer = "reset" \/ (peer = "closed" /\ arrived = hi)
  /\ last' = 0
  /\ pc' = AfterReadCb
  /\ UNCHANGED <<env, hup, buffer, received, dropped>>

(* Faulty variants: no memmove, and one PDU per call. *)
ParsePduInPlace(i) ==
  /\ pc = "parse"
  /\ Start[i] = lo
  /\ Len(received) < 2 * NPdu
  /\ OnPduParse(lo, hi, mem, Size(i))
  /\ received' = Append(received, i)
  /\ UNCHANGED <<env, hup, buffer, last, dropped, pc>>

ParsePduOnce(i) ==
  /\ pc = "parse"
  /\ Start[i] = lo
  /\ OnPduParse(lo, hi, mem, Size(i))
  /\ lo' = lo + Size(i)
  /\ mem' = "header"
  /\ received' = Append(received, i)
  /\ pc' = AfterReadCb
  /\ UNCHANGED <<env, hup, entry, hi, last, dropped>>

(* A round of the parse loop with result > 0. *)
ParsePdu(i) ==
  /\ pc = "parse"
  /\ Start[i] = lo
  /\ OnPduParse(lo, hi, mem, Size(i))
  /\ lo' = lo + Size(i)
  /\ mem' = "header"
  /\ received' = Append(received, i)
  /\ UNCHANGED <<env, hup, entry, hi, last, dropped, pc>>

(* result = 0 ends the loop; the entry keeps the bytes. *)
ParseNeedMore ==
  /\ pc = "parse"
  /\ OnPduParse(lo, hi, mem, NeedMore)
  /\ pc' = AfterReadCb
  /\ UNCHANGED <<env, hup, buffer, last, received, dropped>>

(* Faulty variant: the entry is erased on 0 too. *)
ParseRejectPartial ==
  /\ pc = "parse"
  /\ \E r \in {NeedMore, BadFormat} : OnPduParse(lo, hi, mem, r)
  /\ entry' = FALSE
  /\ lo' = hi
  /\ mem' = "zero"
  /\ dropped' = TRUE
  /\ pc' = AfterReadCb
  /\ UNCHANGED <<env, hup, hi, last, received>>

(* result < 0 erases the entry, the bytes in it are gone. *)
ParseReject ==
  /\ pc = "parse"
  /\ OnPduParse(lo, hi, mem, BadFormat)
  /\ entry' = FALSE
  /\ lo' = hi
  /\ mem' = "zero"
  /\ dropped' = TRUE
  /\ pc' = AfterReadCb
  /\ UNCHANGED <<env, hup, hi, last, received>>

(* new char[base.length] throws, in a thread that catches nothing. *)
ParseThrows ==
  /\ pc = "parse"
  /\ OnPduParse(lo, hi, mem, Crash)
  /\ pc' = "crashed"
  /\ UNCHANGED <<env, hup, buffer, last, received, dropped>>

(* close_cb, after one read_cb, whatever is still in the kernel. *)
CloseCb ==
  /\ pc = "close"
  /\ entry' = FALSE
  /\ pc' = "closed"
  /\ UNCHANGED <<env, hup, lo, hi, mem, last, received, dropped>>

ReadCb == ReadData \/ ReadNothing

Parse == ParseNeedMore \/ ParseReject \/ \E i \in Pdus : ParsePdu(i)

Next ==
  \/ Arrive
  \/ PeerEnds
  \/ EpollWait
  \/ ReadCb
  \/ Parse
  \/ ParseThrows
  \/ CloseCb

Spec == Init /\ [][Next]_vars

(***************************************************************************)
(* The loop runs: epoll_wait reports what is ready, callbacks return.      *)
(***************************************************************************)
FairSpec ==
  /\ Spec
  /\ WF_vars(EpollWait)
  /\ WF_vars(ReadCb)
  /\ WF_vars(Parse)
  /\ WF_vars(CloseCb)

-----------------------------------------------------------------------------
(* Properties. *)

TypeOK ==
  /\ arrived \in 0 .. StreamEnd
  /\ peer \in {"open", "closed", "reset"}
  /\ hup \in BOOLEAN /\ entry \in BOOLEAN /\ dropped \in BOOLEAN
  /\ lo \in Nat /\ hi \in Nat /\ last \in 0 .. CHUNK
  /\ lo <= hi /\ hi <= arrived
  /\ mem \in Memory
  /\ received \in Seq(Pdus)
  /\ pc \in {"wait", "read", "parse", "close", "closed", "crashed"}

(***************************************************************************)
(* OnReceive never sees a PDU twice or out of order, even when the parser  *)
(* has lost its place in the stream and found it again.                    *)
(***************************************************************************)
InOrder ==
  /\ \A j, k \in DOMAIN received : j < k => received[j] < received[k]
  /\ \A j \in DOMAIN received : Start[received[j] + 1] <= lo

(***************************************************************************)
(* Until the parser rejects a buffer, the PDUs received are the first ones *)
(* of the stream and the entry starts with the next one, however the bytes *)
(* are cut into reads.                                                     *)
(***************************************************************************)
ExactUntilDropped ==
  ~dropped =>
    /\ Len(received) <= NPdu
    /\ lo = Start[Len(received) + 1]
    /\ \A j \in DOMAIN received : received[j] = j

(***************************************************************************)
(* The first buffer that is thrown away is a cut start flag: fewer than    *)
(* FlagLen bytes, at the start of a PDU, on fresh memory.  A reject is     *)
(* never the fault of a complete start flag.                               *)
(***************************************************************************)
FirstDropIsCutFlag ==
  [][dropped' /\ ~dropped =>
       /\ AtPdu(lo)
       /\ hi - lo < FlagLen
       /\ mem # "header"]_vars

(***************************************************************************)
(* When the client closes its end, read_cb runs once and close_cb follows. *)
(* The PDUs that had arrived are all received if that read emptied the     *)
(* socket; only a full read, of CHUNK bytes, can leave some behind.        *)
(***************************************************************************)
ClosedAfterAll ==
  pc = "closed" /\ peer = "closed" /\ ~dropped /\ last < CHUNK =>
    Len(received) = NPdu \/ Start[Len(received) + 2] > arrived

(***************************************************************************)
(* pdu_util.h says the parser answers 0 while it does not have a full      *)
(* package: bytes of a PDU that is not complete yet are kept.              *)
(***************************************************************************)
PartialIsKept == [][dropped' => dropped]_vars

(***************************************************************************)
(* A PDU that has arrived is received, if nothing was dropped, the client  *)
(* keeps its end open and the parser did not throw.                        *)
(***************************************************************************)
Received(i) == \E j \in DOMAIN received : received[j] = i

ArrivedIsReceived ==
  \A i \in Pdus :
    (i \in PdusBefore(arrived)) ~>
      (Received(i) \/ dropped \/ peer # "open" \/ pc = "crashed")
=============================================================================
