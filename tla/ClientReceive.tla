---------------------------- MODULE ClientReceive ----------------------------
(***************************************************************************)
(* TcpClient::receiveThread: reassembly of PDUs from the byte stream of    *)
(* one connection, in the buffer total_buffer of BUFF_MAX bytes.           *)
(*                                                                         *)
(* The buffer holds the stream bytes lo .. hi-1 (total_length = hi - lo);  *)
(* see PduStream.  The kernel and the server are the environment: bytes    *)
(* arrive in pieces of any size, and the connection may end anywhere.      *)
(***************************************************************************)
EXTENDS PduStream, Sequences

CONSTANTS
  BUFF_MAX,     \* size of total_buffer (512 KB in the code)
  BUFF_LENGTH   \* most bytes one read returns (5 KB in the code)

ASSUME BufferAssumption ==
  /\ BUFF_LENGTH \in Nat \ {0}
  /\ BUFF_MAX \in Nat
  /\ HeaderLen + BUFF_LENGTH <= BUFF_MAX

VARIABLES
  arrived,      \* bytes of the stream in the kernel or already read
  fin,          \* the server has closed its end
  lo, hi,       \* the bytes of the stream in total_buffer
  mem,          \* what total_buffer holds beyond total_length
  received,     \* PDUs passed to m_receive, in order
  pc            \* where the thread is

env == <<arrived, fin>>
buffer == <<lo, hi, mem>>
vars == <<arrived, fin, lo, hi, mem, received, pc>>

Init ==
  /\ arrived = 0
  /\ fin = FALSE
  /\ lo = 0
  /\ hi = 0
  /\ mem = "junk"               \* new char[BUFF_MAX] is not initialised
  /\ received = <<>>
  /\ pc = "read"

total_length == hi - lo

-----------------------------------------------------------------------------
(* The environment. *)

Arrive ==
  /\ ~fin
  /\ \E k \in 1 .. StreamEnd - arrived : arrived' = arrived + k
  /\ UNCHANGED <<fin, buffer, received, pc>>

PeerClose ==
  /\ ~fin
  /\ fin' = TRUE
  /\ UNCHANGED <<arrived, buffer, received, pc>>

-----------------------------------------------------------------------------
(* The thread. *)

(* Faulty variant: a full buffer is assumed. *)
ReadLenFull == BUFF_LENGTH

(* len, the answer of read(socketFd, buf, BUFF_LENGTH). *)
ReadLen == IF arrived - hi < BUFF_LENGTH THEN arrived - hi ELSE BUFF_LENGTH

Overflows(len) == total_length + len > BUFF_MAX

(* A read that fits: memcpy behind the bytes already there. *)
Read ==
  /\ pc = "read"
  /\ ReadLen > 0
  /\ ~Overflows(ReadLen)
  /\ hi' = hi + ReadLen
  /\ pc' = "parse"
  /\ UNCHANGED <<env, lo, mem, received>>

(* A read that does not fit: what was buffered and what was read are gone. *)
DropAll ==
  /\ pc = "read"
  /\ ReadLen > 0
  /\ Overflows(ReadLen)
  /\ lo' = hi + ReadLen
  /\ hi' = hi + ReadLen
  /\ mem' = IF AtPdu(lo) THEN "header" ELSE "junk"
  /\ UNCHANGED <<env, received, pc>>

(* read returned 0, the server has closed: Close(), the buffers are freed. *)
ReadEof ==
  /\ pc = "read"
  /\ fin
  /\ hi = arrived
  /\ pc' = "closed"
  /\ UNCHANGED <<env, buffer, received>>

(* read returned -1, the connection is broken: the same, at any time. *)
ReadError ==
  /\ pc = "read"
  /\ pc' = "closed"
  /\ UNCHANGED <<env, buffer, received>>

(* Faulty variants: no memmove, and no loop. *)
ParsePduInPlace(i) ==
  /\ pc = "parse"
  /\ OnPduParse(lo, hi, mem, Size(i))
  /\ Start[i] = lo
  /\ Len(received) < 2 * NPdu
  /\ received' = Append(received, i)
  /\ UNCHANGED <<env, buffer, pc>>

ParsePduOnce(i) ==
  /\ pc = "parse"
  /\ Start[i] = lo
  /\ OnPduParse(lo, hi, mem, Size(i))
  /\ lo' = lo + Size(i)
  /\ mem' = "header"
  /\ received' = Append(received, i)
  /\ pc' = "read"
  /\ UNCHANGED <<env, hi>>

(* One round of the parse loop with a full PDU at the front. *)
ParsePdu(i) ==
  /\ pc = "parse"
  /\ Start[i] = lo
  /\ OnPduParse(lo, hi, mem, Size(i))
  /\ lo' = lo + Size(i)
  /\ mem' = "header"
  /\ received' = Append(received, i)
  /\ UNCHANGED <<env, hi, pc>>

(* Faulty variant: throw the buffer away on -1, as the server does. *)
ParseEndsResetting ==
  /\ pc = "parse"
  /\ \E r \in {NeedMore, BadFormat} :
       /\ OnPduParse(lo, hi, mem, r)
       /\ lo' = IF r = BadFormat THEN hi ELSE lo
  /\ pc' = "read"
  /\ UNCHANGED <<env, hi, mem, received>>

(* The parse loop ends on 0 and on -1 alike, and leaves the buffer alone. *)
ParseEnds ==
  /\ pc = "parse"
  /\ \E r \in {NeedMore, BadFormat} : OnPduParse(lo, hi, mem, r)
  /\ pc' = "read"
  /\ UNCHANGED <<env, buffer, received>>

ParseThrows ==
  /\ pc = "parse"
  /\ OnPduParse(lo, hi, mem, Crash)
  /\ pc' = "crashed"
  /\ UNCHANGED <<env, buffer, received>>

Parse == ParseEnds \/ \E i \in Pdus : ParsePdu(i)

Next ==
  \/ Arrive
  \/ PeerClose
  \/ Read
  \/ DropAll
  \/ ReadEof
  \/ ReadError
  \/ Parse
  \/ ParseThrows

Spec == Init /\ [][Next]_vars

(***************************************************************************)
(* The thread runs: read returns when there are bytes or the end of the    *)
(* stream, and the parse loop goes on.  Nothing is assumed of the server.  *)
(***************************************************************************)
FairSpec ==
  /\ Spec
  /\ WF_vars(Read \/ DropAll \/ ReadEof)
  /\ WF_vars(Parse)

-----------------------------------------------------------------------------
(* Properties. *)

TypeOK ==
  /\ arrived \in 0 .. StreamEnd
  /\ fin \in BOOLEAN
  /\ lo \in Nat /\ hi \in Nat
  /\ lo <= hi /\ hi <= arrived
  /\ mem \in Memory
  /\ received \in Seq(Pdus)
  /\ pc \in {"read", "parse", "closed", "crashed"}

(***************************************************************************)
(* Whatever is lost, m_receive never sees a PDU twice, or out of order, or *)
(* one whose bytes have not all been taken out of the buffer.              *)
(***************************************************************************)
InOrder ==
  /\ \A j, k \in DOMAIN received : j < k => received[j] < received[k]
  /\ \A j \in DOMAIN received : Start[received[j] + 1] <= lo

(***************************************************************************)
(* The size below which the 512 KB buffer is large enough: a PDU, plus one *)
(* full read, minus the byte that would complete the PDU.                  *)
(***************************************************************************)
FitsBuffer == \A i \in Pdus : Size(i) + BUFF_LENGTH <= BUFF_MAX + 1

(***************************************************************************)
(* For PDUs that fit, the "total_length + len > BUFF_MAX" branch of        *)
(* receiveThread, which throws received bytes away, is never taken: what   *)
(* the parse loop leaves behind always has room for one more read.         *)
(***************************************************************************)
NextReadFits == pc = "read" => total_length + BUFF_LENGTH <= BUFF_MAX

(***************************************************************************)
(* After an overflow the buffer may start in the middle of a PDU.  Then    *)
(* the parser answers -1 to everything and the loop throws nothing away:   *)
(* the client hears no PDU, however many arrive, until the 512 KB are full *)
(* and dropped again.                                                      *)
(***************************************************************************)
ResyncOnlyByOverflow ==
  [][lo # lo' /\ ~AtPdu(lo) => total_length + BUFF_LENGTH > BUFF_MAX]_vars

(***************************************************************************)
(* For PDUs that fit, nothing is lost or invented: the PDUs received are   *)
(* the first ones of the stream, and the buffer starts with the next one.  *)
(* In particular the answer -1 that a cut start flag can get does no harm  *)
(* to the client.                                                          *)
(***************************************************************************)
ExactDelivery ==
  /\ Len(received) <= NPdu
  /\ lo = Start[Len(received) + 1]
  /\ \A j \in DOMAIN received : received[j] = j

(***************************************************************************)
(* For PDUs that fit, receiveThread implements in-order delivery.          *)
(***************************************************************************)
Abstract == INSTANCE InOrderDelivery
              WITH complete <- PdusBefore(arrived), delivered <- received

ImplementsInOrderDelivery == Abstract!Spec

(***************************************************************************)
(* For PDUs that fit, a PDU that has arrived reaches m_receive, unless the *)
(* connection ends or the parser throws on bytes it should not have read.  *)
(***************************************************************************)
Received(i) == \E j \in DOMAIN received : received[j] = i

ArrivedIsReceived ==
  \A i \in Pdus :
    (i \in PdusBefore(arrived)) ~> (Received(i) \/ pc \in {"closed", "crashed"})
=============================================================================
