------------------------------ MODULE PduCodec ------------------------------
(***************************************************************************)
(* PduUtil::OnPduPack and PduUtil::OnPduParse, byte by byte, on the little *)
(* endian processors that Android runs on, for each size of long it has.   *)
(*                                                                         *)
(* Two PDUs are packed back to back, and a buffer with the stream bytes    *)
(* lo .. hi-1 is parsed, over memory that holds something else.            *)
(***************************************************************************)
EXTENDS Integers, Sequences

CONSTANTS
  LongSizes,            \* sizeof(long), on the ABIs the library is built for
  Headers,              \* the header fields that the PDUs are given
  Bodies,               \* Bodies[i] is the body of PDU i, a sequence of bytes
  Junk                  \* what memory may hold that nothing of the stream has filled

Byte == 0 .. 255
MaxInt == 2147483647
Int32 == {v \in Int : -MaxInt - 1 <= v /\ v <= MaxInt}

High(v) == (v \div 65536) \div 65536     \* the upper half of 64 bits
Int64 == {v \in Int : High(v) \in Int32}

(***************************************************************************)
(* A body is at least 16 MB short of 2 GB.  An int then holds totalLen,    *)
(* also with a length that is read half from one header and half from      *)
(* another.                                                                *)
(***************************************************************************)
MaxBody == 127 * 256 ^ 3

ASSUME CodecAssumption ==
  /\ LongSizes \subseteq {4, 8}
  /\ \A h \in Headers : /\ h.pdu_type \in Byte /\ h.offset \in Int32
                        /\ h.size \in Int32 /\ h.flags \in Int32 /\ h.reserved \in Int32
                        /\ h.presentationTimeUs \in Int64
  /\ DOMAIN Bodies = 1 .. 2
  /\ \A i \in 1 .. 2 : Bodies[i] \in Seq(Byte) /\ Len(Bodies[i]) < MaxBody
  /\ Junk \subseteq [1 .. 33 -> Byte]

VARIABLES
  LongSize,     \* sizeof(long)
  header,       \* the header fields of the PDUs of the stream
  lo, hi,       \* the stream bytes in the buffer
  mem,          \* the kind of memory behind them, as in PduStream
  old,          \* what is there
  answer,       \* what OnPduParse returned, and the PDU it filled in
  pc

vars == <<LongSize, header, lo, hi, mem, old, answer, pc>>

-----------------------------------------------------------------------------
(* Integers as bytes, the one at the lowest address first. *)

Shifted(v, bytes) == IF bytes < 4 THEN v \div 256 ^ bytes ELSE High(v) \div 256 ^ (bytes - 4)

(* htonl or htonq: v stored in n bytes. *)
BigEndian(v, n) == [k \in 1 .. n |-> Shifted(v, n - k) % 256]

(* An int stored as it is. *)
LittleEndian(v) == [k \in 1 .. 4 |-> (v \div 256 ^ (k - 1)) % 256]

(* ntohl of the four bytes at 1-based position p: a signed int. *)
IntAt(b, p) ==
  (IF b[p] > 127 THEN b[p] - 256 ELSE b[p]) * 256 ^ 3 + b[p + 1] * 256 ^ 2 + b[p + 2] * 256 + b[p + 3]

(* The 64 bits with these halves; most values fit the lower one. *)
Join(high, low) ==
  IF high = (IF low < 0 THEN -1 ELSE 0) THEN low
  ELSE (high * 65536) * 65536 + (IF low < 0 THEN low + 65536 * 65536 ELSE low)

(***************************************************************************)
(* ntohq of the long at position p.  A long of 4 bytes is sign-extended,   *)
(* its 8 bytes are swapped, and the half that is kept is the sign.         *)
(***************************************************************************)
LongAt(b, p) ==
  IF LongSize = 8 THEN Join(IntAt(b, p), IntAt(b, p + 4))
  ELSE IF b[p + 3] > 127 THEN -1 ELSE 0

-----------------------------------------------------------------------------
(* The codec. *)

start_flag == 305419896         \* 0x12345678

HeaderSize == 25 + LongSize

Unset == 256                    \* a char the constructor of PDUBase did not set

(* PDUBase::PDUBase() *)
PDUBase == [pdu_type |-> Unset, offset |-> 0, size |-> 0, presentationTimeUs |-> 0,
            flags |-> 0, reserved |-> 0, length |-> 0, body |-> <<>>]

(* Faulty variant: the length without htonl. *)
OnPduPackHostLength(base) ==
  BigEndian(start_flag, 4) \o <<base.pdu_type>> \o LittleEndian(5) \o BigEndian(base.size, 4)
    \o SubSeq(BigEndian(base.presentationTimeUs, 8), 1, LongSize)
    \o BigEndian(base.flags, 4) \o BigEndian(base.reserved, 4) \o LittleEndian(base.length)
    \o base.body

(* The local variable offset, 5 at that point, is written for the field. *)
OnPduPack(base) ==
  BigEndian(start_flag, 4) \o <<base.pdu_type>> \o LittleEndian(5) \o BigEndian(base.size, 4)
    \o SubSeq(BigEndian(base.presentationTimeUs, 8), 1, LongSize)
    \o BigEndian(base.flags, 4) \o BigEndian(base.reserved, 4) \o BigEndian(base.length, 4)
    \o base.body

Answer(result, base) == [result |-> result, base |-> base]

(* Faulty variant: ">=" for ">". *)
OnPduParseOneMore(b, length, base) ==
  IF length <= 0 THEN Answer(0, base)
  ELSE IF IntAt(b, 1) # start_flag THEN Answer(-1, base)
  ELSE LET len == IntAt(b, HeaderSize - 3) IN
       IF len >= length - HeaderSize THEN Answer(0, base)
       ELSE IF len < 0 THEN Answer(-2, base)
       ELSE Answer(HeaderSize + len, base)

(***************************************************************************)
(* The header is read whatever length is; pdu_type goes to base.offset,    *)
(* which the offset then replaces; new char[] throws on a negative length  *)
(* (result -2).  The fields are set when the result is 0, too, but nobody  *)
(* looks at them then.  Where pointers have 32 bits, the sum with a length *)
(* of 2 GB is negative, and new char[] finds no memory.                    *)
(***************************************************************************)
OnPduParse(b, length, base) ==
  IF length <= 0 THEN Answer(0, base)
  ELSE IF IntAt(b, 1) # start_flag THEN Answer(-1, base)
  ELSE LET len == IntAt(b, HeaderSize - 3) IN
       IF LongSize = 4 /\ len > MaxInt - HeaderSize THEN Answer(-2, base)
       ELSE IF len > length - HeaderSize THEN Answer(0, base)
       ELSE IF len < 0 THEN Answer(-2, base)
       ELSE Answer(HeaderSize + len,
                   [base EXCEPT !.offset = IntAt(b, 6),
                                !.size = IntAt(b, 10),
                                !.presentationTimeUs = LongAt(b, 14),
                                !.flags = IntAt(b, 14 + LongSize),
                                !.reserved = IntAt(b, 18 + LongSize),
                                !.length = len,
                                !.body = SubSeq(b, HeaderSize + 1, HeaderSize + len)])

-----------------------------------------------------------------------------
(* A stream of PDUs, and a buffer over it. *)

Pdu(i) ==
  [pdu_type |-> header.pdu_type, offset |-> header.offset, size |-> header.size,
   presentationTimeUs |-> header.presentationTimeUs, flags |-> header.flags,
   reserved |-> header.reserved, length |-> Len(Bodies[i]), body |-> Bodies[i]]

Stream == OnPduPack(Pdu(1)) \o OnPduPack(Pdu(2))

Start == <<0, HeaderSize + Len(Bodies[1]), 2 * HeaderSize + Len(Bodies[1]) + Len(Bodies[2])>>

Buffer == [k \in 1 .. HeaderSize + hi - lo |->
             IF k <= hi - lo THEN Stream[lo + k]
             ELSE IF k <= HeaderSize THEN old[k] ELSE 0]

(* Zeros, the header of PDU 1, or anything. *)
Memory ==
  \/ mem = "zero" /\ old = [k \in 1 .. 33 |-> 0]
  \/ mem = "header" /\ old = [k \in 1 .. 33 |-> IF k <= HeaderSize THEN Stream[k] ELSE 0]
  \/ mem = "junk" /\ old \in Junk

Init ==
  /\ LongSize \in LongSizes
  /\ header \in Headers
  /\ LongSize = 4 => header.presentationTimeUs \in Int32
  /\ lo \in 0 .. Start[3]
  /\ hi \in lo .. Start[3]
  /\ Memory
  /\ answer = Answer(0, PDUBase)
  /\ pc = "parse"

Parse ==
  /\ pc = "parse"
  /\ answer' = OnPduParse(Buffer, hi - lo, PDUBase)
  /\ pc' = "done"
  /\ UNCHANGED <<LongSize, header, lo, hi, mem, old>>

Next == Parse

Spec == Init /\ [][Next]_vars

-----------------------------------------------------------------------------
(* Properties. *)

Model == INSTANCE PduStream WITH FlagLen <- 4, HeaderLen <- HeaderSize, NPdu <- 2, Start <- Start

(* Out of step, and what there is looks like the beginning of a start flag. *)
FalseFlag ==
  /\ lo < hi /\ ~Model!AtPdu(lo)
  /\ \A k \in 1 .. 4 : lo + k <= hi => Stream[lo + k] = BigEndian(start_flag, 4)[k]

(***************************************************************************)
(* The abstract parser that ClientReceive and ServerReceive are built on   *)
(* allows what the byte-level parser does, for every interval of a stream  *)
(* and every memory behind it, unless the payload fakes a start flag.      *)
(***************************************************************************)
StreamModelIsRight ==
  pc = "done" /\ ~FalseFlag => Model!OnPduParse(lo, hi, mem, answer.result)

(* PDU i as OnPduParse returns it: three of its fields are not those of Pdu(i). *)
Received(i) ==
  [Pdu(i) EXCEPT !.pdu_type = Unset,
                 !.offset = 5 * 256 ^ 3,
                 !.presentationTimeUs = IF LongSize = 8 THEN @ ELSE IF @ < 0 THEN -1 ELSE 0]

(***************************************************************************)
(* What comes back of a PDU that is complete in the buffer: the parser     *)
(* takes exactly its bytes, and the size, the flags, the reserved word,    *)
(* the length and the body are those it was packed with.  The time stamp   *)
(* is, too, where a long has 8 bytes; where it has 4, only the sign is     *)
(* left of it (pdu_util.cpp:60 and 110).  The offset is always 0x05000000, *)
(* a local variable that was not converted (line 135), and the type is not *)
(* set at all (line 48 stores it in the offset).                           *)
(***************************************************************************)
PayloadRoundTrips ==
  \A i \in 1 .. 2 :
    pc = "done" /\ lo = Start[i] /\ hi >= Start[i + 1] =>
      answer = Answer(Start[i + 1] - Start[i], Received(i))
=============================================================================
