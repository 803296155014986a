------------------------------ MODULE PduStream ------------------------------
(***************************************************************************)
(* A TCP byte stream that carries PDUs back to back, as the packers of     *)
(* this repository write it, and what PduUtil::OnPduParse answers about a  *)
(* receive buffer that holds an interval of it.                            *)
(*                                                                         *)
(* Bytes are positions of the stream: PDU i occupies the positions         *)
(* Start[i] .. Start[i+1]-1, and a buffer is an interval lo .. hi-1.  The  *)
(* values in the bytes matter only through the start flag: the model       *)
(* assumes that what an interval that begins inside a PDU holds does not   *)
(* look like the beginning of a flag (a flag that the end of the buffer    *)
(* cuts off could be completed by an old header behind it), so that an     *)
(* interval begins with the flag exactly when lo is the start of a PDU.    *)
(* Module PduCodec has the byte-level parser, a run that compares the two, *)
(* and PduCodec_proofs proves that they agree.                             *)
(***************************************************************************)
EXTENDS Integers

CONSTANTS
  FlagLen,      \* bytes of the start flag (4 in the code)
  HeaderLen,    \* bytes before the body, flag included (33, or 29 where long is 32 bits)
  NPdu,         \* number of PDUs the peer sends on the connection
  Start         \* Start[i] is the position of PDU i, Start[NPdu + 1] the end of the stream

Pdus == 1 .. NPdu

ASSUME StreamAssumption ==
  /\ FlagLen \in Nat \ {0}
  /\ HeaderLen \in Nat
  /\ FlagLen <= HeaderLen
  /\ NPdu \in Nat
  /\ Start \in [1 .. NPdu + 1 -> Nat]
  /\ Start[1] = 0
  /\ \A i, j \in 1 .. NPdu + 1 : i < j => Start[i] + HeaderLen <= Start[j]

Size(i) == Start[i + 1] - Start[i]      \* what OnPduPack returns for PDU i

StreamEnd == Start[NPdu + 1]

AtPdu(pos) == \E i \in Pdus : Start[i] = pos

(***************************************************************************)
(* OnPduParse reads the whole header before it looks at the length of the  *)
(* buffer, so with fewer than HeaderLen bytes it reads memory that no read *)
(* has filled.  What is there: zeros (a zero-initialised stack buffer),    *)
(* the header of the PDU parsed before (left by memmove), or anything.     *)
(***************************************************************************)
Memory == {"zero", "header", "junk"}

BadFormat == -1         \* return -1: the start flag is not there
NeedMore == 0           \* return 0: not a full package
Crash == -2             \* no return: new char[base.length] throws on a negative length

FlagMatches(lo, hi, mem) ==
  /\ AtPdu(lo)
  /\ hi - lo >= FlagLen \/ mem # "zero"

FlagDiffers(lo, hi, mem) ==
  \/ ~AtPdu(lo)
  \/ hi - lo < FlagLen /\ mem # "header"

(***************************************************************************)
(* r is a possible answer of OnPduParse(buffer, hi - lo, base).  When the  *)
(* header is cut, zeros and an old header both give a length that is not   *)
(* negative, hence more bytes than there are; junk gives any length.       *)
(***************************************************************************)
OnPduParse(lo, hi, mem, r) ==
  \/ /\ hi <= lo
     /\ r = NeedMore
  \/ /\ hi > lo
     /\ FlagDiffers(lo, hi, mem)
     /\ r = BadFormat
  \/ /\ hi > lo
     /\ FlagMatches(lo, hi, mem)
     /\ hi - lo < HeaderLen
     /\ r = NeedMore \/ (r = Crash /\ mem = "junk")
  \/ /\ hi - lo >= HeaderLen
     /\ FlagMatches(lo, hi, mem)
     /\ \E i \in Pdus : /\ Start[i] = lo
                        /\ r = IF Size(i) > hi - lo THEN NeedMore ELSE Size(i)

(* The PDUs whose last byte is before position pos. *)
PdusBefore(pos) == {i \in Pdus : Start[i + 1] <= pos}
=============================================================================
