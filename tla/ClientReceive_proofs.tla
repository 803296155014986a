------------------------ MODULE ClientReceive_proofs ------------------------
(***************************************************************************)
(* Proofs about ClientReceive, for every stream and every buffer size.     *)
(*                                                                         *)
(* Three inductive invariants.  TypeOK and, on top of it, InOrder hold for *)
(* every stream.  When every PDU fits the buffer, FitInv also holds: it    *)
(* adds to ExactDelivery that, between two reads, the buffer holds a       *)
(* proper prefix of the next PDU.  ResyncOnlyByOverflow is about a single  *)
(* step and needs no more than TypeOK.                                     *)
(***************************************************************************)
EXTENDS ClientReceive, TLAPS

USE DEF Pdus, total_length, NeedMore, BadFormat, Crash

-----------------------------------------------------------------------------
(* Facts about the stream of PDUs and the answers of OnPduParse, for every stream. *)

(* PDUs have at least a header, so sizes are positive integers. *)
LEMMA SizePositive ==
  ASSUME NEW i \in Pdus
  PROVE  /\ Size(i) \in Nat
         /\ Size(i) >= HeaderLen
         /\ Size(i) > 0
         /\ Start[i] \in Nat /\ Start[i + 1] \in Nat
         /\ Start[i + 1] = Start[i] + Size(i)
         /\ Start[i + 1] <= StreamEnd
<1>1. i \in 1 .. NPdu + 1 /\ i + 1 \in 1 .. NPdu + 1 /\ NPdu + 1 \in 1 .. NPdu + 1
  BY StreamAssumption
<1>2. Start[i] + HeaderLen <= Start[i + 1]
  BY <1>1, StreamAssumption
<1>3. i + 1 < NPdu + 1 => Start[i + 1] + HeaderLen <= Start[NPdu + 1]
  BY <1>1, StreamAssumption
<1>4. QED
  BY <1>1, <1>2, <1>3, StreamAssumption DEF Size, StreamEnd

LEMMA ElementOfSeq ==
  ASSUME NEW S, NEW s \in Seq(S), NEW j \in DOMAIN s
  PROVE  s[j] \in S
  OBVIOUS

(* Two PDUs do not start at the same position. *)
LEMMA StartInjective ==
  ASSUME NEW i \in 1 .. NPdu + 1, NEW j \in 1 .. NPdu + 1, Start[i] = Start[j]
  PROVE  i = j
  BY StreamAssumption

LEMMA StreamEndType == StreamEnd \in Nat
  BY StreamAssumption DEF StreamEnd

(* A PDU that ends at or before the start of another has a smaller index. *)
LEMMA EndsBefore ==
  ASSUME NEW i \in Pdus, NEW j \in Pdus, Start[i + 1] <= Start[j]
  PROVE  i < j
<1>1. i \in 1 .. NPdu + 1 /\ j \in 1 .. NPdu + 1 /\ i + 1 \in 1 .. NPdu + 1
  BY StreamAssumption
<1>2. HeaderLen > 0 /\ HeaderLen \in Nat
  BY StreamAssumption
<1>3. Start[i] + HeaderLen <= Start[i + 1]
  BY <1>1, StreamAssumption
<1>4. Start[i] \in Nat /\ Start[j] \in Nat /\ Start[i + 1] \in Nat
  BY <1>1, StreamAssumption
<1>5. i # j
  BY <1>2, <1>3, <1>4
<1>6. ~(j < i)
  <2>1. j < i => Start[j] + HeaderLen <= Start[i]
    BY <1>1, StreamAssumption
  <2>2. QED
    BY <2>1, <1>2, <1>3, <1>4
<1>7. QED
  BY <1>5, <1>6, StreamAssumption

(* A PDU is taken out of a buffer only when all of it is there. *)
LEMMA ParsedIsBuffered ==
  ASSUME NEW p \in Nat, NEW q \in Nat, NEW kind,
         NEW i \in Pdus, Start[i] = p, OnPduParse(p, q, kind, Size(i))
  PROVE  p + Size(i) <= q
<1>1. Size(i) \in Nat /\ Size(i) > 0
  BY SizePositive
<1>2. PICK j \in Pdus : /\ Start[j] = p
                        /\ Size(i) = IF Size(j) > q - p THEN 0 ELSE Size(j)
  BY <1>1 DEF OnPduParse
<1>3. Size(j) \in Nat
  BY SizePositive
<1>4. QED
  BY <1>1, <1>2, <1>3

(* The parser answers 0 at the start of PDU n only when n is incomplete. *)
LEMMA NeedMoreIsPrefix ==
  ASSUME NEW p \in Nat, NEW q \in Nat, NEW kind,
         NEW n \in Pdus, Start[n] = p, OnPduParse(p, q, kind, NeedMore)
  PROVE  q - p < Size(n)
<1>1. Size(n) \in Nat /\ Size(n) >= HeaderLen /\ Size(n) > 0 /\ HeaderLen \in Nat
  BY SizePositive, StreamAssumption
<1>2. CASE q <= p \/ q - p < HeaderLen
  BY <1>1, <1>2
<1>3. ASSUME NEW i \in Pdus, Start[i] = p,
             NeedMore = IF Size(i) > q - p THEN NeedMore ELSE Size(i)
      PROVE  q - p < Size(n)
  <2>1. i = n
    BY <1>3, StartInjective, StreamAssumption
  <2>2. QED
    BY <1>1, <1>3, <2>1
<1>4. QED
  BY <1>2, <1>3 DEF OnPduParse

(* It answers -1 at the start of a PDU only when the start flag is cut. *)
LEMMA RejectIsCutFlag ==
  ASSUME NEW p \in Nat, NEW q \in Nat, NEW kind,
         AtPdu(p), OnPduParse(p, q, kind, BadFormat)
  PROVE  q - p < FlagLen /\ kind # "header" /\ p < q
<1>1. \A i \in Pdus : Size(i) # -1
  BY SizePositive
<1>2. QED
  BY <1>1 DEF OnPduParse, FlagDiffers

-----------------------------------------------------------------------------

(* A read returns a positive number of bytes, at most BUFF_LENGTH of them. *)
LEMMA ReadLenBounds ==
  ASSUME TypeOK, ReadLen > 0
  PROVE  /\ ReadLen \in Nat
         /\ ReadLen <= BUFF_LENGTH
         /\ hi + ReadLen <= arrived
  BY StreamEndType, BufferAssumption DEF ReadLen, TypeOK

-----------------------------------------------------------------------------
(* Type correctness, for every stream. *)
LEMMA TypeStep == TypeOK /\ [Next]_vars => TypeOK'
<1> SUFFICES ASSUME TypeOK, [Next]_vars PROVE TypeOK'
  OBVIOUS
<1> USE DEF TypeOK, env, buffer, Memory
<1>1. CASE Arrive
  BY <1>1, StreamEndType DEF Arrive
<1>2. CASE PeerClose
  BY <1>2 DEF PeerClose
<1>3. CASE Read
  BY <1>3, ReadLenBounds DEF Read
<1>4. CASE DropAll
  BY <1>4, ReadLenBounds DEF DropAll
<1>5. CASE ReadEof \/ ReadError
  BY <1>5 DEF ReadEof, ReadError
<1>6. CASE ParseEnds
  BY <1>6 DEF ParseEnds
<1>7. ASSUME NEW i \in Pdus, ParsePdu(i) PROVE TypeOK'
  <2>1. lo + Size(i) <= hi
    BY <1>7, ParsedIsBuffered DEF ParsePdu, TypeOK
  <2>2. Size(i) \in Nat
    BY SizePositive
  <2>3. QED
    BY <1>7, <2>1, <2>2 DEF ParsePdu
<1>8. CASE ParseThrows
  BY <1>8 DEF ParseThrows
<1>9. CASE UNCHANGED vars
  BY <1>9 DEF vars
<1>10. QED
  BY <1>1, <1>2, <1>3, <1>4, <1>5, <1>6, <1>7, <1>8, <1>9 DEF Next, Parse

LEMMA TypeInit == Init => TypeOK
<1> SUFFICES ASSUME Init PROVE TypeOK
  OBVIOUS
<1>1. received \in Seq(Pdus)
  BY DEF Init
<1>2. arrived \in 0 .. StreamEnd /\ lo \in Nat /\ hi \in Nat /\ lo <= hi /\ hi <= arrived
  BY StreamEndType DEF Init
<1>3. fin \in BOOLEAN /\ mem \in Memory /\ pc \in {"read", "parse", "closed", "crashed"}
  BY DEF Init, Memory
<1>4. QED
  BY <1>1, <1>2, <1>3 DEF TypeOK

(* The variables of receiveThread keep their types. *)
THEOREM TypeCorrect == Spec => []TypeOK
  BY TypeInit, TypeStep, PTL DEF Spec

-----------------------------------------------------------------------------
(* Order, for every stream, whether or not its PDUs fit the buffer. *)

OrderInv == TypeOK /\ InOrder

LEMMA OrderStep == OrderInv /\ [Next]_vars => OrderInv'
<1> SUFFICES ASSUME OrderInv, [Next]_vars PROVE InOrder'
  BY TypeStep DEF OrderInv
<1> USE DEF OrderInv
<1>1. CASE UNCHANGED received /\ lo' \in Nat /\ lo' >= lo
  <2>1. \A j \in DOMAIN received : received[j] \in Pdus
    <3>1. received \in Seq(Pdus)
      BY DEF TypeOK
    <3>2. QED
      BY <3>1, ElementOfSeq
  <2>2. \A j \in DOMAIN received : Start[received[j] + 1] \in Nat
    BY <2>1, SizePositive
  <2>3. QED
    BY <1>1, <2>2 DEF InOrder, TypeOK
<1>2. ASSUME NEW i \in Pdus, ParsePdu(i) PROVE InOrder'
  <2>1. received \in Seq(Pdus) /\ received' = Append(received, i)
    BY <1>2 DEF ParsePdu, TypeOK
  <2>2. Start[i] = lo /\ lo' = lo + Size(i) /\ Size(i) \in Nat /\ lo' = Start[i + 1]
    BY <1>2, SizePositive DEF ParsePdu
  <2>3. \A j \in DOMAIN received :
          /\ received[j] \in Pdus
          /\ Start[received[j] + 1] \in Nat
          /\ Start[received[j] + 1] <= Start[i]
    <3> SUFFICES ASSUME NEW j \in DOMAIN received
                 PROVE  /\ received[j] \in Pdus
                        /\ Start[received[j] + 1] \in Nat
                        /\ Start[received[j] + 1] <= Start[i]
      OBVIOUS
    <3>1. received[j] \in Pdus
      BY <2>1, ElementOfSeq
    <3>2. Start[received[j] + 1] \in Nat
      BY <3>1, SizePositive
    <3>3. QED
      BY <2>2, <3>1, <3>2 DEF InOrder
  <2>4. \A j \in DOMAIN received : received[j] < i
    BY <2>3, EndsBefore
  <2>5. /\ DOMAIN received' = 1 .. Len(received) + 1
        /\ \A j \in DOMAIN received : received'[j] = received[j]
        /\ received'[Len(received) + 1] = i
        /\ DOMAIN received = 1 .. Len(received) /\ Len(received) \in Nat
    BY <2>1
  <2>6. \A j \in DOMAIN received' : Start[received'[j] + 1] <= lo'
    <3> SUFFICES ASSUME NEW j \in DOMAIN received' PROVE Start[received'[j] + 1] <= lo'
      OBVIOUS
    <3>1. CASE j = Len(received) + 1
      BY <3>1, <2>2, <2>5, SizePositive
    <3>2. CASE j \in DOMAIN received
      BY <3>2, <2>2, <2>3, <2>5, SizePositive
    <3>3. QED
      BY <3>1, <3>2, <2>5
  <2>7. \A j, k \in DOMAIN received' : j < k => received'[j] < received'[k]
    <3> SUFFICES ASSUME NEW j \in DOMAIN received', NEW k \in DOMAIN received', j < k
                 PROVE  received'[j] < received'[k]
      OBVIOUS
    <3>1. j \in DOMAIN received
      BY <2>5
    <3>2. CASE k = Len(received) + 1
      BY <3>1, <3>2, <2>4, <2>5
    <3>3. CASE k \in DOMAIN received
      BY <3>1, <3>3, <2>5 DEF InOrder
    <3>4. QED
      BY <3>2, <3>3, <2>5
  <2>8. QED
    BY <2>6, <2>7 DEF InOrder
<1>3. CASE DropAll
  BY <1>1, <1>3, ReadLenBounds DEF DropAll, TypeOK
<1>4. CASE Arrive \/ PeerClose \/ Read \/ ReadEof \/ ReadError \/ ParseEnds \/ ParseThrows
  BY <1>1, <1>4
     DEF Arrive, PeerClose, Read, ReadEof, ReadError, ParseEnds, ParseThrows, buffer, TypeOK
<1>5. CASE UNCHANGED vars
  BY <1>1, <1>5 DEF vars, TypeOK
<1>6. QED
  BY <1>2, <1>3, <1>4, <1>5 DEF Next, Parse

(***************************************************************************)
(* m_receive sees each PDU at most once and in the order of the stream,    *)
(* for every stream, buffer size and way the bytes are cut into reads.     *)
(***************************************************************************)
THEOREM ReceivedInOrder == Spec => []InOrder
<1>1. Init => OrderInv
  BY TypeInit DEF Init, OrderInv, InOrder
<1>2. OrderInv => InOrder
  BY DEF OrderInv
<1>3. QED
  BY <1>1, <1>2, OrderStep, PTL DEF Spec

-----------------------------------------------------------------------------
(* How the buffer's front moves, for every stream. *)

LEMMA FrontMoves == TypeOK /\ [Next]_vars =>
  (lo # lo' /\ ~AtPdu(lo) => total_length + BUFF_LENGTH > BUFF_MAX)
<1> SUFFICES ASSUME TypeOK, [Next]_vars, lo # lo', ~AtPdu(lo)
             PROVE  total_length + BUFF_LENGTH > BUFF_MAX
  OBVIOUS
<1>1. CASE DropAll
  BY <1>1, ReadLenBounds, BufferAssumption DEF DropAll, Overflows, TypeOK
<1>2. ASSUME NEW i \in Pdus, ParsePdu(i) PROVE FALSE
  BY <1>2 DEF ParsePdu, AtPdu
<1>3. QED
  BY <1>1, <1>2 DEF Next, Parse, Arrive, PeerClose, Read, ReadEof, ReadError, ParseEnds,
     ParseThrows, buffer, vars

(***************************************************************************)
(* A front that is not at a PDU moves by an overflow only: what the parser *)
(* rejects stays in front of all that arrives later until the buffer is    *)
(* full, for every stream, buffer size and way the bytes are read.         *)
(***************************************************************************)
THEOREM RejectedBytesStay == Spec => ResyncOnlyByOverflow
  BY TypeInit, TypeStep, FrontMoves, PTL DEF Spec, ResyncOnlyByOverflow

-----------------------------------------------------------------------------
(* Exact delivery, when every PDU fits the buffer. *)

(* Between two reads the buffer holds a proper prefix of the next PDU. *)
HoldsProperPrefix ==
  pc = "read" /\ Len(received) < NPdu => total_length < Size(Len(received) + 1)

FitInv == TypeOK /\ ExactDelivery /\ HoldsProperPrefix

LEMMA FitInvReadFits ==
  ASSUME FitsBuffer, FitInv
  PROVE  NextReadFits
<1> USE DEF FitInv
<1> SUFFICES ASSUME pc = "read" PROVE total_length + BUFF_LENGTH <= BUFF_MAX
  BY DEF NextReadFits
<1>1. Len(received) \in Nat
  BY DEF TypeOK
<1>2. CASE Len(received) < NPdu
  <2>1. Len(received) + 1 \in Pdus
    BY <1>1, <1>2, StreamAssumption
  <2>2. Size(Len(received) + 1) + BUFF_LENGTH <= BUFF_MAX + 1
    BY <2>1 DEF FitsBuffer
  <2>3. QED
    BY <1>2, <2>1, <2>2, SizePositive, BufferAssumption DEF HoldsProperPrefix, TypeOK
<1>3. CASE Len(received) = NPdu
  <2>1. lo = StreamEnd
    BY <1>3 DEF ExactDelivery, StreamEnd
  <2>2. hi = lo
    BY <2>1, StreamEndType DEF TypeOK
  <2>3. QED
    BY <2>2, BufferAssumption, StreamAssumption DEF TypeOK
<1>4. QED
  BY <1>1, <1>2, <1>3, StreamAssumption DEF ExactDelivery

(* The PDU at the front of the buffer is the next one. *)
LEMMA FrontIsNext ==
  ASSUME FitInv, NEW i \in Pdus, Start[i] = lo
  PROVE  i = Len(received) + 1
<1>1. Len(received) \in Nat
  BY DEF FitInv, TypeOK
<1>2. Len(received) + 1 \in 1 .. NPdu + 1 /\ i \in 1 .. NPdu + 1
  BY <1>1, StreamAssumption DEF FitInv, ExactDelivery
<1>3. QED
  BY <1>2, StartInjective DEF FitInv, ExactDelivery

(* The parse loop ends, on 0 or -1, only when the next PDU is incomplete. *)
LEMMA LoopEndsOnPrefix ==
  ASSUME FitInv, Len(received) < NPdu,
         NEW r \in {NeedMore, BadFormat}, OnPduParse(lo, hi, mem, r)
  PROVE  total_length < Size(Len(received) + 1)
<1> DEFINE n == Len(received) + 1
<1>1. n \in Pdus /\ Start[n] = lo /\ lo \in Nat /\ hi \in Nat
  BY StreamAssumption DEF FitInv, TypeOK, ExactDelivery
<1>2. CASE r = NeedMore
  BY <1>1, <1>2, NeedMoreIsPrefix
<1>3. CASE r = BadFormat
  <2>1. hi - lo < FlagLen
    BY <1>1, <1>3, RejectIsCutFlag DEF AtPdu
  <2>2. QED
    BY <1>1, <2>1, SizePositive, StreamAssumption
<1>4. QED
  BY <1>2, <1>3

LEMMA FitStep ==
  ASSUME FitsBuffer
  PROVE  FitInv /\ [Next]_vars => FitInv'
<1> SUFFICES ASSUME FitInv, [Next]_vars PROVE ExactDelivery' /\ HoldsProperPrefix'
  BY TypeStep DEF FitInv
<1> USE DEF FitInv
<1>1. CASE Arrive \/ PeerClose \/ ReadEof \/ ReadError \/ ParseThrows
  BY <1>1 DEF Arrive, PeerClose, ReadEof, ReadError, ParseThrows, env, buffer,
              ExactDelivery, HoldsProperPrefix
<1>2. CASE Read
  BY <1>2 DEF Read, env, ExactDelivery, HoldsProperPrefix
<1>3. CASE DropAll
  BY <1>3, FitInvReadFits, ReadLenBounds, BufferAssumption
     DEF DropAll, Overflows, NextReadFits, TypeOK
<1>4. CASE ParseEnds
  BY <1>4, LoopEndsOnPrefix DEF ParseEnds, env, buffer, ExactDelivery, HoldsProperPrefix
<1>5. ASSUME NEW i \in Pdus, ParsePdu(i) PROVE ExactDelivery' /\ HoldsProperPrefix'
  <2>1. i = Len(received) + 1
    BY <1>5, FrontIsNext DEF ParsePdu
  <2>2. received \in Seq(Pdus) /\ received' = Append(received, i) /\ pc' = "parse"
    BY <1>5 DEF ParsePdu, TypeOK
  <2>3. Len(received') = i /\ DOMAIN received' = 1 .. i /\ DOMAIN received = 1 .. Len(received)
    BY <2>1, <2>2
  <2>4. lo' = Start[i + 1]
    BY <1>5, SizePositive DEF ParsePdu
  <2>5. \A j \in DOMAIN received' : received'[j] = j
    BY <2>1, <2>2, <2>3 DEF ExactDelivery
  <2>6. Len(received') <= NPdu /\ lo' = Start[Len(received') + 1]
    BY <2>3, <2>4
  <2>7. HoldsProperPrefix'
    BY <2>2 DEF HoldsProperPrefix
  <2>8. QED
    BY <2>5, <2>6, <2>7 DEF ExactDelivery
<1>6. CASE UNCHANGED vars
  BY <1>6 DEF vars, ExactDelivery, HoldsProperPrefix
<1>7. QED
  BY <1>1, <1>2, <1>3, <1>4, <1>5, <1>6 DEF Next, Parse

LEMMA FitInit == Init => FitInv
<1> SUFFICES ASSUME Init PROVE ExactDelivery /\ HoldsProperPrefix
  BY TypeInit DEF FitInv
<1>1. Len(received) = 0 /\ lo = 0 /\ hi = 0
  BY DEF Init
<1>2. 0 < NPdu => Size(1) > 0
  BY SizePositive, StreamAssumption
<1>3. QED
  BY <1>1, <1>2, StreamAssumption DEF Init, ExactDelivery, HoldsProperPrefix

LEMMA FitInvariant ==
  ASSUME FitsBuffer
  PROVE  Spec => []FitInv
  BY FitInit, FitStep, PTL DEF Spec

(***************************************************************************)
(* If every PDU fits, the branch that drops the buffer is never taken.     *)
(***************************************************************************)
THEOREM NeverOverflows ==
  ASSUME FitsBuffer
  PROVE  Spec => []NextReadFits
  BY FitInvariant, FitInvReadFits, PTL

(***************************************************************************)
(* If every PDU fits, the PDUs received are the first ones of the stream.  *)
(***************************************************************************)
THEOREM DeliveryIsExact ==
  ASSUME FitsBuffer
  PROVE  Spec => []ExactDelivery
<1>1. FitInv => ExactDelivery
  BY DEF FitInv
<1>2. QED
  BY <1>1, FitInvariant, PTL

-----------------------------------------------------------------------------
(* receiveThread implements in-order delivery, when every PDU fits. *)

LEMMA AbstractInit == Init => Abstract!Init
<1> SUFFICES ASSUME Init PROVE PdusBefore(0) = {} /\ received = <<>>
  BY DEF Init, Abstract!Init
<1>1. \A i \in Pdus : ~(Start[i + 1] <= 0)
  BY SizePositive
<1>2. QED
  BY <1>1 DEF Init, PdusBefore

LEMMA AbstractStep ==
  ASSUME FitInv, FitInv', [Next]_vars
  PROVE  [Abstract!Next]_Abstract!vars
<1> USE DEF Abstract!Next, Abstract!vars
<1>1. CASE UNCHANGED <<arrived, received>>
  BY <1>1 DEF PdusBefore
<1>2. CASE Arrive
  <2>1. arrived' >= arrived /\ UNCHANGED received
    BY <1>2, StreamEndType DEF Arrive, FitInv, TypeOK
  <2>2. PdusBefore(arrived) \subseteq PdusBefore(arrived)'
    BY <2>1, SizePositive DEF PdusBefore, FitInv, TypeOK
  <2>3. PdusBefore(arrived)' \in SUBSET Pdus
    BY DEF PdusBefore
  <2>4. QED
    BY <2>1, <2>2, <2>3 DEF Abstract!Arrive
<1>3. ASSUME NEW i \in Pdus, ParsePdu(i) PROVE Abstract!Deliver
  <2>1. i = Len(received) + 1
    BY <1>3, FrontIsNext DEF ParsePdu
  <2>2. lo + Size(i) <= hi
    BY <1>3, ParsedIsBuffered DEF ParsePdu, FitInv, TypeOK
  <2>3. Start[i + 1] <= arrived
    BY <1>3, <2>2, SizePositive, StreamEndType DEF ParsePdu, FitInv, TypeOK
  <2>4. i \in PdusBefore(arrived)
    BY <2>3 DEF PdusBefore
  <2>5. QED
    BY <1>3, <2>1, <2>4 DEF ParsePdu, env, Abstract!Deliver, PdusBefore
<1>4. QED
  BY <1>1, <1>2, <1>3 DEF Next, Parse, PeerClose, Read, DropAll, ReadEof, ReadError,
     ParseEnds, ParseThrows, env, buffer, vars

(***************************************************************************)
(* Every complete PDU is handed over once and in order: the abstract       *)
(* receiver's initial state and steps, under PdusBefore(arrived).          *)
(***************************************************************************)
THEOREM Refinement ==
  ASSUME FitsBuffer
  PROVE  Spec => ImplementsInOrderDelivery
  BY AbstractInit, AbstractStep, FitInvariant, PTL
     DEF Spec, ImplementsInOrderDelivery, Abstract!Spec
=============================================================================
