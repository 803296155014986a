------------------------ MODULE ServerReceive_proofs ------------------------
(***************************************************************************)
(* Proofs about ServerReceive, for every stream and every size of read.    *)
(*                                                                         *)
(* TypeOK is inductive; InOrder and ExactUntilDropped are, relative to it. *)
(* That the first reject is of a cut start flag then follows from what the *)
(* parser answers at the start of a PDU.  CloseInv adds what close_cb may  *)
(* leave behind: after a hang-up and a read that was not full, the bytes   *)
(* that are left are less than a PDU.                                      *)
(***************************************************************************)
EXTENDS ServerReceive, TLAPS

USE DEF Pdus, NeedMore, BadFormat, Crash

-----------------------------------------------------------------------------
(* Facts about the stream of PDUs and the answers of OnPduParse, for every stream. *)

(* PDUs have at least a header, so sizes are positive integers. *)
LEMMA SizePositive ==
  ASSUME NEW i \in Pdus
  PROVE  /\ Size(i) \in Nat
         /\ Size(i) >= HeaderLen
         /\ Size(i) > 0
         /\ Start[i] \in Nat /\ Start[i + 1] \in Nat
         /\ Start[i + 1] = Start[i] + Size(i)
         /\ Start[i + 1] <= StreamEnd
<1>1. i \in 1 .. NPdu + 1 /\ i + 1 \in 1 .. NPdu + 1 /\ NPdu + 1 \in 1 .. NPdu + 1
  BY StreamAssumption
<1>2. Start[i] + HeaderLen <= Start[i + 1]
  BY <1>1, StreamAssumption
<1>3. i + 1 < NPdu + 1 => Start[i + 1] + HeaderLen <= Start[NPdu + 1]
  BY <1>1, StreamAssumption
<1>4. QED
  BY <1>1, <1>2, <1>3, StreamAssumption DEF Size, StreamEnd

LEMMA ElementOfSeq ==
  ASSUME NEW S, NEW s \in Seq(S), NEW j \in DOMAIN s
  PROVE  s[j] \in S
  OBVIOUS

(* Two PDUs do not start at the same position. *)
LEMMA StartInjective ==
  ASSUME NEW i \in 1 .. NPdu + 1, NEW j \in 1 .. NPdu + 1, Start[i] = Start[j]
  PROVE  i = j
  BY StreamAssumption

LEMMA StreamEndType == StreamEnd \in Nat
  BY StreamAssumption DEF StreamEnd

(* A PDU that ends at or before the start of another has a smaller index. *)
LEMMA EndsBefore ==
  ASSUME NEW i \in Pdus, NEW j \in Pdus, Start[i + 1] <= Start[j]
  PROVE  i < j
<1>1. i \in 1 .. NPdu + 1 /\ j \in 1 .. NPdu + 1 /\ i + 1 \in 1 .. NPdu + 1
  BY StreamAssumption
<1>2. HeaderLen > 0 /\ HeaderLen \in Nat
  BY StreamAssumption
<1>3. Start[i] + HeaderLen <= Start[i + 1]
  BY <1>1, StreamAssumption
<1>4. Start[i] \in Nat /\ Start[j] \in Nat /\ Start[i + 1] \in Nat
  BY <1>1, StreamAssumption
<1>5. i # j
  BY <1>2, <1>3, <1>4
<1>6. ~(j < i)
  <2>1. j < i => Start[j] + HeaderLen <= Start[i]
    BY <1>1, StreamAssumption
  <2>2. QED
    BY <2>1, <1>2, <1>3, <1>4
<1>7. QED
  BY <1>5, <1>6, StreamAssumption

(* A PDU is taken out of a buffer only when all of it is there. *)
LEMMA ParsedIsBuffered ==
  ASSUME NEW p \in Nat, NEW q \in Nat, NEW kind,
         NEW i \in Pdus, Start[i] = p, OnPduParse(p, q, kind, Size(i))
  PROVE  p + Size(i) <= q
<1>1. Size(i) \in Nat /\ Size(i) > 0
  BY SizePositive
<1>2. PICK j \in Pdus : /\ Start[j] = p
                        /\ Size(i) = IF Size(j) > q - p THEN 0 ELSE Size(j)
  BY <1>1 DEF OnPduParse
<1>3. Size(j) \in Nat
  BY SizePositive
<1>4. QED
  BY <1>1, <1>2, <1>3

(* The parser answers 0 at the start of PDU n only when n is incomplete. *)
LEMMA NeedMoreIsPrefix ==
  ASSUME NEW p \in Nat, NEW q \in Nat, NEW kind,
         NEW n \in Pdus, Start[n] = p, OnPduParse(p, q, kind, NeedMore)
  PROVE  q - p < Size(n)
<1>1. Size(n) \in Nat /\ Size(n) >= HeaderLen /\ Size(n) > 0 /\ HeaderLen \in Nat
  BY SizePositive, StreamAssumption
<1>2. CASE q <= p \/ q - p < HeaderLen
  BY <1>1, <1>2
<1>3. ASSUME NEW i \in Pdus, Start[i] = p,
             NeedMore = IF Size(i) > q - p THEN NeedMore ELSE Size(i)
      PROVE  q - p < Size(n)
  <2>1. i = n
    BY <1>3, StartInjective, StreamAssumption
  <2>2. QED
    BY <1>1, <1>3, <2>1
<1>4. QED
  BY <1>2, <1>3 DEF OnPduParse

(* It answers -1 at the start of a PDU only when the start flag is cut. *)
LEMMA RejectIsCutFlag ==
  ASSUME NEW p \in Nat, NEW q \in Nat, NEW kind,
         AtPdu(p), OnPduParse(p, q, kind, BadFormat)
  PROVE  q - p < FlagLen /\ kind # "header" /\ p < q
<1>1. \A i \in Pdus : Size(i) # -1
  BY SizePositive
<1>2. QED
  BY <1>1 DEF OnPduParse, FlagDiffers

-----------------------------------------------------------------------------

LEMMA ReadLenBounds ==
  ASSUME TypeOK, arrived > hi
  PROVE  /\ ReadLen \in 0 .. CHUNK
         /\ hi + ReadLen <= arrived
  BY StreamEndType, ChunkAssumption DEF ReadLen, TypeOK

(* What ParsePdu takes out of the buffer. *)
LEMMA ParsePduTakes ==
  ASSUME TypeOK, NEW i \in Pdus, ParsePdu(i)
  PROVE  /\ lo' \in Nat /\ lo' <= hi /\ lo' >= lo
         /\ lo = Start[i] /\ lo' = Start[i + 1]
         /\ received \in Seq(Pdus) /\ received' = Append(received, i)
         /\ UNCHANGED <<hi, dropped>>
<1>1. lo + Size(i) <= hi
  BY ParsedIsBuffered DEF ParsePdu, TypeOK
<1>2. QED
  BY <1>1, SizePositive DEF ParsePdu, TypeOK

-----------------------------------------------------------------------------
(* Type correctness. *)
LEMMA TypeInit == Init => TypeOK
<1> SUFFICES ASSUME Init PROVE TypeOK
  OBVIOUS
<1>1. received \in Seq(Pdus)
  BY DEF Init
<1>2. /\ arrived \in 0 .. StreamEnd /\ lo \in Nat /\ hi \in Nat
      /\ lo <= hi /\ hi <= arrived /\ last \in 0 .. CHUNK
  BY StreamEndType, ChunkAssumption DEF Init
<1>3. /\ peer \in {"open", "closed", "reset"} /\ mem \in Memory
      /\ hup \in BOOLEAN /\ entry \in BOOLEAN /\ dropped \in BOOLEAN
      /\ pc \in {"wait", "read", "parse", "close", "closed", "crashed"}
  BY DEF Init, Memory
<1>4. QED
  BY <1>1, <1>2, <1>3 DEF TypeOK

LEMMA TypeStep == TypeOK /\ [Next]_vars => TypeOK'
<1> SUFFICES ASSUME TypeOK, [Next]_vars PROVE TypeOK'
  OBVIOUS
<1> USE DEF TypeOK, env, buffer, Memory, AfterReadCb
<1>1. CASE Arrive
  BY <1>1, StreamEndType DEF Arrive
<1>2. CASE PeerEnds
  BY <1>2 DEF PeerEnds
<1>3. CASE EpollWait
  <2>1. hup' \in BOOLEAN
    BY <1>3, Zenon DEF EpollWait
  <2>2. UNCHANGED <<arrived, peer, entry, lo, hi, mem, last, received, dropped>> /\ pc' = "read"
    BY <1>3 DEF EpollWait
  <2>3. QED
    BY <2>1, <2>2
<1>4. CASE ReadData
  BY <1>4, ReadLenBounds DEF ReadData
<1>5. CASE ReadNothing
  BY <1>5, ChunkAssumption DEF ReadNothing
<1>6. CASE ParseNeedMore
  BY <1>6 DEF ParseNeedMore
<1>7. CASE ParseReject
  <2>1. entry' \in BOOLEAN /\ dropped' \in BOOLEAN /\ mem' \in Memory
    BY <1>7 DEF ParseReject
  <2>2. pc' \in {"close", "wait"}
    BY <1>7 DEF ParseReject
  <2>3. lo' = hi /\ UNCHANGED <<arrived, peer, hup, hi, last, received>>
    BY <1>7 DEF ParseReject
  <2>4. QED
    BY <2>1, <2>2, <2>3
<1>8. ASSUME NEW i \in Pdus, ParsePdu(i) PROVE TypeOK'
  <2>1. received' \in Seq(Pdus)
    BY <1>8 DEF ParsePdu
  <2>2. QED
    BY <1>8, <2>1, ParsePduTakes DEF ParsePdu
<1>9. CASE ParseThrows
  BY <1>9 DEF ParseThrows
<1>10. CASE CloseCb
  BY <1>10 DEF CloseCb
<1>11. CASE UNCHANGED vars
  BY <1>11 DEF vars
<1>12. QED
  BY <1>1, <1>2, <1>3, <1>4, <1>5, <1>6, <1>7, <1>8, <1>9, <1>10, <1>11
     DEF Next, ReadCb, Parse

(* The variables of the connection keep their types, for every stream. *)
THEOREM TypeCorrect == Spec => []TypeOK
  BY TypeInit, TypeStep, PTL DEF Spec

-----------------------------------------------------------------------------
(* Order. *)

OrderInv == TypeOK /\ InOrder

LEMMA OrderStep == OrderInv /\ [Next]_vars => OrderInv'
<1> SUFFICES ASSUME OrderInv, [Next]_vars PROVE InOrder'
  BY TypeStep DEF OrderInv
<1> USE DEF OrderInv
<1>1. CASE UNCHANGED received /\ lo' \in Nat /\ lo' >= lo
  <2>1. \A j \in DOMAIN received : received[j] \in Pdus
    <3>1. received \in Seq(Pdus)
      BY DEF TypeOK
    <3>2. QED
      BY <3>1, ElementOfSeq
  <2>2. \A j \in DOMAIN received : Start[received[j] + 1] \in Nat
    BY <2>1, SizePositive
  <2>3. QED
    BY <1>1, <2>2 DEF InOrder, TypeOK
<1>2. ASSUME NEW i \in Pdus, ParsePdu(i) PROVE InOrder'
  <2>1. /\ received \in Seq(Pdus) /\ received' = Append(received, i)
        /\ Start[i] = lo /\ lo' = Start[i + 1] /\ lo' >= lo /\ lo' \in Nat /\ lo \in Nat
    BY <1>2, ParsePduTakes DEF TypeOK
  <2>2. ASSUME NEW j \in DOMAIN received
        PROVE  /\ received[j] < i
               /\ Start[received[j] + 1] <= lo'
    <3>1. received[j] \in Pdus
      BY <2>1, ElementOfSeq
    <3>2. Start[received[j] + 1] \in Nat
      BY <3>1, SizePositive
    <3>3. Start[received[j] + 1] <= Start[i]
      BY <2>1 DEF InOrder
    <3>4. QED
      BY <2>1, <3>1, <3>2, <3>3, EndsBefore
  <2>3. /\ DOMAIN received' = 1 .. Len(received) + 1
        /\ \A j \in DOMAIN received : received'[j] = received[j]
        /\ received'[Len(received) + 1] = i
        /\ DOMAIN received = 1 .. Len(received) /\ Len(received) \in Nat
    BY <2>1
  <2>4. \A j \in DOMAIN received' : Start[received'[j] + 1] <= lo'
    <3> SUFFICES ASSUME NEW j \in DOMAIN received' PROVE Start[received'[j] + 1] <= lo'
      OBVIOUS
    <3>1. CASE j = Len(received) + 1
      BY <3>1, <2>1, <2>3
    <3>2. CASE j \in DOMAIN received
      BY <3>2, <2>2, <2>3
    <3>3. QED
      BY <3>1, <3>2, <2>3
  <2>5. \A j, k \in DOMAIN received' : j < k => received'[j] < received'[k]
    <3> SUFFICES ASSUME NEW j \in DOMAIN received', NEW k \in DOMAIN received', j < k
                 PROVE  received'[j] < received'[k]
      OBVIOUS
    <3>1. j \in DOMAIN received
      BY <2>3
    <3>2. CASE k = Len(received) + 1
      BY <3>1, <3>2, <2>2, <2>3
    <3>3. CASE k \in DOMAIN received
      BY <3>1, <3>3, <2>3 DEF InOrder
    <3>4. QED
      BY <3>2, <3>3, <2>3
  <2>6. QED
    BY <2>4, <2>5 DEF InOrder
<1>3. CASE \/ Arrive \/ PeerEnds \/ EpollWait \/ ReadData \/ ReadNothing
           \/ ParseNeedMore \/ ParseReject \/ ParseThrows \/ CloseCb
  BY <1>1, <1>3 DEF Arrive, PeerEnds, EpollWait, ReadData, ReadNothing, ParseNeedMore,
     ParseReject, ParseThrows, CloseCb, buffer, TypeOK
<1>4. CASE UNCHANGED vars
  BY <1>1, <1>4 DEF vars, buffer, TypeOK
<1>5. QED
  BY <1>2, <1>3, <1>4 DEF Next, ReadCb, Parse

(***************************************************************************)
(* OnReceive sees each PDU at most once and in the order of the stream,    *)
(* for every stream and however often the parser loses its place.          *)
(***************************************************************************)
THEOREM ReceivedInOrder == Spec => []InOrder
<1>1. Init => OrderInv
  BY TypeInit DEF Init, OrderInv, InOrder
<1>2. OrderInv => InOrder
  BY DEF OrderInv
<1>3. QED
  BY <1>1, <1>2, OrderStep, PTL DEF Spec

-----------------------------------------------------------------------------
(* Exactness, until the first reject. *)

ExactInv == TypeOK /\ ExactUntilDropped

LEMMA ExactStep == ExactInv /\ [Next]_vars => ExactInv'
<1> SUFFICES ASSUME ExactInv, [Next]_vars, ~dropped' PROVE ExactUntilDropped'
  BY TypeStep DEF ExactInv, ExactUntilDropped
<1> USE DEF ExactInv
<1>1. CASE UNCHANGED <<received, lo, dropped>>
  BY <1>1 DEF ExactUntilDropped
<1>2. ASSUME NEW i \in Pdus, ParsePdu(i) PROVE ExactUntilDropped'
  <2>1. /\ received \in Seq(Pdus) /\ received' = Append(received, i)
        /\ Start[i] = lo /\ lo' = Start[i + 1] /\ ~dropped
    BY <1>2, ParsePduTakes
  <2>2. /\ Len(received) \in Nat /\ Len(received) <= NPdu
        /\ lo = Start[Len(received) + 1]
        /\ \A j \in DOMAIN received : received[j] = j
    BY <2>1 DEF ExactUntilDropped
  <2>3. i = Len(received) + 1
    <3>1. Len(received) + 1 \in 1 .. NPdu + 1 /\ i \in 1 .. NPdu + 1
      BY <2>2, StreamAssumption
    <3>2. QED
      BY <3>1, <2>1, <2>2, StartInjective
  <2>4. Len(received') = i /\ DOMAIN received' = 1 .. i /\ DOMAIN received = 1 .. Len(received)
    BY <2>1, <2>3
  <2>5. \A j \in DOMAIN received' : received'[j] = j
    BY <2>1, <2>2, <2>3, <2>4
  <2>6. Len(received') <= NPdu /\ lo' = Start[Len(received') + 1]
    BY <2>1, <2>4
  <2>7. QED
    BY <2>5, <2>6 DEF ExactUntilDropped
<1>3. QED
  BY <1>1, <1>2 DEF Next, ReadCb, Parse, Arrive, PeerEnds, EpollWait, ReadData, ReadNothing,
     ParseNeedMore, ParseReject, ParseThrows, CloseCb, buffer, vars

LEMMA ExactInvariant == Spec => []ExactInv
<1>1. Init => ExactInv
  <2> SUFFICES ASSUME Init PROVE ExactUntilDropped
    BY TypeInit DEF ExactInv
  <2>1. Len(received) = 0 /\ lo = 0
    BY DEF Init
  <2>2. QED
    BY <2>1, StreamAssumption DEF Init, ExactUntilDropped
<1>2. QED
  BY <1>1, ExactStep, PTL DEF Spec

(***************************************************************************)
(* Until a buffer is rejected, the PDUs received are the first ones of the *)
(* stream, for every stream and every way the bytes are cut into reads.    *)
(***************************************************************************)
THEOREM DeliveryIsExactUntilDropped == Spec => []ExactUntilDropped
<1>1. ExactInv => ExactUntilDropped
  BY DEF ExactInv
<1>2. QED
  BY <1>1, ExactInvariant, PTL

(* Before the first reject the buffer is at the start of a PDU, or empty. *)
LEMMA AtPduUntilDropped ==
  ASSUME ExactInv, ~dropped, lo < hi
  PROVE  AtPdu(lo)
<1>1. Len(received) \in Nat /\ Len(received) <= NPdu /\ lo = Start[Len(received) + 1]
  BY DEF ExactInv, ExactUntilDropped, TypeOK
<1>2. CASE Len(received) = NPdu
  BY <1>1, <1>2, StreamEndType DEF StreamEnd, ExactInv, TypeOK
<1>3. CASE Len(received) < NPdu
  BY <1>1, <1>3, StreamAssumption DEF AtPdu
<1>4. QED
  BY <1>1, <1>2, <1>3, StreamAssumption

(***************************************************************************)
(* The first buffer thrown away is fewer than FlagLen bytes at the start   *)
(* of a PDU: only a cut start flag makes the server lose its place.        *)
(***************************************************************************)
THEOREM FirstDropIsOfACutFlag == Spec => FirstDropIsCutFlag
<1> DEFINE Step == dropped' /\ ~dropped => AtPdu(lo) /\ hi - lo < FlagLen /\ mem # "header"
<1>1. ASSUME ExactInv, [Next]_vars PROVE [Step]_vars
  <2> SUFFICES ASSUME Next, dropped', ~dropped
               PROVE  AtPdu(lo) /\ hi - lo < FlagLen /\ mem # "header"
    BY <1>1
  <2>1. ParseReject
    BY DEF Next, ReadCb, Parse, Arrive, PeerEnds, EpollWait, ReadData, ReadNothing,
       ParseNeedMore, ParsePdu, ParseThrows, CloseCb
  <2>2. lo \in Nat /\ hi \in Nat /\ OnPduParse(lo, hi, mem, BadFormat)
    BY <2>1, <1>1 DEF ParseReject, ExactInv, TypeOK
  <2>3. lo < hi
    <3>1. \A i \in Pdus : Size(i) # -1
      BY SizePositive
    <3>2. QED
      BY <2>2, <3>1 DEF OnPduParse
  <2>4. AtPdu(lo)
    BY <1>1, <2>3, AtPduUntilDropped
  <2>5. QED
    BY <2>2, <2>4, RejectIsCutFlag
<1>2. QED
  BY <1>1, ExactInvariant, PTL DEF Spec, FirstDropIsCutFlag
-----------------------------------------------------------------------------
(* What is left behind when the client closes its end. *)

(* Outside the parse loop, the PDU after those received is not complete. *)
NextIsIncomplete ==
  ~dropped /\ pc \notin {"parse", "crashed"} =>
    Len(received) = NPdu \/ Start[Len(received) + 2] > hi

(* After EPOLLRDHUP nothing arrives any more, so a read that was not full  *)
(* has emptied the socket.                                                 *)
HangUp ==
  /\ pc \in {"close", "closed"} => hup
  /\ hup => peer # "open"
  /\ hup /\ peer = "closed" /\ last < CHUNK /\ pc \in {"parse", "close", "closed"} =>
       hi = arrived

CloseInv == ExactInv /\ HangUp /\ NextIsIncomplete

LEMMA HangUpStep == ExactInv /\ HangUp /\ [Next]_vars => HangUp'
<1> SUFFICES ASSUME ExactInv, HangUp, [Next]_vars PROVE HangUp'
  OBVIOUS
<1> USE DEF HangUp, env, buffer, AfterReadCb
<1>1. CASE Arrive \/ PeerEnds
  BY <1>1 DEF Arrive, PeerEnds
<1>2. CASE EpollWait
  <2>1. /\ pc' = "read" /\ peer' = peer
        /\ hup' => peer # "open"
    BY <1>2, Zenon DEF EpollWait
  <2>2. QED
    BY <2>1
<1>3. CASE ReadData
  <2>1. /\ pc' = "parse" /\ UNCHANGED <<hup, peer, arrived>>
        /\ last' = ReadLen /\ hi' = hi + ReadLen
    BY <1>3 DEF ReadData
  <2>2. last' < CHUNK => hi' = arrived
    BY <2>1, ChunkAssumption, StreamEndType DEF ReadLen, ExactInv, TypeOK
  <2>3. QED
    BY <2>1, <2>2
<1>4. CASE ReadNothing
  BY <1>4 DEF ReadNothing
<1>5. CASE ParseNeedMore \/ ParseReject
  BY <1>5 DEF ParseNeedMore, ParseReject
<1>6. CASE ParseThrows \/ CloseCb \/ UNCHANGED vars
  BY <1>6 DEF ParseThrows, CloseCb, vars
<1>7. ASSUME NEW i \in Pdus, ParsePdu(i) PROVE HangUp'
  BY <1>7 DEF ParsePdu
<1>8. QED
  BY <1>1, <1>2, <1>3, <1>4, <1>5, <1>6, <1>7 DEF Next, ReadCb, Parse

LEMMA IncompleteStep == ExactInv /\ NextIsIncomplete /\ [Next]_vars => NextIsIncomplete'
<1> SUFFICES ASSUME ExactInv, NextIsIncomplete, [Next]_vars, ~dropped',
                    pc' \notin {"parse", "crashed"}, Len(received') # NPdu
             PROVE  Start[Len(received') + 2] > hi'
  BY DEF NextIsIncomplete
<1>1. CASE ParseNeedMore
  <2> DEFINE n == Len(received) + 1
  <2>1. /\ UNCHANGED <<received, hi, dropped>> /\ OnPduParse(lo, hi, mem, NeedMore)
        /\ lo \in Nat /\ hi \in Nat
    BY <1>1 DEF ParseNeedMore, buffer, ExactInv, TypeOK
  <2>2. /\ Len(received) \in Nat /\ Len(received) <= NPdu /\ lo = Start[n]
    BY <2>1 DEF ExactInv, ExactUntilDropped, TypeOK
  <2>3. n \in Pdus
    BY <2>1, <2>2, StreamAssumption
  <2>4. hi - lo < Size(n)
    BY <2>1, <2>2, <2>3, NeedMoreIsPrefix
  <2>5. Start[n + 1] = Start[n] + Size(n) /\ Start[n] \in Nat /\ Size(n) \in Nat
    BY <2>3, SizePositive
  <2>6. n + 1 = Len(received') + 2
    BY <2>1, <2>2
  <2>7. hi < Start[n + 1]
    BY <2>1, <2>2, <2>4, <2>5
  <2>8. QED
    BY <2>1, <2>6, <2>7, <2>5
<1>2. CASE pc \notin {"parse", "crashed"} /\ UNCHANGED <<received, hi, dropped>>
  BY <1>2 DEF NextIsIncomplete
<1>3. QED
  BY <1>1, <1>2 DEF Next, ReadCb, Parse, Arrive, PeerEnds, EpollWait, ReadData, ReadNothing,
     ParsePdu, ParseReject, ParseThrows, CloseCb, buffer, vars

(***************************************************************************)
(* A client that sends its PDUs and closes is heard to the end unless the  *)
(* one read_cb before close_cb was full: the rest is then lost.            *)
(***************************************************************************)
THEOREM OnlyAFullReadLeavesPdus == Spec => []ClosedAfterAll
<1>1. Init => HangUp /\ NextIsIncomplete
  <2> SUFFICES ASSUME Init PROVE HangUp /\ NextIsIncomplete
    OBVIOUS
  <2>1. Len(received) = 0 /\ hi = 0 /\ pc = "wait" /\ hup = FALSE
    BY DEF Init
  <2>2. NPdu # 0 => Start[2] > 0
    BY SizePositive, StreamAssumption
  <2>3. QED
    BY <2>1, <2>2 DEF HangUp, NextIsIncomplete
<1>2. CloseInv => ClosedAfterAll
  BY DEF CloseInv, HangUp, NextIsIncomplete, ClosedAfterAll
<1>3. QED
  BY <1>1, <1>2, ExactInvariant, HangUpStep, IncompleteStep, PTL DEF Spec, CloseInv
=============================================================================
