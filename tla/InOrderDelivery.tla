--------------------------- MODULE InOrderDelivery ---------------------------
(***************************************************************************)
(* What a receiver of PDUs promises: every PDU that has arrived completely *)
(* is handed to the callback, once, in the order of the stream, and        *)
(* nothing else is.                                                        *)
(***************************************************************************)
EXTENDS Integers, Sequences

CONSTANT Pdus           \* the indexes 1 .. n of the PDUs of the stream

VARIABLES
  complete,     \* the PDUs that have arrived completely
  delivered     \* the PDUs handed to the callback, in order

vars == <<complete, delivered>>

Init ==
  /\ complete = {}
  /\ delivered = <<>>

Arrive ==
  /\ complete' \in SUBSET Pdus
  /\ complete \subseteq complete'
  /\ UNCHANGED delivered

Deliver ==
  /\ Len(delivered) + 1 \in complete
  /\ delivered' = Append(delivered, Len(delivered) + 1)
  /\ UNCHANGED complete

Next == Arrive \/ Deliver

Spec == Init /\ [][Next]_vars
=============================================================================
