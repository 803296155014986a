----------------------------- MODULE MCPduCodec -----------------------------
(***************************************************************************)
(* Instances of PduCodec: a PDU without a body and one with a body of two  *)
(* bytes, and header fields that tell the bytes and the signs apart.       *)
(***************************************************************************)
EXTENDS PduCodec

TwoBodies == << <<>>, <<200, 7>> >>

SomeHeaders ==
  [pdu_type : {1}, offset : {7}, size : {-2}, presentationTimeUs : {1000, -3},
   flags : {70000}, reserved : {513, 18}]

(* Ones, a flag before a negative length, and one before a length of 2 GB. *)
SomeJunk ==
  LET after(k, b) == IF k <= 4 THEN <<18, 52, 86, 120>>[k] ELSE b
  IN  {[k \in 1 .. 33 |-> 255], [k \in 1 .. 33 |-> after(k, 255)],
       [k \in 1 .. 33 |-> after(k, IF k \in {26, 30} THEN 127 ELSE 255)]}
=============================================================================
