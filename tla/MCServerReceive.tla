-------------------------- MODULE MCServerReceive --------------------------
(***************************************************************************)
(* Instances of ServerReceive: PDUs with and without a body, reads that    *)
(* cut a start flag, a header or a body, and streams longer than a read.   *)
(***************************************************************************)
EXTENDS ServerReceive

StartMixed == <<0, 3, 6, 12>>           \* sizes 3, 3, 6
=============================================================================
