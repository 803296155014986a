-------------------------- MODULE MCClientReceive --------------------------
(***************************************************************************)
(* Instances of ClientReceive: PDUs with and without a body, one of the    *)
(* largest size that fits the buffer, and one that does not fit.           *)
(***************************************************************************)
EXTENDS ClientReceive

StartSmall == <<0, 3, 8, 12, 15>>       \* sizes 3, 5, 4, 3
StartLarge == <<0, 4, 11, 14>>          \* sizes 4, 7, 3

ASSUME SmallFits == Start = StartSmall => FitsBuffer
ASSUME LargeDoesNotFit == Start = StartLarge => ~FitsBuffer
=============================================================================
