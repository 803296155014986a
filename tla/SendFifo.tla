------------------------------ MODULE SendFifo ------------------------------
(***************************************************************************)
(* What Send promises its caller: messages are numbered in the order of    *)
(* the calls, and leave in that order, each one written as a whole or      *)
(* given up, and no later than the message after it.  TcpClient implements *)
(* this with a queue, a mutex and as many senders as there are connections.*)
(***************************************************************************)
EXTENDS Naturals, Sequences

VARIABLES
  accepted,  \* how many messages Send has taken
  pending,   \* the messages that have not left, in order
  written,   \* the messages completely written
  lost       \* the messages given up

vars == <<accepted, pending, written, lost>>

Init ==
  /\ accepted = 0
  /\ pending = <<>>
  /\ written = {}
  /\ lost = {}

Accept ==
  /\ accepted' = accepted + 1
  /\ pending' = Append(pending, accepted + 1)
  /\ UNCHANGED <<written, lost>>

Deliver ==
  /\ pending # <<>>
  /\ pending' = Tail(pending)
  /\ written' = written \cup {Head(pending)}
  /\ UNCHANGED <<accepted, lost>>

Lose ==
  /\ pending # <<>>
  /\ pending' = Tail(pending)
  /\ lost' = lost \cup {Head(pending)}
  /\ UNCHANGED <<accepted, written>>

Next == Accept \/ Deliver \/ Lose

Spec == Init /\ [][Next]_vars
=============================================================================
