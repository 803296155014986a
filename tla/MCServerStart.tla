---------------------------- MODULE MCServerStart ----------------------------
(* Two presses; hash functions with some and with nothing but collisions.    *)
EXTENDS ServerStart

const_Keys == Fds \cup {NoFd}

const_Hashes == {[k \in const_Keys |-> IF k = NoFd THEN 1 ELSE k % 4],
                 [k \in const_Keys |-> 1]}
=============================================================================
