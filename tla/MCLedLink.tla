----------------------------- MODULE MCLedLink -----------------------------
(* LedLink with the outputs wired to the pins in another order than they   *)
(* are written.                                                            *)
EXTENDS LedLink

MCChain == [n \in 1 .. 5 |-> 5 - n]
=============================================================================
