------------------------------ MODULE MCDBProxy ------------------------------
(* Instances of DBProxy for TLC.                                            *)
EXTENDS DBProxy, TLC

CONSTANTS u1, u2, w1, w2, c1

MCUsers == {u1, u2}
MCWorkers == {w1, w2}
OnePoolThread == {c1}
=============================================================================
