----------------------------- MODULE MCNetServer -----------------------------
(* Instances of NetServer for TLC.                                          *)
EXTENDS NetServer, TLC

CONSTANTS u1, u2, w1, c1, c2

MCUsers == {u1, u2}
OneWorker == {w1}
MCResponders == {c1, c2}
=============================================================================
