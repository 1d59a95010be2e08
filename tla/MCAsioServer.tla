---------------------------- MODULE MCAsioServer ----------------------------
(* Instances of AsioServer for TLC. *)
EXTENDS AsioServer

\* Only the first connection carries messages; the second one knocks.
MCMaxMsgs == <<2, 0>>
=============================================================================
