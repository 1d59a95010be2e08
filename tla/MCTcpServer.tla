---------------------------- MODULE MCTcpServer ----------------------------
(* Instances of TcpServer for TLC.                                          *)
EXTENDS TcpServer, TLC

CONSTANTS f1, f2, o1

MCFds == {f1, f2}
MCOneFd == {f1}
MCOthers == {o1}
FdSymmetry == Permutations(MCFds)
=============================================================================
