-------------------------- MODULE MCRemoteThreads ---------------------------
(***************************************************************************)
(* RemoteThreads with one heap page, on which the entries of all nodes lie.*)
(***************************************************************************)
EXTENDS RemoteThreads

CONSTANTS m, w1, w2

MCHome == [n \in Nodes |-> 3]
=============================================================================
