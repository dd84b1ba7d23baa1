--------------------------- MODULE MCClusterJoin ----------------------------
(***************************************************************************)
(* ClusterJoin with one heap page, on which the entries of all nodes lie.  *)
(***************************************************************************)
EXTENDS ClusterJoin

CONSTANTS m, a, b

MCHome == [n \in Nodes |-> 3]
=============================================================================
