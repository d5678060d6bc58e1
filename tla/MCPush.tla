------------------------------- MODULE MCPush -------------------------------
(* Instances of Push: connections are interchangeable. *)
EXTENDS Push, TLC

ConnSymmetry == Permutations(Conn)
=============================================================================
