--------------------------- MODULE MCTunnelRelay ---------------------------
(***************************************************************************)
(* TunnelRelay for TLC: two nodes; the first has two streams, so that an   *)
(* old one of it meets a new one, the second has one.                      *)
(***************************************************************************)
EXTENDS TunnelRelay, TLC

CONSTANTS a, b, a1, a2, b1

MCOwner == a1 :> a @@ a2 :> a @@ b1 :> b
MCPosts == {[type |-> "text", from |-> b, to |-> a]}
=============================================================================
