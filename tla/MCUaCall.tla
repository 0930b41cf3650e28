------------------------------ MODULE MCUaCall ------------------------------
(* User agents, and the calls between them, for the runs of UaCall. *)
EXTENDS UaCall, TLC

CONSTANTS alice, bob, server, c1, c2

\* One call, and one that the callee of the first places to a server.
CallerTwo == (c1 :> alice) @@ (c2 :> bob)
CalleeTwo == (c1 :> bob) @@ (c2 :> server)

\* One call.
CallerOne == (c1 :> alice)
CalleeOne == (c1 :> bob)

=============================================================================
