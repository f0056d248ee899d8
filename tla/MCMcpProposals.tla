---------------------------- MODULE MCMcpProposals ----------------------------
(***************************************************************************)
(* An instance of McpProposals for TLC: two servers with a client each.    *)
(* Swapping the servers together with their clients, or the two requests,  *)
(* changes nothing.                                                        *)
(***************************************************************************)
EXTENDS McpProposals, TLC

CONSTANTS s1, s2, c1, c2, x1, x2

MCServers  == {s1, s2}
MCProcs    == MCServers \cup {Api}
MCClients  == {c1, c2}
MCHome     == (c1 :> s1) @@ (c2 :> s2)
MCPayloads == {x1, x2}

SwapServers  == (s1 :> s2) @@ (s2 :> s1) @@ (c1 :> c2) @@ (c2 :> c1)
Symmetries   == Permutations(MCPayloads) \cup {SwapServers}
=============================================================================
