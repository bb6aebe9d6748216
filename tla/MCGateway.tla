----------------------------- MODULE MCGateway -----------------------------
(***************************************************************************)
(* A small instance of Gateway.                                            *)
(***************************************************************************)
EXTENDS Gateway, TLC

CONSTANTS a1, a2, a3, u1, u2

\* Three addresses that may each have one call under way, and a global limit
\* of two.
MCPeriod == "global" :> 2 @@ "ip" :> 3 @@ "api" :> 1
MCBurst == "global" :> 2 @@ "ip" :> 1 @@ "api" :> 1

\* The limits of create_router: 200 ms to a tick, bursts divided by 5.
DeployedPeriod == "global" :> 1 @@ "ip" :> 5 @@ "api" :> 1
DeployedBurst == "global" :> 4 @@ "ip" :> 1 @@ "api" :> 1

MCAdminLists == {{}, {u1}}

Symmetric == Permutations(Logins) \cup Permutations(Addresses)
=============================================================================
