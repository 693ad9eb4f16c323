------------------------------ MODULE MCWallets ------------------------------
(* Instances of Wallets for TLC: jobs of a caller for the agent, one of them the *)
(* step of a pipeline, and jobs that the agent hires another agent for, two at a *)
(* time.                                                                         *)
EXTENDS Wallets, TLC

CONSTANTS j1, j2, j3, j4, j5

MCPayer == (j1 :> "caller" @@ j2 :> "caller" @@ j3 :> "agent" @@ j4 :> "agent"
              @@ j5 :> "caller")
MCPayee == (j1 :> "agent" @@ j2 :> "agent" @@ j3 :> "other" @@ j4 :> "other"
              @@ j5 :> "agent")
MCOrders == {{j1, j2}, {j1, j3}, {j2, j3}, {j3, j4}, {j3, j5}}
\* A caller can pay for its jobs and a filing deposit.  An agent without a paying
\* job has a little money of its own, which its owner can complete.
MCFunds ==
    [order \in Orders |->
        [w \in Names |->
            CASE w = "caller" -> 4 * Cardinality(order \cap {j1, j2, j5})
              [] w = "agent" -> IF order \cap {j1, j2, j5} = {} THEN 2 ELSE 0
              [] w = "owner" -> 1
              [] OTHER -> 0]]

Symmetry == Permutations({j1, j2})
=============================================================================
