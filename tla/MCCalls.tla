------------------------------- MODULE MCCalls -------------------------------
(* Instances of Calls for TLC: two requests of one client and one worker. *)
EXTENDS Calls, TLC

CONSTANTS r1, r2

Ask(k, b, h, n) == [kind |-> k, body |-> b, host |-> h, max_attempts |-> n]
Mix(a1, a2) == (r1 :> a1 @@ r2 :> a2)
Twice(k) == Mix(Ask(k, "b1", "h1", 1), Ask(k, "b1", "h1", 1))
MCMixes ==
    {Twice(k) : k \in {"builtin", "batch", "withdraw"}}
    \cup {Mix(Ask("builtin", "b1", "h1", 1), Ask("remote", "b1", "h2", 1)),
          Mix(Ask("create", "b1", "h1", 2), Ask("remote", "b1", "h1", 1)),
          Mix(Ask("batch", "b1", "h1", 2), Ask("withdraw", "b1", "h2", 1)),
          Mix(Ask("withdraw", "b1", "h1", 1), Ask("withdraw", "b2", "h2", 1))}
=============================================================================
