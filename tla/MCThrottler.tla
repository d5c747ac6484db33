----------------------------- MODULE MCThrottler -----------------------------
(* Small instances of Throttler for TLC. *)
EXTENDS Throttler, TLC

CONSTANTS c1, c2, px, py, open, own, none, free, h1, h2, h3, h4

\* A client may send nothing, another's address, or something that is no address.
SomeClaims == {<<>>, <<c2>>, <<Garbage>>}
SomePaths == {<<>>, <<px>>, <<px, py>>}

OneEach == open :> h1 @@ own :> h2 @@ none :> h3 @@ free :> h4

\* Two requests a second for the application, one for the route of its own,
\* and a route that is closed to everybody.
Budgets == None :> [limit |-> 2, ttl |-> 1] @@ own :> [limit |-> 1, ttl |-> 1]
              @@ none :> [limit |-> 0, ttl |-> 1]

\* A handler two controllers inherit, each declaring a budget of its own.
Inherited == open :> h1 @@ own :> h2 @@ none :> h2 @@ free :> h4
TwoBudgets == None :> [limit |-> 2, ttl |-> 2] @@ own :> [limit |-> 2, ttl |-> 2]
                 @@ none :> [limit |-> 1, ttl |-> 1]
==============================================================================
