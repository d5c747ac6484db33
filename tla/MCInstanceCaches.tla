---------------------------- MODULE MCInstanceCaches ----------------------------
(* A small instance of InstanceCaches for TLC: a guard that holds a transient that *)
(* holds a singleton, and a controller that holds the transient too.               *)
EXTENDS InstanceCaches, TLC

CONSTANTS r1, r2, guard, helper, store, controller, plain, mixed

Holds == guard :> <<helper>> @@ helper :> <<store>> @@ store :> <<>> @@ controller :> <<helper>>
Pipelines == plain :> <<guard>> @@ mixed :> <<guard, helper>>
GraphOrder == <<guard, store>>
Alike == Permutations(Requests)
===============================================================================
