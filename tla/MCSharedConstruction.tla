------------------------- MODULE MCSharedConstruction -------------------------
(* A small instance of SharedConstruction for TLC: a loop with two tasks and a  *)
(* synchronous call made on it, and a thread.                                   *)
EXTENDS SharedConstruction

CONSTANTS t1, t2, s1, s2, loop, pool, key, own

MCThreads == {loop, pool}
MCThreadOf == [c \in Callers |-> IF c = s1 THEN pool ELSE loop]

\* The synchronous call on the loop asks for a slot of the request it serves.
RequestKey == [c \in Callers |-> IF c = s2 THEN own ELSE key]
==============================================================================
