-------------------------- MODULE MCRequestExecution --------------------------
(* Small instances of RequestExecution for TLC. *)
EXTENDS RequestExecution, TLC

CONSTANTS r1, r2, r3, p1, p2

\* Two callers of one partition and one of another.
TwoAndOne == r1 :> p1 @@ r2 :> p1 @@ r3 :> p2
==============================================================================
