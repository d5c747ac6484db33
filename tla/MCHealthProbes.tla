---------------------------- MODULE MCHealthProbes ----------------------------
(* A small application for TLC: what wires an indicator, and the state it was   *)
(* built over, which every dependent follows in construction order.  Reads do   *)
(* not touch each other, so that one reader, who may be cancelled and may read  *)
(* again, stands for all of them.                                               *)
EXTENDS HealthProbes, TLC

CONSTANTS state, wiring, lifecycle, database, r1

MCParticipants == <<state, wiring>>

MCWiring == (state :> Absent) @@ (wiring :> database)
==============================================================================
