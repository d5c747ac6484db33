--------------------------- MODULE ApplicationCycle ---------------------------
(***************************************************************************)
(* What starting and stopping an application promises whoever uses it,     *)
(* whatever runs its lifecycle and however often it is started again.      *)
(*                                                                         *)
(* An application is stopped, starting, running or stopping.  Instances    *)
(* come to be while it starts or runs; a cycle ends with none of them      *)
(* left, and nothing comes to be until the next one begins.                *)
(***************************************************************************)

CONSTANT Providers    \* what the application can build an instance of

VARIABLES phase,      \* "stopped", "starting", "running" or "stopping"
          alive       \* the providers an instance is kept of

cycleVars == <<phase, alive>>

Init == phase = "stopped" /\ alive = {}

Begin == /\ phase = "stopped"
         /\ phase' = "starting"
         /\ UNCHANGED alive

Make(p) == /\ phase \in {"starting", "running"}
           /\ p \notin alive
           /\ alive' = alive \union {p}
           /\ UNCHANGED phase

Ready == /\ phase = "starting"
         /\ phase' = "running"
         /\ UNCHANGED alive

\* A startup that fails is undone; a running application is stopped.
Stop == /\ phase \in {"starting", "running"}
        /\ phase' = "stopping"
        /\ UNCHANGED alive

Finish == /\ phase = "stopping"
          /\ phase' = "stopped"
          /\ alive' = {}

Next == Begin \/ Ready \/ Stop \/ Finish \/ \E p \in Providers : Make(p)

Spec == Init /\ [][Next]_cycleVars
==============================================================================
