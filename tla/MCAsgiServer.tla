----------------------------- MODULE MCAsgiServer -----------------------------
(* Small instances of AsgiServer for TLC. *)
EXTENDS AsgiServer, TLC

CONSTANTS c1, c2, k1, k2
==============================================================================
