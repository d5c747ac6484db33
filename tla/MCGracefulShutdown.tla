-------------------------- MODULE MCGracefulShutdown --------------------------
(* Small instances of GracefulShutdown for TLC. *)
EXTENDS GracefulShutdown, TLC

CONSTANTS r1, r2, c1, c2

\* Nothing tells one request from another, nor one call of close().
Alike == Permutations({r1, r2}) \union Permutations({c1, c2})
==============================================================================
