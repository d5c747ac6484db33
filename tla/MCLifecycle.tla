----------------------------- MODULE MCLifecycle -----------------------------
(* Small instances of Lifecycle for TLC: two modules, a pool, a repository that *)
(* uses it, a durable session that uses the repository and a durable profile    *)
(* that uses the session.                                                       *)
EXTENDS Lifecycle, TLC

CONSTANTS pool, repository, session, profile, root, leaf

MCProviders == {pool, repository, session, profile}
MCDurable == {session, profile}
MCDeps == (pool :> <<>>) @@ (repository :> <<pool>>) @@
          (session :> <<repository>>) @@ (profile :> <<session, pool>>)
MCModules == <<root, leaf>>

\* The graph lists a dependent before what it depends on.
SingletonsOnly == <<repository, pool>>

\* Both durable providers have a partition of the application's own.
EveryProvider == <<repository, pool, profile, session>>
==============================================================================
