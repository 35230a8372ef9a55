-------------------------- MODULE MCRepoCommands ----------------------------
(* A list with a task and a service, one that looks the same and makes the *)
(* task a service, and one that keeps the service only.                    *)
EXTENDS RepoCommands, TLC

CONSTANTS full, alike, short, seed, serve, go

As(name, background) == [name |-> name, argv |-> go, background |-> background]
MCCommands ==
  full :> {As(seed, FALSE), As(serve, TRUE)} @@ short :> {As(serve, TRUE)}
    @@ alike :> {As(seed, TRUE), As(serve, TRUE)}
=============================================================================
