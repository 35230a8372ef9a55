-------------------------- MODULE MCProjectRoles ----------------------------
(* Two accounts and one role of the project's own: what TLC checks.      *)
EXTENDS ProjectRoles
=============================================================================
