----------------------------- MODULE MCDomains ------------------------------
(* One datasource with one object: the instance TLC checks.  Names, ids    *)
(* and objects are interchangeable.                                        *)
EXTENDS Domains, TLC

Interchangeable ==
  Permutations(Names) \cup Permutations(Ids) \cup Permutations(Objects)
=============================================================================
