------------------------ MODULE MCExecutionRegistry ------------------------
EXTENDS ExecutionRegistry, TLC

CONSTANTS alice, bob, e1, e2, e3

MCOwner == e1 :> alice @@ e2 :> alice @@ e3 :> bob
MCOwnerTwo == e1 :> alice @@ e2 :> alice
=============================================================================
