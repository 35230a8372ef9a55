--------------------------- MODULE MCDocumentSync ---------------------------
(* One tab, one document: the instance TLC checks.                         *)
EXTENDS DocumentSync, TLC

CONSTANTS c1, c2

(* One free slot is as good as another.                                    *)
Slots == Permutations({c1, c2})
=============================================================================
