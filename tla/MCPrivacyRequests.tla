------------------------- MODULE MCPrivacyRequests -------------------------
(* Privacy requests on small instances, for TLC: an export of one person's    *)
(* data and the erasure of another, or two erasures of one, with media.       *)
EXTENDS PrivacyRequests, TLC

CONSTANTS x1, e1, e2, w1, w2, m1

SubjectDef == [r \in Request |-> IF r \in Export THEN "export of ada" ELSE "erasure of bob"]
OfDef == [m \in Medium |-> "erasure of bob"]
Symmetry == Permutations({w1, w2})
=============================================================================
