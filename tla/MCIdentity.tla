----------------------------- MODULE MCIdentity -----------------------------
(* Small instances of Identity. *)
EXTENDS Identity, TLC

CONSTANTS d1, d2, p1, p2, f1, f2, k1, k2

Symmetry ==
    Permutations({d1, d2} \cap Device) \cup Permutations({p1, p2} \cap Proc)
    \cup Permutations({f1, f2} \cap Path) \cup Permutations({k1, k2} \cap Key)
=============================================================================
