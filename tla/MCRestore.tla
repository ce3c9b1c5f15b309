------------------------------ MODULE MCRestore ------------------------------
(* A small instance of Restore: standing and approved requests on one path. *)
EXTENDS Restore

CONSTANTS d1, d2, p1, p2, r1, r2

RuleA == [methods |-> {"PUT"}, path |-> <<"/", "a">>, kind |-> "exact"]
RouteA == [method |-> "PUT", path |-> <<"/", "a">>]

OneRule == {RuleA}
OneRoute == {RouteA}

Symmetry == Permutations({d1, d2}) \cup Permutations({p1, p2} \cap PermId) \cup Permutations({r1, r2})
=============================================================================
