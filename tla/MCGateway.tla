------------------------------ MODULE MCGateway ------------------------------
(* Small instances of Gateway: one service rooted at /, rules on /a and    *)
(* the tree below it.                                                      *)
EXTENDS Gateway

CONSTANTS d1, d2, p1, p2, r1, r2, r3, j1, j2, j3, k1, k2, k3, h1, h2, b1, b2

PathA == <<"/", "a">>
PathAB == <<"/", "a", "/", "b">>

RuleA == [methods |-> {"PUT"}, path |-> PathA, kind |-> "exact"]
RuleTree == [methods |-> {"PUT"}, path |-> PathA, kind |-> "subtree"]
RuleAB == [methods |-> {"PUT"}, path |-> PathAB, kind |-> "exact"]

RouteA == [method |-> "PUT", path |-> PathA]
RouteAB == [method |-> "PUT", path |-> PathAB]

OneRule == {RuleA}
TwoRules == {RuleTree, RuleAB}
OneRoute == {RouteA}
TwoRoutes == {RouteA, RouteAB}

Symmetry ==
    Permutations({d1, d2} \cap Device) \cup Permutations({p1, p2} \cap PermId)
    \cup Permutations({r1, r2, r3} \cap ReqId) \cup Permutations({j1, j2, j3} \cap Job)
    \cup Permutations({k1, k2, k3} \cap Key) \cup Permutations({h1, h2} \cap Handler)
    \cup Permutations({b1, b2} \cap Body)
=============================================================================
