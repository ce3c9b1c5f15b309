------------------------------ MODULE MCAccess ------------------------------
(* Every path of at most four characters over a slash, a letter and a dot. *)
EXTENDS AccessCheck

MCPaths ==
    { p \in UNION { [1..n -> {"/", "a", "."}] : n \in 1..4 } : PathOK(p) }

MCMethods == {"GET", "PUT"}

MCRules ==
    [methods : (SUBSET MCMethods) \ {{}}, path : MCPaths, kind : {"exact", "subtree"}]

MCRoutes == [method : MCMethods, path : MCPaths]

ASSUME MCRoutesEnough == RulesAreRoutes
=============================================================================
