------------------------------ MODULE MCAgents ------------------------------
(* A small instance of Agents. *)
EXTENDS Agents

RuleA == [methods |-> {"PUT"}, path |-> <<"/", "a">>, kind |-> "exact"]
RouteA == [method |-> "PUT", path |-> <<"/", "a">>]

OneRule == {RuleA}
OneRoute == {RouteA}
=============================================================================
