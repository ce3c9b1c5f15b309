----------------------------- MODULE AccessCheck -----------------------------
(***************************************************************************)
(* Match and Overlap against reference definitions, over every pair of     *)
(* rules and every route of the instance. The state is the pair of rules   *)
(* that addPermission compares: the one entered and one already active.    *)
(***************************************************************************)
EXTENDS Access

VARIABLES entered, existing

pairVars == <<entered, existing>>

PairInit == entered \in Rules /\ existing \in Rules

Compare == existing' \in Rules /\ UNCHANGED entered

PairSpec == PairInit /\ [][Compare]_pairVars
-----------------------------------------------------------------------------
\* The segments of a path: every slash begins one, every other character goes on the last.
Cut(segments, c) ==
    IF c = "/" THEN Append(segments, <<>>)
    ELSE [segments EXCEPT ![Len(segments)] = Append(@, c)]
Segments(p) ==
    LET upTo[i \in 0..Len(p)] == IF i = 0 THEN <<>> ELSE Cut(upTo[i - 1], p[i])
    IN  upTo[Len(p)]

\* Whether q lies in the tree of p, segment by segment: the segments of p, less the
\* empty one a trailing slash leaves, begin those of q, and q goes on after them.
InTree(p, q) ==
    LET ps == Segments(p)
        base == IF Last(ps) = <<>> THEN Front(ps) ELSE ps
    IN  IsStrictPrefix(base, Segments(q))

\* A subtree rule is bounded by segments: Match (access.go), a prefix test on the text,
\* covers a route exactly when the route's path is the rule's or lies below it.
SubtreeIsSegmentBounded ==
    \A q \in Routes :
        Match(entered, q) <=>
            /\ q.method \in entered.methods
            /\ \/ q.path = entered.path
               \/ entered.kind = "subtree" /\ InTree(entered.path, q.path)

\* Overlap (access.go), which only tries each rule on the other's own path, finds every
\* pair of rules that some route falls under both of, and no other: Authorize therefore
\* never has to choose between two rules.
OverlapIsComplete ==
    Overlap(entered, existing) <=> \E q \in Routes : Match(entered, q) /\ Match(existing, q)

\* Requests and rules go through the same Path and the same list of methods, so a device
\* may ask for what a rule names.
RulesAreRoutes == \A a \in Rules : \A m \in a.methods : At(m, a.path) \in Routes
=============================================================================
