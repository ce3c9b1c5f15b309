------------------------------- MODULE Access -------------------------------
(***************************************************************************)
(* Permission rules and the routes they cover (internal/access/access.go). *)
(* A path is the sequence of its characters, because what a subtree rule   *)
(* covers is decided by a string prefix test. A route is what a device     *)
(* asks for, a method and a path; a rule is the method list, path and path *)
(* kind of one permission row.                                             *)
(***************************************************************************)
EXTENDS Naturals, Sequences, SequencesExt

CONSTANTS Rules,    \* the rules an owner may enter
          Routes    \* the routes a device may ask for

\* A segment of one or two dots, from the slash at i up to the next slash or the end.
DotSegment(p) ==
    \E i \in 1..Len(p), n \in {1, 2} :
        /\ i + n <= Len(p) /\ p[i] = "/"
        /\ \A k \in 1..n : p[i + k] = "."
        /\ i + n = Len(p) \/ p[i + n + 1] = "/"

\* What Path accepts: an absolute path without an empty, "." or ".." segment. The set of
\* characters it allows is left out; no other operator looks at them.
PathOK(p) ==
    /\ p # <<>> /\ p[1] = "/"
    /\ \A i \in 1..(Len(p) - 1) : p[i] # "/" \/ p[i + 1] # "/"
    /\ ~DotSegment(p)

IsRoute(q) == PathOK(q.path)

\* Methods refuses an empty list, and addPermission any other kind.
IsRule(a) ==
    /\ a.methods # {}
    /\ PathOK(a.path)
    /\ a.kind \in {"exact", "subtree"}

ASSUME RuleAssumption ==
    \A a \in Rules :
        /\ a.path \in Seq(STRING)
        /\ IsRule(a)

ASSUME RouteAssumption ==
    \A q \in Routes : q.path \in Seq(STRING) /\ IsRoute(q)
-----------------------------------------------------------------------------
\* A subtree that takes any path beginning with the rule's own text.
TreePrefixUnbounded(p) == p

\* strings.TrimSuffix(p, "/") + "/"
TreePrefix(p) == IF p[Len(p)] = "/" THEN p ELSE Append(p, "/")

Match(a, q) ==
    /\ q.method \in a.methods
    /\ \/ q.path = a.path
       \/ a.kind = "subtree" /\ IsPrefix(TreePrefix(a.path), q.path)

At(m, p) == [method |-> m, path |-> p]

\* The overlap test that asks only whether the older rule covers the new path.
OverlapOneSided(a, b) ==
    \E m \in a.methods : m \in b.methods /\ Match(b, At(m, a.path))

Overlap(a, b) ==
    \E m \in a.methods :
        /\ m \in b.methods
        /\ Match(a, At(m, b.path)) \/ Match(b, At(m, a.path))
=============================================================================
