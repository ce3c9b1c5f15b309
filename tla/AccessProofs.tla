---------------------------- MODULE AccessProofs ----------------------------
(***************************************************************************)
(* Proofs about permission rules, for paths of every length: the prefix    *)
(* test of Match covers what lies below the rule segment by segment, and   *)
(* Overlap finds exactly the pairs of rules that share a route.            *)
(***************************************************************************)
EXTENDS AccessCheck, SequenceTheorems, WellFoundedInduction, TLAPS

\* strings.HasPrefix, character by character.
LEMMA PrefixElements ==
    ASSUME NEW s \in Seq(STRING), NEW t \in Seq(STRING)
    PROVE  IsPrefix(s, t) <=> Len(s) <= Len(t) /\ \A i \in 1..Len(s) : s[i] = t[i]
<1>1. CASE Len(s) <= Len(t)
  <2>1. /\ SubSeq(s, 1, Len(s)) = [i \in 1..Len(s) |-> s[i]]
        /\ SubSeq(t, 1, Len(s)) = [i \in 1..Len(s) |-> t[i]]
    BY <1>1
  <2> QED
    BY <1>1, <2>1 DEF IsPrefix
<1>2. CASE ~(Len(s) <= Len(t))
  BY <1>2 DEF IsPrefix
<1> QED
  BY <1>1, <1>2

\* A rule's tree is a sequence of characters: its path, with a slash at the end.
LEMMA TreeOf ==
    ASSUME NEW p \in Seq(STRING), PathOK(p)
    PROVE  /\ TreePrefix(p) \in Seq(STRING)
           /\ \A i \in 1..Len(p) : TreePrefix(p)[i] = p[i]
           /\ \/ TreePrefix(p) = p /\ Len(TreePrefix(p)) = Len(p)
              \/ Len(TreePrefix(p)) = Len(p) + 1
<1>1. CASE p[Len(p)] = "/"
  BY <1>1 DEF TreePrefix
<1>2. CASE p[Len(p)] # "/"
  <2>1. TreePrefix(p) = Append(p, "/")
    BY <1>2 DEF TreePrefix
  <2>2. "/" \in STRING
    BY DEF PathOK
  <2>3. Append(p, "/") \in Seq(STRING) /\ Len(Append(p, "/")) = Len(p) + 1
    BY <2>2
  <2>4. \A i \in 1..Len(p) : Append(p, "/")[i] = p[i]
    OBVIOUS
  <2> QED
    BY <2>1, <2>3, <2>4
<1> QED
  BY <1>1, <1>2

\* Of two trees that share a path, the one with the shorter text holds the other's root.
LEMMA NestedTrees ==
    ASSUME NEW p \in Seq(STRING), NEW o \in Seq(STRING), NEW t \in Seq(STRING),
           PathOK(p), PathOK(o),
           IsPrefix(TreePrefix(p), t), IsPrefix(TreePrefix(o), t),
           Len(TreePrefix(p)) <= Len(TreePrefix(o))
    PROVE  p = o \/ IsPrefix(TreePrefix(p), o) \/ IsPrefix(TreePrefix(o), p)
<1> DEFINE a == TreePrefix(p)
           b == TreePrefix(o)
<1>1. /\ a \in Seq(STRING) /\ b \in Seq(STRING)
      /\ \A i \in 1..Len(p) : a[i] = p[i]
      /\ \A i \in 1..Len(o) : b[i] = o[i]
      /\ (a = p /\ Len(a) = Len(p)) \/ Len(a) = Len(p) + 1
      /\ (b = o /\ Len(b) = Len(o)) \/ Len(b) = Len(o) + 1
  BY TreeOf
<1> HIDE DEF a, b
<1>2. /\ Len(a) <= Len(t) /\ \A i \in 1..Len(a) : a[i] = t[i]
      /\ Len(b) <= Len(t) /\ \A i \in 1..Len(b) : b[i] = t[i]
      /\ Len(a) <= Len(b)
  BY <1>1, PrefixElements DEF a, b
<1>3. \A i \in 1..Len(a) : a[i] = b[i]
  BY <1>1, <1>2
<1>4. CASE Len(a) <= Len(o)
  <2>1. \A i \in 1..Len(a) : a[i] = o[i]
    BY <1>1, <1>3, <1>4
  <2> QED
    BY <1>1, <1>4, <2>1, PrefixElements DEF a
<1>5. CASE Len(a) > Len(o) /\ a = p
  <2>1. Len(b) <= Len(p) /\ \A i \in 1..Len(b) : b[i] = p[i]
    BY <1>1, <1>2, <1>3, <1>5
  <2> QED
    BY <1>1, <2>1, PrefixElements DEF b
<1>6. CASE Len(a) > Len(o) /\ a # p
  <2>1. Len(p) = Len(o) /\ \A i \in 1..Len(p) : p[i] = o[i]
    BY <1>1, <1>2, <1>3, <1>6
  <2> QED
    BY <2>1
<1> QED
  BY <1>1, <1>4, <1>5, <1>6

\* Overlap, which tries each rule on the other's own path, misses no pair of rules that
\* share a route.
LEMMA OverlapMissesNone ==
    ASSUME NEW a \in Rules, NEW b \in Rules, NEW q \in Routes, Match(a, q), Match(b, q)
    PROVE  Overlap(a, b)
<1> DEFINE m == q.method
           TP(p) == TreePrefix(p)
<1>1. /\ a.path \in Seq(STRING) /\ b.path \in Seq(STRING) /\ q.path \in Seq(STRING)
      /\ PathOK(a.path) /\ PathOK(b.path)
  BY RuleAssumption, RouteAssumption DEF IsRule
<1>2. /\ m \in a.methods /\ m \in b.methods
      /\ q.path = a.path \/ (a.kind = "subtree" /\ IsPrefix(TP(a.path), q.path))
      /\ q.path = b.path \/ (b.kind = "subtree" /\ IsPrefix(TP(b.path), q.path))
  BY DEF Match
<1>3. /\ b.path = a.path \/ (a.kind = "subtree" /\ IsPrefix(TP(a.path), b.path))
         => Match(a, At(m, b.path))
      /\ a.path = b.path \/ (b.kind = "subtree" /\ IsPrefix(TP(b.path), a.path))
         => Match(b, At(m, a.path))
  BY <1>2 DEF Match, At
<1>4. Match(a, At(m, b.path)) \/ Match(b, At(m, a.path)) => Overlap(a, b)
  BY <1>2 DEF Overlap
<1> HIDE DEF TP
<1>5. CASE q.path = a.path \/ q.path = b.path
  BY <1>2, <1>3, <1>4, <1>5
<1>6. CASE /\ a.kind = "subtree" /\ IsPrefix(TP(a.path), q.path)
           /\ b.kind = "subtree" /\ IsPrefix(TP(b.path), q.path)
  <2>1. Len(TP(a.path)) \in Nat /\ Len(TP(b.path)) \in Nat
    BY <1>1, TreeOf DEF TP
  <2>2. Len(TP(a.path)) <= Len(TP(b.path)) \/ Len(TP(b.path)) <= Len(TP(a.path))
    BY <2>1
  <2>3. \/ a.path = b.path
        \/ IsPrefix(TP(a.path), b.path)
        \/ IsPrefix(TP(b.path), a.path)
    BY <1>1, <1>6, <2>2, NestedTrees DEF TP
  <2> QED
    BY <1>3, <1>4, <1>6, <2>3
<1> QED
  BY <1>2, <1>5, <1>6

\* No route falls under two rules that Overlap keeps apart, and two rules it does not keep
\* apart share the path of one of them.
LEMMA OverlapIsShared ==
    ASSUME RulesAreRoutes, NEW a \in Rules, NEW b \in Rules
    PROVE  Overlap(a, b) <=> \E q \in Routes : Match(a, q) /\ Match(b, q)
<1>1. ASSUME Overlap(a, b) PROVE \E q \in Routes : Match(a, q) /\ Match(b, q)
  <2>1. PICK m \in a.methods :
            m \in b.methods /\ (Match(a, At(m, b.path)) \/ Match(b, At(m, a.path)))
    BY <1>1 DEF Overlap
  <2>2. /\ At(m, a.path) \in Routes /\ At(m, b.path) \in Routes
        /\ Match(a, At(m, a.path)) /\ Match(b, At(m, b.path))
    BY <2>1 DEF RulesAreRoutes, Match, At
  <2> QED
    BY <2>1, <2>2
<1>2. ASSUME NEW q \in Routes, Match(a, q), Match(b, q) PROVE Overlap(a, b)
  BY <1>2, OverlapMissesNone
<1> QED
  BY <1>1, <1>2

\* What addPermission compares are rules.
LEMMA PairsAreRules == PairSpec => [](entered \in Rules /\ existing \in Rules)
<1>1. PairInit => entered \in Rules /\ existing \in Rules
  BY DEF PairInit
<1>2. /\ entered \in Rules /\ existing \in Rules /\ [Compare]_pairVars
      => (entered \in Rules /\ existing \in Rules)'
  BY DEF Compare, pairVars
<1> QED
  BY <1>1, <1>2, PTL DEF PairSpec

\* Overlap finds every pair of rules that share a route and no other, for any rules an owner
\* may enter, so long as a device may ask for what a rule names.
THEOREM OverlapDecides == ASSUME RulesAreRoutes PROVE PairSpec => []OverlapIsComplete
<1>1. entered \in Rules /\ existing \in Rules => OverlapIsComplete
  BY OverlapIsShared DEF OverlapIsComplete
<1> QED
  BY <1>1, PairsAreRules, PTL
-----------------------------------------------------------------------------
\* Every set of numbers has a least one: what the arguments about a loop go by.
LEMMA NatMin ==
    ASSUME NEW T, T \subseteq Nat, T # {}
    PROVE  \E x \in T : \A y \in T : x <= y
<1> DEFINE R == OpToRel(<, Nat)
<1>1. IsWellFoundedOn(R, Nat)
  BY NatLessThanWellFounded
<1>2. \A y, x \in Nat : y < x => <<y, x>> \in R
  BY DEF OpToRel
<1> HIDE DEF R
<1>3. PICK x \in T : \A y \in T : ~(<<y, x>> \in R)
  BY <1>1, WFMin
<1>4. \A y \in T : x \in Nat /\ y \in Nat /\ ~(y < x)
  BY <1>2, <1>3
<1> QED
  BY <1>3, <1>4

\* The first position of a range at which something holds.
LEMMA RangeMin ==
    ASSUME NEW m \in Nat, NEW n \in Nat, NEW T, T \subseteq m..n, T # {}
    PROVE  \E x \in T : \A y \in T : x <= y
<1>1. T \subseteq Nat
  OBVIOUS
<1> QED
  BY <1>1, NatMin

Char == STRING
Text == Seq(Char)
Cutting == Seq(Text)

\* The loop of Segments: what it has cut after each character.
Cuts(p) ==
    CHOOSE f : f = [i \in 0..Len(p) |-> IF i = 0 THEN <<>> ELSE Cut(f[i - 1], p[i])]

\* Segments is what the loop ends with.
LEMMA SegmentsAreCuts == ASSUME NEW p PROVE Segments(p) = Cuts(p)[Len(p)]
  BY DEF Segments, Cuts

\* The loop runs to the end of every text.
LEMMA CutsByStep ==
    ASSUME NEW p \in Text
    PROVE  /\ Cuts(p)[0] = <<>>
           /\ \A i \in 1..Len(p) : Cuts(p)[i] = Cut(Cuts(p)[i - 1], p[i])
<1> DEFINE Run(n, f) == f = [i \in 0..n |-> IF i = 0 THEN <<>> ELSE Cut(f[i - 1], p[i])]
           Stuck == {n \in 0..Len(p) : ~\E f : Run(n, f)}
<1>l. Len(p) \in Nat
  BY DEF Text
<1>1. Stuck = {}
  <2> SUFFICES ASSUME Stuck # {} PROVE FALSE
    OBVIOUS
  <2>0. Stuck \subseteq 0..Len(p)
    OBVIOUS
  <2>1. PICK n \in Stuck : \A y \in Stuck : n <= y
    <3> HIDE DEF Stuck
    <3> QED
      BY <2>0, <1>l, RangeMin
  <2>2. n # 0
    <3> DEFINE f == [i \in 0..0 |-> <<>>]
    <3>1. Run(0, f)
      OBVIOUS
    <3> QED
      BY <2>1, <3>1
  <2>3. PICK f : Run(n - 1, f)
    <3>1. n - 1 \in 0..Len(p) /\ ~(n - 1 \in Stuck)
      <4> HIDE DEF Stuck
      <4> QED
        BY <2>0, <2>1, <2>2, <1>l
    <3> QED
      BY <3>1
  <2> DEFINE g == [i \in 0..n |-> IF i = n THEN Cut(f[n - 1], p[n]) ELSE f[i]]
  <2>4. \A i \in 0..n : g[i] = IF i = 0 THEN <<>> ELSE Cut(g[i - 1], p[i])
    <3> SUFFICES ASSUME NEW i \in 0..n
                 PROVE  g[i] = IF i = 0 THEN <<>> ELSE Cut(g[i - 1], p[i])
      OBVIOUS
    <3>1. n \in Nat /\ n > 0
      BY <2>1, <2>2, <1>l
    <3>2. CASE i = n
      BY <3>1, <3>2
    <3>3. CASE i # n
      <4>1. i \in 0..(n - 1) /\ g[i] = f[i]
        BY <3>1, <3>3
      <4>2. f[i] = IF i = 0 THEN <<>> ELSE Cut(f[i - 1], p[i])
        BY <2>3, <4>1
      <4>3. i # 0 => g[i - 1] = f[i - 1]
        BY <3>1, <4>1
      <4> QED
        BY <4>1, <4>2, <4>3
    <3> QED
      BY <3>2, <3>3
  <2>5. Run(n, g)
    BY <2>4
  <2> QED
    BY <2>1, <2>5
<1>2. Cuts(p) = [i \in 0..Len(p) |-> IF i = 0 THEN <<>> ELSE Cut(Cuts(p)[i - 1], p[i])]
  <2>1. \E f : Run(Len(p), f)
    BY <1>1, <1>l
  <2> QED
    BY <2>1 DEF Cuts
<1> HIDE DEF Run, Stuck
<1> QED
  BY <1>2, <1>l

\* One character makes t of s: a slash begins a segment, any other lengthens the last one.
Lengthens(s, t, c) ==
    /\ s \in Cutting /\ t \in Cutting /\ Len(t) >= 1
    /\ \A k \in 1..(Len(s) - 1) : t[k] = s[k]
    /\ c = "/" => /\ Len(t) = Len(s) + 1
                  /\ t[Len(s) + 1] = <<>>
                  /\ \A k \in 1..Len(s) : t[k] = s[k]
    /\ c # "/" => /\ Len(s) >= 1 /\ Len(t) = Len(s)
                  /\ t[Len(s)] = Append(s[Len(s)], c)

\* Cut does what Lengthens says.
LEMMA CutChar ==
    ASSUME NEW s \in Cutting, NEW c \in Char, c = "/" \/ Len(s) >= 1
    PROVE  Lengthens(s, Cut(s, c), c)
<1>1. CASE c = "/"
  <2>1. <<>> \in Text
    BY DEF Text
  <2>2. Cut(s, c) = Append(s, <<>>)
    BY <1>1 DEF Cut
  <2> QED
    BY <1>1, <2>1, <2>2 DEF Cutting, Lengthens
<1>2. CASE c # "/"
  <2>1. Cut(s, c) = [s EXCEPT ![Len(s)] = Append(s[Len(s)], c)]
    BY <1>2 DEF Cut
  <2>2. Len(s) \in 1..Len(s) /\ s[Len(s)] \in Text
    BY <1>2 DEF Cutting
  <2>3. Append(s[Len(s)], c) \in Text
    BY <2>2 DEF Text
  <2> QED
    BY <1>2, <2>1, <2>2, <2>3 DEF Cutting, Lengthens
<1> QED
  BY <1>1, <1>2

\* A text that begins with a slash: what Path accepts, and a tree's text.
Rooted(p) == p \in Text /\ Len(p) >= 1 /\ p[1] = "/"

\* After the first slash there always is a last segment to lengthen.
LEMMA CutsType ==
    ASSUME NEW p, Rooted(p)
    PROVE  \A i \in 0..Len(p) : Cuts(p)[i] \in Cutting /\ (i >= 1 => Len(Cuts(p)[i]) >= 1)
<1> DEFINE Good(i) == Cuts(p)[i] \in Cutting /\ (i >= 1 => Len(Cuts(p)[i]) >= 1)
           Bad == {i \in 0..Len(p) : ~Good(i)}
<1>l. p \in Text /\ Len(p) \in Nat /\ p[1] = "/" /\ \A i \in 1..Len(p) : p[i] \in Char
  BY DEF Rooted, Text
<1> SUFFICES ASSUME Bad # {} PROVE FALSE
  OBVIOUS
<1>1. PICK i \in Bad : \A y \in Bad : i <= y
  <2>1. Bad \subseteq 0..Len(p)
    OBVIOUS
  <2> HIDE DEF Bad
  <2> QED
    BY <1>l, <2>1, RangeMin
<1>2. i \in 0..Len(p) /\ ~Good(i) /\ i \in Nat
  BY <1>1, <1>l
<1>3. i # 0
  <2>1. <<>> \in Cutting
    BY DEF Cutting
  <2> QED
    BY <1>l, <1>2, <2>1, CutsByStep
<1>4. i - 1 \in 0..Len(p) /\ i \in 1..Len(p) /\ Good(i - 1)
  <2>1. i - 1 \in 0..Len(p) /\ i \in 1..Len(p) /\ ~(i <= i - 1)
    BY <1>l, <1>2, <1>3
  <2> HIDE DEF Good
  <2> QED
    BY <1>1, <2>1
<1>5. p[i] \in Char /\ (p[i] = "/" \/ i - 1 >= 1)
  BY <1>l, <1>4
<1>6. Cuts(p)[i] = Cut(Cuts(p)[i - 1], p[i])
  BY <1>l, <1>4, CutsByStep
<1>7. Good(i)
  BY <1>4, <1>5, <1>6, CutChar DEF Lengthens
<1> QED
  BY <1>2, <1>7

\* What one character does to what has been cut.
LEMMA CutsChar ==
    ASSUME NEW p, Rooted(p), NEW i \in 1..Len(p)
    PROVE  Lengthens(Cuts(p)[i - 1], Cuts(p)[i], p[i])
<1>l. p \in Text /\ Len(p) \in Nat /\ p[1] = "/" /\ p[i] \in Char
  BY DEF Rooted, Text
<1>1. i - 1 \in 0..Len(p) /\ (p[i] = "/" \/ i - 1 >= 1)
  BY <1>l
<1>2. Cuts(p)[i - 1] \in Cutting /\ (p[i] = "/" \/ Len(Cuts(p)[i - 1]) >= 1)
  BY <1>1, CutsType
<1>3. Cuts(p)[i] = Cut(Cuts(p)[i - 1], p[i])
  BY <1>l, CutsByStep
<1> QED
  BY <1>l, <1>2, <1>3, CutChar

\* Cutting on leaves every segment but the last as it is.
LEMMA CutsGrow ==
    ASSUME NEW p, Rooted(p), NEW i \in 0..Len(p), NEW j \in i..Len(p)
    PROVE  /\ Len(Cuts(p)[i]) <= Len(Cuts(p)[j])
           /\ \A k \in 1..(Len(Cuts(p)[i]) - 1) : Cuts(p)[j][k] = Cuts(p)[i][k]
<1> DEFINE C == Cuts(p)
           Good(n) == /\ Len(C[i]) <= Len(C[n])
                      /\ \A k \in 1..(Len(C[i]) - 1) : C[n][k] = C[i][k]
           Bad == {n \in i..Len(p) : ~Good(n)}
<1>l. Len(p) \in Nat /\ i \in Nat
  BY DEF Rooted, Text
<1>c. \A n \in 0..Len(p) : Len(C[n]) \in Nat
  BY CutsType DEF Cutting
<1> SUFFICES ASSUME Bad # {} PROVE FALSE
  OBVIOUS
<1>1. PICK n \in Bad : \A y \in Bad : n <= y
  <2>1. Bad \subseteq i..Len(p)
    OBVIOUS
  <2> HIDE DEF Bad
  <2> QED
    BY <1>l, <2>1, RangeMin
<1>2. n \in i..Len(p) /\ ~Good(n) /\ n \in Nat
  BY <1>1, <1>l
<1>3. n # i
  BY <1>2, <1>c
<1>4. n - 1 \in i..Len(p) /\ n \in 1..Len(p) /\ Good(n - 1)
  <2>1. n - 1 \in i..Len(p) /\ n \in 1..Len(p) /\ ~(n <= n - 1)
    BY <1>l, <1>2, <1>3
  <2> HIDE DEF Good
  <2> QED
    BY <1>1, <2>1
<1>5. Lengthens(C[n - 1], C[n], p[n])
  BY <1>4, CutsChar
<1>6. Len(C[n]) \in Nat /\ Len(C[n - 1]) \in Nat /\ Len(C[i]) \in Nat
  BY <1>c, <1>4, <1>l, <1>2
<1> HIDE DEF C
<1>7. ASSUME NEW k \in 1..(Len(C[i]) - 1) PROVE C[n][k] = C[i][k]
  <2>1. C[n - 1][k] = C[i][k] /\ k \in 1..(Len(C[n - 1]) - 1)
    BY <1>4, <1>6
  <2> QED
    BY <1>5, <2>1 DEF Lengthens
<1>8. Len(C[i]) <= Len(C[n])
  BY <1>4, <1>5, <1>6 DEF Lengthens
<1>9. Good(n)
  BY <1>7, <1>8
<1> QED
  BY <1>2, <1>9

\* The cutting so far depends on the text so far.
LEMMA CutsAgree ==
    ASSUME NEW p \in Text, NEW q \in Text, NEW m \in 0..Len(p), m <= Len(q),
           \A k \in 1..m : p[k] = q[k]
    PROVE  Cuts(p)[m] = Cuts(q)[m]
<1> DEFINE Bad == {n \in 0..m : Cuts(p)[n] # Cuts(q)[n]}
<1>l. Len(p) \in Nat /\ Len(q) \in Nat /\ m \in Nat
  BY DEF Text
<1> SUFFICES ASSUME Bad # {} PROVE FALSE
  BY <1>l
<1>1. PICK n \in Bad : \A y \in Bad : n <= y
  <2>1. Bad \subseteq 0..m
    OBVIOUS
  <2> HIDE DEF Bad
  <2> QED
    BY <1>l, <2>1, RangeMin
<1>2. n \in 0..m /\ Cuts(p)[n] # Cuts(q)[n] /\ n \in Nat
  BY <1>1, <1>l
<1>3. n # 0
  BY <1>2, CutsByStep
<1>4. n - 1 \in 0..m /\ n \in 1..m /\ n \in 1..Len(p) /\ n \in 1..Len(q) /\ ~(n <= n - 1)
  BY <1>l, <1>2, <1>3
<1>5. Cuts(p)[n - 1] = Cuts(q)[n - 1]
  BY <1>1, <1>4
<1>6. Cuts(p)[n] = Cut(Cuts(p)[n - 1], p[n]) /\ Cuts(q)[n] = Cut(Cuts(q)[n - 1], q[n])
  BY <1>4, CutsByStep
<1> QED
  BY <1>2, <1>4, <1>5, <1>6

\* Texts that are alike after one more character were alike before it.
LEMMA AppendOnce ==
    ASSUME NEW w \in Text, NEW c \in Char, NEW x \in Text, NEW d \in Char,
           Append(w, c) = Append(x, d)
    PROVE  w = x /\ c = d
<1> DEFINE a == Append(w, c)
           b == Append(x, d)
<1>1. /\ Len(a) = Len(w) + 1 /\ Len(w) \in Nat
      /\ a[Len(w) + 1] = c /\ \A i \in 1..Len(w) : a[i] = w[i]
      /\ Len(b) = Len(x) + 1 /\ Len(x) \in Nat
      /\ b[Len(x) + 1] = d /\ \A i \in 1..Len(x) : b[i] = x[i]
      /\ a = b
  BY DEF Text
<1> HIDE DEF a, b
<1>2. Len(w) = Len(x) /\ c = d /\ \A i \in 1..Len(w) : w[i] = x[i]
  BY <1>1
<1> QED
  BY <1>2 DEF Text

\* One character can be taken back: what was cut before it, and the character, are known.
LEMMA TakenBack ==
    ASSUME NEW s, NEW u, NEW t, NEW c \in Char, NEW d \in Char,
           Lengthens(s, t, c), Lengthens(u, t, d)
    PROVE  s = u /\ c = d
<1>t. /\ s \in Cutting /\ u \in Cutting /\ t \in Cutting
      /\ Len(s) \in Nat /\ Len(u) \in Nat /\ Len(t) \in Nat /\ Len(t) >= 1
  BY DEF Lengthens, Cutting
<1>1. ASSUME NEW v \in Cutting, NEW e \in Char, Lengthens(v, t, e)
      PROVE  (e = "/" <=> t[Len(t)] = <<>>)
  <2>1. Len(v) \in Nat
    BY DEF Cutting
  <2>2. CASE e = "/"
    BY <1>1, <2>1, <2>2 DEF Lengthens
  <2>3. CASE e # "/"
    <3>1. Len(v) >= 1 /\ Len(t) = Len(v) /\ t[Len(t)] = Append(v[Len(v)], e)
      BY <1>1, <2>3 DEF Lengthens
    <3>2. v[Len(v)] \in Text
      BY <3>1, <2>1 DEF Cutting
    <3>3. Append(v[Len(v)], e) # <<>>
      BY <3>2, AppendProperties DEF Text
    <3> QED
      BY <2>3, <3>1, <3>3
  <2> QED
    BY <2>2, <2>3
<1>2. c = "/" <=> d = "/"
  BY <1>1, <1>t
<1>3. CASE c = "/"
  <2>1. /\ Len(s) = Len(t) - 1 /\ Len(u) = Len(t) - 1
        /\ \A k \in 1..Len(s) : t[k] = s[k]
        /\ \A k \in 1..Len(u) : t[k] = u[k]
    BY <1>2, <1>3, <1>t DEF Lengthens
  <2>2. s = u
    BY <1>t, <2>1 DEF Cutting
  <2> QED
    BY <1>2, <1>3, <2>2
<1>4. CASE c # "/"
  <2>1. /\ Len(s) = Len(t) /\ Len(u) = Len(t)
        /\ \A k \in 1..(Len(t) - 1) : s[k] = u[k]
        /\ t[Len(t)] = Append(s[Len(t)], c) /\ t[Len(t)] = Append(u[Len(t)], d)
    BY <1>2, <1>4, <1>t DEF Lengthens
  <2>2. s[Len(t)] \in Text /\ u[Len(t)] \in Text
    BY <1>t, <2>1 DEF Cutting
  <2>3. s[Len(t)] = u[Len(t)] /\ c = d
    <3>1. Append(s[Len(t)], c) = Append(u[Len(t)], d)
      BY <2>1
    <3> QED
      BY <2>2, <3>1, AppendOnce
  <2>4. \A k \in 1..Len(t) : s[k] = u[k]
    BY <1>t, <2>1, <2>3
  <2>5. s = u
    BY <1>t, <2>1, <2>4 DEF Cutting
  <2> QED
    BY <2>3, <2>5
<1> QED
  BY <1>3, <1>4

\* Texts cut alike are alike.
LEMMA CutsDiffer ==
    ASSUME NEW p, Rooted(p), NEW q, Rooted(q), NEW m \in 0..Len(p), NEW n \in 0..Len(q),
           Cuts(p)[m] = Cuts(q)[n]
    PROVE  m = n /\ \A k \in 1..m : p[k] = q[k]
<1> DEFINE Good(i) ==
               \A j \in 0..Len(q) :
                   Cuts(p)[i] = Cuts(q)[j] => i = j /\ \A k \in 1..i : p[k] = q[k]
           Bad == {i \in 0..Len(p) : ~Good(i)}
<1>l. /\ p \in Text /\ q \in Text /\ Len(p) \in Nat /\ Len(q) \in Nat
      /\ \A i \in 1..Len(p) : p[i] \in Char
      /\ \A i \in 1..Len(q) : q[i] \in Char
  BY DEF Rooted, Text
<1>e. Cuts(p)[0] = <<>> /\ Cuts(q)[0] = <<>> /\ Len(<<>>) = 0
  BY <1>l, CutsByStep
<1> SUFFICES ASSUME Bad # {} PROVE FALSE
  OBVIOUS
<1>1. PICK i \in Bad : \A y \in Bad : i <= y
  <2>1. Bad \subseteq 0..Len(p)
    OBVIOUS
  <2> HIDE DEF Bad
  <2> QED
    BY <1>l, <2>1, RangeMin
<1>2. PICK j \in 0..Len(q) :
          Cuts(p)[i] = Cuts(q)[j] /\ ~(i = j /\ \A k \in 1..i : p[k] = q[k])
  BY <1>1
<1>3. i \in 0..Len(p) /\ i \in Nat /\ j \in Nat
  BY <1>1, <1>l
<1>4. i # 0 /\ j # 0
  <2>1. i >= 1 => Len(Cuts(p)[i]) >= 1
    BY <1>3, CutsType
  <2>2. j >= 1 => Len(Cuts(q)[j]) >= 1
    BY CutsType
  <2>3. i = 0 => j = 0
    BY <1>2, <1>3, <1>e, <2>2
  <2>4. j = 0 => i = 0
    BY <1>2, <1>3, <1>e, <2>1
  <2>5. ~(i = 0 /\ j = 0)
    BY <1>2
  <2> QED
    BY <2>3, <2>4, <2>5
<1>5. /\ i \in 1..Len(p) /\ j \in 1..Len(q) /\ ~(i <= i - 1)
      /\ i - 1 \in 0..Len(p) /\ j - 1 \in 0..Len(q)
  BY <1>l, <1>3, <1>4
<1>6. Lengthens(Cuts(p)[i - 1], Cuts(p)[i], p[i]) /\ Lengthens(Cuts(q)[j - 1], Cuts(q)[j], q[j])
  BY <1>5, CutsChar
<1>7. Cuts(p)[i - 1] = Cuts(q)[j - 1] /\ p[i] = q[j]
  <2>1. /\ p[i] \in Char /\ q[j] \in Char
        /\ Lengthens(Cuts(q)[j - 1], Cuts(p)[i], q[j])
    BY <1>2, <1>5, <1>6, <1>l
  <2> QED
    BY <1>6, <2>1, TakenBack
<1>8. Good(i - 1)
  <2> HIDE DEF Good
  <2> QED
    BY <1>1, <1>5
<1>9. i - 1 = j - 1 /\ \A k \in 1..(i - 1) : p[k] = q[k]
  BY <1>5, <1>7, <1>8
<1> QED
  BY <1>2, <1>3, <1>5, <1>7, <1>9

\* A strict prefix, segment by segment.
LEMMA PrefixCuttings ==
    ASSUME NEW s \in Cutting, NEW t \in Cutting
    PROVE  IsStrictPrefix(s, t) <=> Len(s) < Len(t) /\ \A i \in 1..Len(s) : s[i] = t[i]
<1>l. Len(s) \in Nat /\ Len(t) \in Nat
  BY DEF Cutting
<1>1. CASE Len(s) <= Len(t)
  <2>1. /\ SubSeq(s, 1, Len(s)) = [i \in 1..Len(s) |-> s[i]]
        /\ SubSeq(t, 1, Len(s)) = [i \in 1..Len(s) |-> t[i]]
    BY <1>1 DEF Cutting
  <2>2. IsPrefix(s, t) <=> \A i \in 1..Len(s) : s[i] = t[i]
    BY <1>1, <2>1 DEF IsPrefix
  <2>3. Len(s) = Len(t) /\ (\A i \in 1..Len(s) : s[i] = t[i]) => s = t
    BY DEF Cutting
  <2> QED
    BY <1>l, <1>1, <2>2, <2>3 DEF IsStrictPrefix
<1>2. CASE ~(Len(s) <= Len(t))
  BY <1>l, <1>2 DEF IsStrictPrefix, IsPrefix
<1> QED
  BY <1>1, <1>2

\* The text of a tree ends with a slash, and what is cut before it is what InTree compares.
LEMMA TreeCuts ==
    ASSUME NEW p, Rooted(p), PathOK(p)
    PROVE  /\ Rooted(TreePrefix(p)) /\ TreePrefix(p)[Len(TreePrefix(p))] = "/"
           /\ \A q : InTree(p, q)
                       <=> IsStrictPrefix(Cuts(TreePrefix(p))[Len(TreePrefix(p)) - 1], Segments(q))
<1> DEFINE P == TreePrefix(p)
           n == Len(p)
           ps == Segments(p)
           Base == IF Last(ps) = <<>> THEN Front(ps) ELSE ps
<1>l. p \in Text /\ n \in Nat /\ n >= 1 /\ p[1] = "/" /\ \A i \in 1..n : p[i] \in Char
  BY DEF Rooted, Text
<1>c. "/" \in Char
  BY <1>l
<1>s. ps = Cuts(p)[n] /\ Lengthens(Cuts(p)[n - 1], ps, p[n])
  BY <1>l, SegmentsAreCuts, CutsChar
<1>n. Len(Cuts(p)[n - 1]) \in Nat /\ Len(ps) \in Nat
  BY <1>s DEF Lengthens, Cutting
<1>1. CASE p[n] = "/"
  <2>1. P = p
    BY <1>1 DEF TreePrefix
  <2>2. Base = Cuts(p)[n - 1]
    <3> DEFINE s == Cuts(p)[n - 1]
    <3>1. /\ s \in Cutting /\ ps \in Cutting /\ Len(ps) = Len(s) + 1
          /\ ps[Len(s) + 1] = <<>> /\ \A k \in 1..Len(s) : ps[k] = s[k]
      BY <1>1, <1>s DEF Lengthens
    <3> HIDE DEF s, ps
    <3>2. Base = SubSeq(ps, 1, Len(s))
      BY <3>1, <1>n DEF Last, Front, s
    <3>3. SubSeq(ps, 1, Len(s)) = [k \in 1..Len(s) |-> ps[k]]
      BY <3>1 DEF Cutting
    <3>4. s = [k \in 1..Len(s) |-> s[k]]
      BY <3>1 DEF Cutting
    <3> QED
      BY <3>1, <3>2, <3>3, <3>4 DEF s
  <2> QED
    BY <1>1, <2>1, <2>2 DEF InTree
<1>2. CASE p[n] # "/"
  <2>1. /\ P = Append(p, "/") /\ Rooted(P) /\ Len(P) = n + 1 /\ P[n + 1] = "/"
        /\ \A k \in 1..n : P[k] = p[k]
    BY <1>2, <1>l, <1>c DEF TreePrefix, Rooted, Text
  <2>2. Cuts(P)[n] = Cuts(p)[n]
    <3>1. P \in Text /\ n \in 0..Len(P) /\ n <= Len(p)
      BY <1>l, <2>1 DEF Rooted
    <3> HIDE DEF P
    <3> QED
      BY <1>l, <2>1, <3>1, CutsAgree
  <2>3. Last(ps) # <<>>
    <3>1. ps[Len(ps)] = Append(Cuts(p)[n - 1][Len(ps)], p[n]) /\ Cuts(p)[n - 1][Len(ps)] \in Text
      BY <1>2, <1>s, <1>n DEF Lengthens, Cutting
    <3>2. p[n] \in Char
      BY <1>l
    <3> QED
      BY <3>1, <3>2, AppendProperties DEF Last, Text
  <2> QED
    BY <1>l, <1>s, <2>1, <2>2, <2>3 DEF InTree
<1> QED
  BY <1>1, <1>2

\* A path lies in a tree, segment by segment, exactly when its text begins with the tree's.
LEMMA TreeIsPrefix ==
    ASSUME NEW P, Rooted(P), P[Len(P)] = "/", NEW q, Rooted(q)
    PROVE  IsStrictPrefix(Cuts(P)[Len(P) - 1], Segments(q))
             <=> Len(P) <= Len(q) /\ \A k \in 1..Len(P) : P[k] = q[k]
<1> DEFINE n == Len(P)
           base == Cuts(P)[n - 1]
           C == Cuts(q)
           L == Len(q)
<1>l. /\ P \in Text /\ q \in Text /\ n \in Nat /\ n >= 1 /\ L \in Nat /\ L >= 1
      /\ n - 1 \in 0..n /\ n \in 1..n /\ L \in 1..L
  BY DEF Rooted, Text
<1>t. /\ base \in Cutting /\ Len(base) \in Nat
      /\ \A i \in 0..L : C[i] \in Cutting /\ Len(C[i]) \in Nat
  <2>1. base \in Cutting /\ \A i \in 0..L : C[i] \in Cutting
    BY <1>l, CutsType
  <2>2. \A s \in Cutting : Len(s) \in Nat
    BY DEF Cutting
  <2> QED
    BY <2>1, <2>2
<1>s. Segments(q) = C[L]
  BY SegmentsAreCuts
<1>p. IsStrictPrefix(base, C[L])
        <=> Len(base) < Len(C[L]) /\ \A i \in 1..Len(base) : base[i] = C[L][i]
  <2>1. C[L] \in Cutting
    BY <1>l, <1>t
  <2> HIDE DEF base, C
  <2> QED
    BY <1>t, <2>1, PrefixCuttings
<1>1. ASSUME n <= L, \A k \in 1..n : P[k] = q[k]
      PROVE  Len(base) < Len(C[L]) /\ \A i \in 1..Len(base) : base[i] = C[L][i]
  <2>1. C[n - 1] = base
    <3>1. \A k \in 1..(n - 1) : P[k] = q[k]
      BY <1>1, <1>l
    <3> QED
      BY <1>1, <1>l, <3>1, CutsAgree
  <2>2. n \in 1..L /\ n \in 0..L /\ L \in n..L /\ q[n] = "/"
    BY <1>1, <1>l
  <2>3. Lengthens(base, C[n], "/")
    BY <2>1, <2>2, CutsChar
  <2>4. Len(C[n]) <= Len(C[L]) /\ \A k \in 1..(Len(C[n]) - 1) : C[L][k] = C[n][k]
    BY <2>2, CutsGrow
  <2>5. Len(C[n]) = Len(base) + 1 /\ \A k \in 1..Len(base) : C[n][k] = base[k]
    BY <2>3 DEF Lengthens
  <2>6. Len(C[n]) \in Nat /\ Len(C[L]) \in Nat
    BY <1>t, <1>l, <2>2
  <2> HIDE DEF base, C, L
  <2> QED
    BY <1>t, <2>4, <2>5, <2>6
<1>2. ASSUME Len(base) < Len(C[L]), \A i \in 1..Len(base) : base[i] = C[L][i]
      PROVE  n <= L /\ \A k \in 1..n : P[k] = q[k]
  <2> DEFINE Past == {i \in 0..L : Len(C[i]) > Len(base)}
  <2>1. PICK i \in Past : \A y \in Past : i <= y
    <3>1. Past \subseteq 0..L /\ Past # {}
      BY <1>2, <1>l
    <3> HIDE DEF Past
    <3> QED
      BY <1>l, <3>1, RangeMin
  <2>2. i \in 0..L /\ i \in Nat /\ Len(C[i]) > Len(base)
    BY <2>1, <1>l
  <2>3. i # 0
    <3>1. C[0] = <<>> /\ Len(<<>>) = 0
      BY <1>l, CutsByStep
    <3> QED
      BY <2>2, <3>1, <1>t
  <2>4. i \in 1..L /\ i - 1 \in 0..L /\ L \in i..L /\ ~(i <= i - 1)
    BY <1>l, <2>2, <2>3
  <2>5. ~(Len(C[i - 1]) > Len(base))
    BY <2>1, <2>4
  <2>6. Lengthens(C[i - 1], C[i], q[i])
    BY <2>4, CutsChar
  <2>7. Len(C[i - 1]) \in Nat /\ Len(C[i]) \in Nat /\ C[i - 1] \in Cutting
    BY <1>t, <2>4, <2>2
  <2>8. q[i] = "/"
    BY <1>t, <2>2, <2>5, <2>6, <2>7 DEF Lengthens
  <2>9. /\ Len(C[i]) = Len(C[i - 1]) + 1 /\ Len(C[i - 1]) = Len(base)
        /\ \A k \in 1..Len(C[i - 1]) : C[i][k] = C[i - 1][k]
    BY <1>t, <2>2, <2>5, <2>6, <2>7, <2>8 DEF Lengthens
  <2>10. \A k \in 1..(Len(C[i]) - 1) : C[L][k] = C[i][k]
    BY <2>2, <2>4, CutsGrow
  <2>11. \A k \in 1..Len(base) : C[i - 1][k] = base[k]
    <3> HIDE DEF base, C, L
    <3> QED
      BY <1>2, <1>t, <2>9, <2>10
  <2>12. C[i - 1] = base
    <3>1. \A s, u \in Cutting :
              Len(s) = Len(u) /\ (\A k \in 1..Len(u) : s[k] = u[k]) => s = u
      BY DEF Cutting
    <3> HIDE DEF base, C
    <3> QED
      BY <1>t, <2>7, <2>9, <2>11, <3>1
  <2>13. n - 1 = i - 1 /\ \A k \in 1..(n - 1) : P[k] = q[k]
    BY <1>l, <2>4, <2>12, CutsDiffer
  <2> QED
    BY <1>l, <2>2, <2>4, <2>8, <2>13
<1> HIDE DEF base, C
<1> QED
  BY <1>1, <1>2, <1>p, <1>s DEF base

\* A subtree rule covers, of all paths of any length, the rule's own and those below it
\* segment by segment.
THEOREM SubtreesAreSegmentBounded == PairSpec => []SubtreeIsSegmentBounded
<1>1. ASSUME NEW a \in Rules, NEW q \in Routes
      PROVE  IsPrefix(TreePrefix(a.path), q.path) <=> InTree(a.path, q.path)
  <2> DEFINE p == a.path
             P == TreePrefix(p)
             t == q.path
  <2>1. /\ p \in Seq(STRING) /\ t \in Seq(STRING) /\ PathOK(p) /\ PathOK(t)
    BY RuleAssumption, RouteAssumption DEF IsRule, IsRoute
  <2>2. Rooted(p) /\ Rooted(t)
    BY <2>1 DEF PathOK, Rooted, Text, Char
  <2> HIDE DEF p, t
  <2>3. /\ Rooted(P) /\ P[Len(P)] = "/"
        /\ InTree(p, t) <=> IsStrictPrefix(Cuts(P)[Len(P) - 1], Segments(t))
    BY <2>1, <2>2, TreeCuts
  <2>4. P \in Seq(STRING)
    BY <2>1, TreeOf
  <2> HIDE DEF P
  <2>5. IsPrefix(P, t) <=> Len(P) <= Len(t) /\ \A k \in 1..Len(P) : P[k] = t[k]
    BY <2>1, <2>4, PrefixElements
  <2>6. IsStrictPrefix(Cuts(P)[Len(P) - 1], Segments(t))
          <=> Len(P) <= Len(t) /\ \A k \in 1..Len(P) : P[k] = t[k]
    BY <2>2, <2>3, TreeIsPrefix
  <2> QED
    BY <2>3, <2>5, <2>6 DEF p, t, P
<1>2. entered \in Rules => SubtreeIsSegmentBounded
  BY <1>1 DEF SubtreeIsSegmentBounded, Match
<1> QED
  BY <1>2, PairsAreRules, PTL
=============================================================================
