---------------------------- MODULE OwnerProofs ----------------------------
(***************************************************************************)
(* Proofs that a logged-out session stays out, for any number of tokens,   *)
(* concurrent requests, backups and restores, and that the throttle's      *)
(* sliding window lets no more logins through than its limit.              *)
(***************************************************************************)
EXTENDS Owner, SequenceTheorems, WellFoundedInduction, TLAPS

USE DEF memoryVars

\* Every set of numbers has a least one: what the arguments about a loop go by.
LEMMA NatMin ==
    ASSUME NEW T, T \subseteq Nat, T # {}
    PROVE  \E x \in T : \A y \in T : x <= y
<1> DEFINE R == OpToRel(<, Nat)
<1>1. IsWellFoundedOn(R, Nat)
  BY NatLessThanWellFounded
<1>2. \A y, x \in Nat : y < x => <<y, x>> \in R
  BY DEF OpToRel
<1> HIDE DEF R
<1>3. PICK x \in T : \A y \in T : ~(<<y, x>> \in R)
  BY <1>1, WFMin
<1>4. \A y \in T : x \in Nat /\ y \in Nat /\ ~(y < x)
  BY <1>2, <1>3
<1> QED
  BY <1>3, <1>4

\* What throttle's loop computes on a list in the order of the clock: it drops the first c
\* entries, which are a minute old, and keeps the others, which are not.
LEMMA ThrottleDropsOld ==
    ASSUME now \in Time, throttles \in Seq(Time),
           \A j \in 1..Len(throttles) : \A k \in 1..j : throttles[k] <= throttles[j]
    PROVE  \E c \in 0..Len(throttles) :
               /\ throttle \in Seq(Time) /\ Len(throttle) = Len(throttles) - c
               /\ \A j \in 1..Len(throttle) : throttle[j] = throttles[c + j]
               /\ \A j \in 1..c : now - throttles[j] >= Minute
<1> DEFINE n == Len(throttles)
           Old(j) == ~(now - throttles[j] < Minute)
           Starts == {k \in 0..n : \A j \in 1..n : j > k => ~Old(j)}
<1>t. n \in Nat /\ \A j \in 1..n : throttles[j] \in Time /\ throttles[j] \in Nat
  BY OwnerAssumption DEF Time
<1>n. now \in Nat /\ Minute \in Nat
  BY OwnerAssumption DEF Time
<1>1. PICK c \in Starts : \A y \in Starts : c <= y
  <2>1. n \in Starts /\ Starts \subseteq Nat
    BY <1>t
  <2> QED
    BY <2>1, NatMin
<1>2. c \in 0..n /\ \A j \in 1..n : j > c => ~Old(j)
  BY <1>1
<1>3. \A j \in 1..c : Old(j)
  <2>1. ASSUME c # 0, ~Old(c) PROVE FALSE
    <3>1. c - 1 \in Starts
      BY <1>2, <2>1, <1>t
    <3>2. c <= c - 1
      BY <1>1, <3>1
    <3> QED
      BY <1>2, <1>t, <3>2
  <2>2. ASSUME NEW j \in 1..c PROVE Old(j)
    <3>1. Old(c) /\ throttles[j] <= throttles[c] /\ c \in 1..n /\ j \in 1..n
      BY <1>2, <1>t, <2>1, <2>2
    <3> QED
      BY <1>t, <1>n, <3>1
  <2> QED
    BY <2>2
<1> DEFINE Body(f) == [i \in 0..n |->
                          IF i = 0 THEN <<>>
                          ELSE IF now - throttles[i] < Minute
                               THEN Append(f[i - 1], throttles[i]) ELSE f[i - 1]]
           g == [i \in 0..n |-> IF i <= c THEN <<>> ELSE [j \in 1..(i - c) |-> throttles[c + j]]]
<1>g. ASSUME NEW i \in 0..n
      PROVE  /\ i <= c => g[i] = <<>>
             /\ i > c => g[i] = [j \in 1..(i - c) |-> throttles[c + j]]
             /\ g[i] \in Seq(Time) /\ Len(g[i]) = IF i <= c THEN 0 ELSE i - c
  BY <1>2, <1>t
<1>4. g = Body(g)
  <2>1. ASSUME NEW i \in 0..n PROVE g[i] = Body(g)[i]
    <3>1. CASE i = 0
      BY <1>2, <1>t, <3>1
    <3>2. CASE i # 0 /\ i <= c
      <4>1. i \in 1..c /\ i - 1 \in 0..n /\ i - 1 <= c
        BY <1>2, <1>t, <3>2
      <4>2. g[i] = <<>> /\ g[i - 1] = <<>> /\ Old(i)
        BY <1>g, <1>3, <4>1, <3>2
      <4> HIDE DEF g
      <4> QED
        BY <3>2, <4>2
    <3>3. CASE i > c
      <4>1. i # 0 /\ i - 1 \in 0..n /\ i \in 1..n /\ ~Old(i)
        BY <1>2, <1>t, <3>3
      <4>2. Body(g)[i] = Append(g[i - 1], throttles[i])
        BY <4>1
      <4>3. g[i] = [j \in 1..(i - c) |-> throttles[c + j]]
        BY <1>g, <3>3
      <4>4. g[i - 1] \in Seq(Time) /\ Len(g[i - 1]) = (i - 1) - c
            /\ \A j \in 1..((i - 1) - c) : g[i - 1][j] = throttles[c + j]
        BY <1>2, <1>t, <3>3, <4>1
      <4>5. g[i] \in Seq(Time) /\ Len(g[i]) = i - c
            /\ \A j \in 1..(i - c) : g[i][j] = throttles[c + j]
        BY <1>2, <1>t, <3>3, <4>1, <4>3
      <4> HIDE DEF g
      <4>6. throttles[i] \in Time /\ i - c \in Nat /\ c + (i - c) = i
        BY <1>2, <1>t, <3>3, <4>1
      <4>7. Append(g[i - 1], throttles[i]) = g[i]
        <5> DEFINE a == Append(g[i - 1], throttles[i])
        <5>1. /\ a \in Seq(Time) /\ Len(a) = i - c
              /\ \A j \in 1..((i - 1) - c) : a[j] = throttles[c + j]
              /\ a[i - c] = throttles[i]
          BY <4>4, <4>6, <1>2, <1>t, <4>1
        <5> HIDE DEF a
        <5>2. \A j \in 1..(i - c) : j \in 1..((i - 1) - c) \/ j = i - c
          BY <4>6, <1>2, <1>t
        <5>3. \A j \in 1..(i - c) : a[j] = throttles[c + j]
          BY <5>1, <5>2, <4>6
        <5>4. a = g[i]
          BY <4>5, <5>1, <5>3, SeqEqual
        <5> QED
          BY <5>4 DEF a
      <4> QED
        BY <4>2, <4>7
    <3> QED
      BY <1>2, <1>t, <3>1, <3>2, <3>3
  <2> QED
    BY <2>1
<1>5. \A f : f = Body(f) => f = g
  <2> SUFFICES ASSUME NEW f, f = Body(f), f # g PROVE FALSE
    OBVIOUS
  <2> DEFINE Differ == {i \in 0..n : f[i] # g[i]}
  <2>1. Differ # {}
    <3>1. f = [i \in 0..n |-> f[i]] /\ g = [i \in 0..n |-> g[i]]
      OBVIOUS
    <3> QED
      BY <3>1
  <2>2. PICK i \in Differ : \A y \in Differ : i <= y
    <3>1. Differ \subseteq Nat
      BY <1>t
    <3> HIDE DEF Differ
    <3> QED
      BY <2>1, <3>1, NatMin
  <2>3. f[i] = Body(f)[i] /\ g[i] = Body(g)[i] /\ i \in 0..n
    BY <1>4, <2>2
  <2> HIDE DEF g
  <2>4. i # 0
    BY <2>2, <2>3, <1>4
  <2>5. i - 1 \in 0..n /\ i - 1 \notin Differ
    BY <1>t, <2>2, <2>4
  <2>6. f[i - 1] = g[i - 1]
    BY <2>5
  <2> QED
    BY <2>2, <2>3, <2>6, <2>4
<1>6. throttle = g[n]
  <2>1. throttle = (CHOOSE f : f = Body(f))[n]
    BY DEF throttle
  <2> HIDE DEF g, Body
  <2> QED
    BY <1>4, <1>5, <2>1
<1>7. n \in 0..n
  BY <1>t
<1> QED
  BY <1>2, <1>3, <1>6, <1>7, <1>t, <1>n, <1>g

\* The owner's handlers, one step of one of them.
LEMMA ServeStep ==
    ASSUME SessionInv, NEW h \in Handler, NEW from, NEW to \in Request \cup {NoRequest},
           Serve(h, from, to)
    PROVE  /\ handlers' \in [Handler -> Request \cup {NoRequest}]
           /\ handlers'[h] = to /\ \A k \in Handler : k # h => handlers'[k] = handlers[k]
           /\ phase = "up" /\ handlers[h] \in from
  BY DEF SessionInv, Serve

LEMMA RequestShapes ==
    /\ [pc |-> "login"] \in Request /\ NoRequest \notin Request
    /\ \A t \in Token : /\ [pc |-> "owner", token |-> t] \in Request
                        /\ [pc |-> "owner", token |-> t] # [pc |-> "login"]
                        /\ [pc |-> "owner", token |-> t] # NoRequest
<1>1. [pc |-> "login"] \in Request /\ NoRequest \notin Request
  BY OwnerAssumption DEF Request
<1>2. ASSUME NEW t \in Token
      PROVE  /\ [pc |-> "owner", token |-> t] \in Request
             /\ [pc |-> "owner", token |-> t].pc = "owner"
             /\ [pc |-> "login"].pc = "login"
  BY DEF Request
<1> QED
  BY <1>1, <1>2, OwnerAssumption

LEMMA SessionStep == ASSUME SessionInv, Next PROVE SessionInv'
<1> DEFINE O(t) == [pc |-> "owner", token |-> t]
<1>i. /\ now \in Time /\ phase \in {"down", "up", "restored"}
      /\ sessions \in Table /\ backup \in Table
      /\ ended \subseteq minted /\ minted \subseteq Token
      /\ handlers \in [Handler -> Request \cup {NoRequest}]
      /\ phase # "restored" => \A t \in ended : sessions[t] = NoSession
      /\ \A h \in Handler, t \in Token : handlers[h] = O(t) => t \in minted
      /\ \A t \in Token \ minted : sessions[t] = NoSession /\ backup[t] = NoSession
  BY DEF SessionInv
<1>r. /\ [pc |-> "login"] \in Request /\ NoRequest \notin Request
      /\ \A t \in Token : O(t) \in Request /\ O(t) # [pc |-> "login"] /\ O(t) # NoRequest
  BY RequestShapes
<1>h. ASSUME NEW h \in Handler, NEW from, NEW to \in {[pc |-> "login"], NoRequest},
             Serve(h, from, to), minted \subseteq minted'
      PROVE  /\ handlers' \in [Handler -> Request \cup {NoRequest}] /\ phase = "up"
             /\ handlers[h] \in from
             /\ \A k \in Handler, t \in Token : handlers'[k] = O(t) => t \in minted'
  <2> HIDE DEF O
  <2>1. to \in Request \cup {NoRequest}
    BY <1>r
  <2>2. /\ handlers' \in [Handler -> Request \cup {NoRequest}] /\ handlers'[h] = to
        /\ \A k \in Handler : k # h => handlers'[k] = handlers[k]
        /\ phase = "up" /\ handlers[h] \in from
    BY <1>h, <2>1, ServeStep
  <2> QED
    BY <1>h, <1>i, <1>r, <2>2
<1>1. ASSUME NEW h \in Handler, LoginAsk(h) \/ LoginRefused(h) \/ Act(h) PROVE SessionInv'
  <2>1. /\ UNCHANGED <<now, phase, sessions, backup, minted, ended>>
        /\ \E from, to : to \in {[pc |-> "login"], NoRequest} /\ Serve(h, from, to)
    BY <1>1 DEF LoginAsk, LoginRefused, Act
  <2> QED
    BY <1>h, <1>i, <2>1 DEF SessionInv
<1>2. ASSUME NEW h \in Handler, login(h) PROVE SessionInv'
  <2>1. PICK u \in Token \ minted :
            /\ sessions' = [sessions EXCEPT ![u] = now + SessionLife]
            /\ minted' = minted \cup {u}
            /\ now + SessionLife <= MaxTime
            /\ Serve(h, {[pc |-> "login"]}, NoRequest)
            /\ UNCHANGED <<phase, backup, ended>>
    BY <1>2 DEF login
  <2>2. now + SessionLife \in Time
    BY <1>i, <2>1, OwnerAssumption DEF Time
  <2>3. sessions' \in Table
    BY <1>i, <2>1, <2>2 DEF Table
  <2>4. now' = now
    BY <1>2 DEF login
  <2> QED
    BY <1>h, <1>i, <2>1, <2>3, <2>4 DEF SessionInv
<1>3. ASSUME NEW h \in Handler, NEW u \in Token, OwnerRequest(h, u) PROVE SessionInv'
  <2>1. /\ u \in minted /\ O(u) \in Request \cup {NoRequest}
        /\ UNCHANGED <<now, phase, sessions, backup, minted, ended>>
        /\ Serve(h, {NoRequest}, O(u))
    BY <1>3, <1>i, <1>r DEF OwnerRequest, Live
  <2>2. /\ handlers' \in [Handler -> Request \cup {NoRequest}] /\ handlers'[h] = O(u)
        /\ \A k \in Handler : k # h => handlers'[k] = handlers[k]
    BY <2>1, ServeStep
  <2>3. \A t \in Token : O(t) = O(u) => t = u
    <3>1. \A t \in Token : O(t).token = t /\ O(u).token = u
      OBVIOUS
    <3> QED
      BY <3>1
  <2> HIDE DEF O
  <2>4. \A k \in Handler, t \in Token : handlers'[k] = O(t) => t \in minted'
    BY <1>i, <2>1, <2>2, <2>3
  <2> QED
    BY <1>i, <2>1, <2>2, <2>4 DEF SessionInv, O
<1>4. ASSUME NEW h \in Handler, Logout(h) PROVE SessionInv'
  <2> DEFINE u == handlers[h].token
  <2>1. /\ handlers[h] \in [pc : {"owner"}, token : Token]
        /\ Serve(h, [pc : {"owner"}, token : Token], NoRequest)
        /\ sessions' = [sessions EXCEPT ![u] = NoSession]
        /\ ended' = ended \cup {u}
        /\ UNCHANGED <<now, phase, backup, minted>>
    BY <1>4 DEF Logout, Serve
  <2>2. u \in Token /\ handlers[h] = O(u)
    BY <2>1
  <2>3. u \in minted
    BY <1>i, <2>2
  <2>4. sessions' \in Table /\ sessions'[u] = NoSession
        /\ \A t \in Token : t # u => sessions'[t] = sessions[t]
    BY <1>i, <2>1, <2>2 DEF Table
  <2>5. /\ handlers' \in [Handler -> Request \cup {NoRequest}] /\ phase = "up"
        /\ \A k \in Handler, t \in Token : handlers'[k] = O(t) => t \in minted'
    BY <1>h, <2>1
  <2>6. \A t \in ended' : sessions'[t] = NoSession
    BY <1>i, <2>1, <2>4, <2>5
  <2> QED
    BY <1>i, <2>1, <2>3, <2>4, <2>5, <2>6 DEF SessionInv
<1>5. CASE maintenance
  <2>1. /\ sessions' = [t \in Token |-> IF Live(t) THEN sessions[t] ELSE NoSession]
        /\ UNCHANGED <<now, phase, backup, minted, ended, handlers>>
    BY <1>5 DEF maintenance
  <2>2. sessions' \in Table
    BY <1>i, <2>1 DEF Table
  <2> QED
    BY <1>i, <2>1, <2>2 DEF SessionInv, Live
<1>6. CASE TakeBackup \/ Restore \/ Start
  BY <1>6, <1>i DEF TakeBackup, Restore, Start, SessionInv
<1>7. CASE RecoverRestored
  <2>1. sessions' \in Table
    BY <1>7 DEF RecoverRestored, Table
  <2> QED
    BY <1>7, <1>i, <2>1 DEF RecoverRestored, SessionInv
<1>8. CASE Down
  BY <1>8, <1>i, <1>r DEF Down, SessionInv
<1>9. CASE Tick
  BY <1>9, <1>i, OwnerAssumption DEF Tick, SessionInv, Time
<1> QED
  BY <1>1, <1>2, <1>3, <1>4, <1>5, <1>6, <1>7, <1>8, <1>9 DEF Next

\* Sessions that were logged out have no row where one could be found.
THEOREM SessionInvariant == Spec => []SessionInv
<1>1. Init => SessionInv
  BY OwnerAssumption, RequestShapes DEF Init, SessionInv, Table, Time
<1>2. ASSUME SessionInv, UNCHANGED vars PROVE SessionInv'
  BY <1>2 DEF SessionInv, vars
<1>3. SessionInv /\ [Next]_vars => SessionInv'
  BY <1>2, SessionStep
<1> QED
  BY <1>1, <1>3, PTL DEF Spec

\* The sliding window over one step: only a login that is let through, the end of the process
\* and the clock touch it.
LEMMA WindowStep == ASSUME SessionInv, SessionInv', WindowInv, Next PROVE WindowInv'
<1>i. /\ now \in Nat /\ now \in Time /\ Limit \in Nat \ {0} /\ Minute \in Nat
      /\ throttles \in Seq(Time) /\ accepted \in Seq(Time)
      /\ Len(accepted) \in Nat /\ Len(throttles) \in Nat
      /\ \A i \in 1..Len(accepted) : accepted[i] \in Nat
  BY OwnerAssumption DEF WindowInv, TypeOK, Time
<1>t. throttles' \in Seq(Time) /\ accepted' \in Seq(Time) => TypeOK'
  BY DEF SessionInv, TypeOK
<1>1. ASSUME NEW h \in Handler, LoginAsk(h) PROVE WindowInv'
  <2> DEFINE n == Len(accepted)
             F == Len(accepted) - Len(throttles)
  <2>1. /\ Len(throttle) < Limit /\ now' = now
        /\ throttles' = Append(throttle, now) /\ accepted' = Append(accepted, now)
    BY <1>1 DEF LoginAsk
  <2>2. /\ Len(throttles) <= n /\ F \in Nat
        /\ \A i \in 1..Len(throttles) : F + i \in 1..n /\ throttles[i] = accepted[F + i]
        /\ \A i \in 1..F : now - accepted[i] >= Minute
    BY <1>i DEF WindowInv, ListIsRecent, Forgotten
  <2>3. \A i \in 1..n : accepted[i] <= now /\ \A j \in 1..i : accepted[j] <= accepted[i]
    BY DEF WindowInv, Ordered
  <2>4. \A j \in 1..Len(throttles) : \A k \in 1..j : throttles[k] <= throttles[j]
    <3> SUFFICES ASSUME NEW j \in 1..Len(throttles), NEW k \in 1..j
                 PROVE  throttles[k] <= throttles[j]
      OBVIOUS
    <3>1. k \in 1..Len(throttles) /\ F + j \in 1..n /\ F + k \in 1..(F + j)
      BY <1>i, <2>2
    <3> QED
      BY <2>2, <2>3, <3>1
  <2>5. PICK c \in 0..Len(throttles) :
            /\ throttle \in Seq(Time) /\ Len(throttle) = Len(throttles) - c
            /\ \A j \in 1..Len(throttle) : throttle[j] = throttles[c + j]
            /\ \A j \in 1..c : now - throttles[j] >= Minute
    BY <1>i, <2>4, ThrottleDropsOld
  <2> DEFINE m == Len(throttles) - c
  <2>6. /\ throttles' \in Seq(Time) /\ Len(throttles') = m + 1 /\ m \in Nat
        /\ \A j \in 1..m : throttles'[j] = throttles[c + j]
        /\ throttles'[m + 1] = now
    BY <1>i, <2>1, <2>5
  <2>7. /\ accepted' \in Seq(Time) /\ Len(accepted') = n + 1
        /\ \A j \in 1..n : accepted'[j] = accepted[j]
        /\ accepted'[n + 1] = now
    BY <1>i, <2>1
  <2>8. \A i \in 1..(n + 1) : i \in 1..n \/ i = n + 1
    BY <1>i
  <2>9. Ordered'
    <3>1. \A i \in 1..(n + 1) : accepted'[i] <= now
      BY <1>i, <2>3, <2>7, <2>8
    <3>2. ASSUME NEW i \in 1..(n + 1), NEW j \in 1..i PROVE accepted'[j] <= accepted'[i]
      <4>1. CASE i \in 1..n
        <5>1. j \in 1..n
          BY <1>i, <4>1
        <5> QED
          BY <2>3, <2>7, <4>1, <5>1
      <4>2. CASE i = n + 1
        <5>1. j \in 1..(n + 1)
          BY <1>i, <4>2
        <5> QED
          BY <2>7, <3>1, <4>2, <5>1
      <4> QED
        BY <2>8, <4>1, <4>2
    <3> QED
      BY <2>1, <2>7, <3>1, <3>2 DEF Ordered
  <2>10. /\ Len(throttles') <= Len(accepted') /\ Forgotten' = F + c
         /\ \A i \in 1..(F + c) : i \in 1..n /\ accepted'[i] = accepted[i]
                                  /\ now - accepted[i] >= Minute
    <3>1. Len(throttles') <= Len(accepted') /\ Forgotten' = F + c
      BY <1>i, <2>2, <2>6, <2>7 DEF Forgotten
    <3>2. ASSUME NEW i \in 1..(F + c) PROVE i \in 1..n /\ now - accepted[i] >= Minute
      <4>1. CASE i <= F
        BY <1>i, <2>2, <4>1
      <4>2. CASE i > F
        <5>1. i - F \in 1..c /\ i - F \in 1..Len(throttles) /\ F + (i - F) = i
          BY <1>i, <2>2, <4>2
        <5>2. throttles[i - F] = accepted[i] /\ now - throttles[i - F] >= Minute /\ i \in 1..n
          BY <2>2, <2>5, <5>1
        <5> QED
          BY <5>2
      <4> QED
        BY <1>i, <2>2, <4>1, <4>2
    <3> QED
      BY <2>7, <3>1, <3>2
  <2>11. ListIsRecent'
    <3>1. ASSUME NEW i \in 1..(m + 1) PROVE throttles'[i] = accepted'[F + c + i]
      <4>1. CASE i \in 1..m
        <5>1. c + i \in 1..Len(throttles) /\ F + c + i = F + (c + i)
          BY <1>i, <2>2, <2>6, <4>1
        <5>2. throttles'[i] = accepted[F + (c + i)] /\ F + (c + i) \in 1..n
          BY <2>2, <2>6, <4>1, <5>1
        <5> QED
          BY <2>7, <5>1, <5>2
      <4>2. CASE i = m + 1
        <5>1. F + c + i = n + 1
          BY <1>i, <2>2, <2>6, <4>2
        <5> QED
          BY <2>6, <2>7, <4>2, <5>1
      <4> QED
        BY <2>6, <4>1, <4>2
    <3> QED
      BY <2>1, <2>6, <2>10, <3>1 DEF ListIsRecent
  <2>12. LoginsWithinLimit'
    <3>1. ASSUME NEW i \in 1..(n + 1), i + Limit <= n + 1
          PROVE  accepted'[i + Limit] - accepted'[i] >= Minute
      <4>1. CASE i + Limit <= n
        <5>1. i \in 1..n /\ i + Limit \in 1..n
          BY <1>i, <4>1
        <5>2. accepted[i + Limit] - accepted[i] >= Minute
          BY <4>1, <5>1 DEF WindowInv, LoginsWithinLimit
        <5> QED
          BY <2>7, <5>1, <5>2
      <4>2. CASE i + Limit = n + 1
        <5>1. i \in 1..(F + c)
          BY <1>i, <2>1, <2>2, <2>5, <4>2
        <5> QED
          BY <2>7, <2>10, <4>2, <5>1
      <4>3. i + Limit <= n \/ i + Limit = n + 1
        BY <1>i, <3>1
      <4> QED
        BY <4>1, <4>2, <4>3
    <3> QED
      BY <2>7, <3>1 DEF LoginsWithinLimit
  <2> QED
    BY <1>t, <2>6, <2>7, <2>9, <2>11, <2>12 DEF WindowInv
<1>2. CASE Down
  <2>1. throttles' = <<>> /\ accepted' = <<>> /\ now' = now
    BY <1>2 DEF Down
  <2> QED
    BY <1>t, <2>1 DEF WindowInv, Ordered, ListIsRecent, Forgotten, LoginsWithinLimit
<1>3. CASE UNCHANGED <<throttles, accepted>> /\ now' \in Nat /\ now' >= now
  <2>1. Ordered' /\ LoginsWithinLimit'
    BY <1>3, <1>i DEF WindowInv, Ordered, LoginsWithinLimit
  <2>2. ListIsRecent'
    <3>1. ASSUME NEW i \in 1..Forgotten PROVE now' - accepted[i] >= Minute
      <4>1. i \in 1..Len(accepted) /\ now - accepted[i] >= Minute
        BY <1>i DEF WindowInv, ListIsRecent, Forgotten
      <4> QED
        BY <1>3, <1>i, <4>1
    <3> QED
      BY <1>3, <3>1 DEF WindowInv, ListIsRecent, Forgotten
  <2> QED
    BY <1>3, <1>i, <1>t, <2>1, <2>2 DEF WindowInv
<1>4. now' = now \/ now' = now + 1 => now' \in Nat /\ now' >= now
  BY <1>i
<1> QED
  BY <1>1, <1>2, <1>3, <1>4
     DEF Next, login, LoginRefused, Act, Logout, OwnerRequest, maintenance, TakeBackup, Restore,
         Start, RecoverRestored, Tick

\* Attempts that left the throttle's list left it a minute old, and what is on the list is
\* the end of what was let through.
THEOREM WindowInvariant == Spec => []WindowInv
<1>1. Init => WindowInv
  <2>1. ASSUME Init PROVE SessionInv /\ throttles = <<>> /\ accepted = <<>>
    BY <2>1, OwnerAssumption, RequestShapes DEF Init, SessionInv, Table, Time
  <2> QED
    BY <2>1 DEF SessionInv, WindowInv, TypeOK, Ordered, ListIsRecent, Forgotten, LoginsWithinLimit
<1>2. ASSUME WindowInv, UNCHANGED vars PROVE WindowInv'
  BY <1>2 DEF vars, WindowInv, TypeOK, Ordered, ListIsRecent, Forgotten, LoginsWithinLimit
<1>3. SessionInv /\ SessionInv' /\ WindowInv /\ [Next]_vars => WindowInv'
  BY <1>2, WindowStep
<1> QED
  BY <1>1, <1>3, SessionInvariant, PTL DEF Spec

\* The owner's tables, requests and lists always have their types.
THEOREM OwnerTypes == Spec => []TypeOK
  BY WindowInvariant, PTL DEF WindowInv

\* No more than Limit logins reach the password check within any minute of one process's
\* life, for every limit, window and sequence of attempts.
THEOREM LoginsAreLimited == Spec => []LoginsWithinLimit
  BY WindowInvariant, PTL DEF WindowInv

\* A cookie whose logout was carried out opens nothing again, over races, backups and
\* restores.
THEOREM LogoutIsFinal == Spec => LoggedOutStaysOut
<1> DEFINE O(t) == [pc |-> "owner", token |-> t]
           Out == \A h \in Handler, t \in ended : handlers[h] = NoRequest => handlers'[h] # O(t)
<1>r. /\ NoRequest \notin Request /\ [pc |-> "login"] \in Request
      /\ \A t \in Token : O(t) \in Request /\ O(t) # [pc |-> "login"] /\ O(t) # NoRequest
  BY RequestShapes
<1>1. ASSUME SessionInv, Next, NEW h \in Handler, NEW t \in ended, handlers[h] = NoRequest,
             handlers'[h] = O(t)
      PROVE  FALSE
  <2>i. /\ t \in Token /\ (phase # "restored" => sessions[t] = NoSession)
        /\ handlers \in [Handler -> Request \cup {NoRequest}]
    BY <1>1 DEF SessionInv
  <2>o. O(t) # NoRequest /\ O(t) # [pc |-> "login"]
    BY <1>r, <2>i
  <2>1. ASSUME NEW k \in Handler, NEW from, NEW to \in {[pc |-> "login"], NoRequest},
               Serve(k, from, to)
        PROVE  FALSE
    BY <1>1, <2>i, <2>o, <2>1 DEF Serve
  <2>2. ASSUME NEW k \in Handler, NEW u \in Token, OwnerRequest(k, u) PROVE FALSE
    <3>1. Live(u) /\ phase = "up" /\ handlers' = [handlers EXCEPT ![k] = O(u)]
      BY <2>2 DEF OwnerRequest, Serve
    <3>2. O(u) = O(t)
      BY <1>1, <2>i, <2>o, <3>1
    <3>3. O(u).token = u /\ O(t).token = t
      OBVIOUS
    <3>4. u = t
      BY <3>2, <3>3
    <3> QED
      BY <2>i, <3>1, <3>4 DEF Live
  <2>3. handlers' # handlers
    BY <1>1, <2>o
  <2>4. ~Down
    BY <1>1, <2>o DEF Down
  <2> QED
    BY <1>1, <2>1, <2>2, <2>3, <2>4
       DEF Next, LoginAsk, login, LoginRefused, Act, Logout, maintenance, TakeBackup, Restore,
           Start, RecoverRestored, Tick
<1>2. ASSUME SessionInv, UNCHANGED vars PROVE Out
  BY <1>2, <1>r DEF vars, SessionInv
<1>3. SessionInv /\ [Next]_vars => [Out]_vars
  BY <1>1, <1>2
<1> QED
  BY <1>3, SessionInvariant, PTL DEF Spec, LoggedOutStaysOut
=============================================================================
