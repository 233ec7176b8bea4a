----------------------------- MODULE Recursion -----------------------------
(***************************************************************************)
(* Induction over the natural numbers and the functions defined by it, as  *)
(* facts about sets and functions: a proof by induction gives the set of   *)
(* numbers a claim holds for, a recursive definition the function from the *)
(* values before n to the value at n.                                      *)
(***************************************************************************)
EXTENDS Integers, WellFoundedInduction, TLAPS

\* The smallest number of a set.
LEMMA Smallest ==
  ASSUME NEW T, T \subseteq Nat, T # {}
  PROVE  \E n \in T : \A m \in T : n <= m
  <1> DEFINE R == {p \in Nat \X Nat : p[1] < p[2]}
  <1>1. IsWellFoundedOn(R, Nat)
    BY NatLessThanWellFounded DEF OpToRel
  <1> HIDE DEF R
  <1>2. PICK n \in T : \A m \in T : ~(<<m, n>> \in R)
    BY <1>1, WFMin
  <1>3. \A m \in Nat, k \in Nat : m < k => <<m, k>> \in R
    BY DEF R
  <1>4. n \in Nat /\ \A m \in T : m \in Nat /\ ~(m < n)
    BY <1>2, <1>3
  <1> QED BY <1>4

\* What holds at n if it holds before n holds for all.
LEMMA Induction ==
  ASSUME NEW T, \A n \in Nat : (\A m \in Nat : m < n => m \in T) => n \in T
  PROVE  Nat \subseteq T
  <1> SUFFICES ASSUME Nat \ T # {}
               PROVE  FALSE
    OBVIOUS
  <1>1. PICK n \in Nat \ T : \A m \in Nat \ T : n <= m
    BY Smallest
  <1> QED BY <1>1

Prior(f, n) == [k \in 0 .. n - 1 |-> f[k]]

\* f is such a function up to n.
FollowsUpTo(f, n, D, G) == /\ f \in [0 .. n -> D]
                    /\ \A k \in 0 .. n : f[k] = G[k][Prior(f, k)]

\* Two of them agree as far as both go.
LEMMA FollowsUnique ==
  ASSUME NEW D, NEW G, NEW m \in Nat, NEW n \in Nat, NEW f, NEW h,
         FollowsUpTo(f, m, D, G), FollowsUpTo(h, n, D, G)
  PROVE  \A k \in 0 .. m : k <= n => f[k] = h[k]
  <1> DEFINE U == {k \in Nat : k <= m /\ k <= n => f[k] = h[k]}
  <1>1. ASSUME NEW k \in Nat, \A j \in Nat : j < k => j \in U
        PROVE  k \in U
    <2> SUFFICES ASSUME k <= m, k <= n
                 PROVE  f[k] = h[k]
      OBVIOUS
    <2>1. \A j \in 0 .. k - 1 : f[j] = h[j]
      BY <1>1
    <2>2. Prior(f, k) = Prior(h, k)
      BY <2>1 DEF Prior
    <2> QED BY <2>2 DEF FollowsUpTo
  <1> HIDE DEF U
  <1>2. Nat \subseteq U
    BY <1>1, Induction
  <1> QED BY <1>2 DEF U

\* The last values of functions up to each number of M make one function.
Joins(g, a, M, D, G) ==
    /\ M \subseteq Nat /\ \A k \in M : 0 .. k - 1 \subseteq M
    /\ \A k \in M : FollowsUpTo(a[k], k, D, G) /\ g[k] = a[k][k]

LEMMA Joined ==
  ASSUME NEW D, NEW G, NEW M, NEW a, NEW g, Joins(g, a, M, D, G)
  PROVE  \A k \in M : g[k] \in D /\ g[k] = G[k][Prior(g, k)]
  <1> USE DEF Joins
  <1>1. ASSUME NEW k \in M
        PROVE  g[k] \in D /\ g[k] = G[k][Prior(g, k)]
    <2>1. k \in Nat /\ FollowsUpTo(a[k], k, D, G)
      OBVIOUS
    <2>2. ASSUME NEW j \in 0 .. k - 1
          PROVE  a[j][j] = a[k][j]
      <3>1. j \in M /\ j \in Nat /\ FollowsUpTo(a[j], j, D, G)
        BY <2>2
      <3>2. \A f, h : FollowsUpTo(f, j, D, G) /\ FollowsUpTo(h, k, D, G) => \A i \in 0 .. j : i <= k => f[i] = h[i]
        BY <2>1, <3>1, FollowsUnique
      <3>3. \A i \in 0 .. j : i <= k => a[j][i] = a[k][i]
        BY <2>1, <3>1, <3>2
      <3> QED BY <2>2, <3>1, <3>3
    <2>3. \A j \in 0 .. k - 1 : g[j] = a[j][j]
      OBVIOUS
    <2>4. Prior(g, k) = Prior(a[k], k)
      BY <2>2, <2>3 DEF Prior
    <2> QED BY <2>1, <2>4 DEF FollowsUpTo
  <1> QED BY <1>1

\* A function whose value at each n is given by those before n exists.
Builds(G, D) == \A n \in Nat : G[n] \in [[0 .. n - 1 -> D] -> D]

LEMMA Recursive ==
  ASSUME NEW D, NEW G, Builds(G, D)
  PROVE  \E g \in [Nat -> D] : \A n \in Nat : g[n] = G[n][Prior(g, n)]
  <1> DEFINE T == {n \in Nat : \E f : FollowsUpTo(f, n, D, G)}
             a == [k \in Nat |-> CHOOSE f : FollowsUpTo(f, k, D, G)]
             g(M) == [k \in M |-> a[k][k]]
  <1>1. \A k \in T : FollowsUpTo(a[k], k, D, G)
    OBVIOUS
  <1>2. \A M \in SUBSET Nat : \A k \in M : g(M)[k] = a[k][k]
    OBVIOUS
  <1>3. \A M : g(M) = [k \in M |-> g(M)[k]]
    OBVIOUS
  <1> HIDE DEF a, g
  <1>4. ASSUME NEW M \in SUBSET Nat, \A k \in M : 0 .. k - 1 \subseteq M, M \subseteq T
        PROVE  /\ g(M) \in [M -> D]
               /\ \A k \in M : g(M)[k] = G[k][Prior(g(M), k)]
    <2>1. \A k \in M : FollowsUpTo(a[k], k, D, G)
      BY <1>1, <1>4
    <2>2. Joins(g(M), a, M, D, G)
      BY <1>2, <1>4, <2>1 DEF Joins
    <2>3. \A k \in M : g(M)[k] \in D /\ g(M)[k] = G[k][Prior(g(M), k)]
      BY <2>2, Joined
    <2> QED BY <1>3, <2>3
  <1>5. ASSUME NEW n \in Nat, \A m \in Nat : m < n => m \in T
        PROVE  n \in T
    <2> DEFINE M == 0 .. n - 1
               h == g(M)
               f == [k \in 0 .. n |-> IF k = n THEN G[n][h] ELSE h[k]]
    <2>1. h \in [M -> D] /\ \A k \in M : h[k] = G[k][Prior(h, k)]
      <3>1. M \in SUBSET Nat /\ (\A k \in M : 0 .. k - 1 \subseteq M) /\ M \subseteq T
        BY <1>5
      <3> HIDE DEF M
      <3> QED BY <3>1, <1>4
    <2> HIDE DEF h
    <2>2. G[n][h] \in D
      BY <2>1 DEF Builds
    <2>3. f \in [0 .. n -> D]
      BY <2>1, <2>2
    <2>4. \A k \in 0 .. n : Prior(f, k) = Prior(h, k)
      BY DEF Prior
    <2>5. Prior(h, n) = h
      BY <2>1 DEF Prior
    <2>6. \A k \in 0 .. n : f[k] = G[k][Prior(f, k)]
      BY <2>1, <2>4, <2>5
    <2> HIDE DEF f
    <2> QED BY <2>3, <2>6 DEF FollowsUpTo
  <1> HIDE DEF T
  <1>6. Nat \subseteq T
    BY <1>5, Induction
  <1>7. Nat \in SUBSET Nat /\ \A k \in Nat : 0 .. k - 1 \subseteq Nat
    OBVIOUS
  <1>8. g(Nat) \in [Nat -> D] /\ \A k \in Nat : g(Nat)[k] = G[k][Prior(g(Nat), k)]
    BY <1>4, <1>6, <1>7
  <1> QED BY <1>8

\* A function may be applied again and again.
Iterates(g, D, start, step) ==
    g \in [Nat -> D] /\ g[0] = start /\ \A n \in Nat : g[n + 1] = step[g[n]]

LEMMA Iterated ==
  ASSUME NEW D, NEW start \in D, NEW step \in [D -> D]
  PROVE  \E g : Iterates(g, D, start, step)
  <1> DEFINE G == [n \in Nat |-> [f \in [0 .. n - 1 -> D] |-> IF n = 0 THEN start ELSE step[f[n - 1]]]]
  <1>1. Builds(G, D)
    BY DEF Builds
  <1>2. PICK g \in [Nat -> D] : \A n \in Nat : g[n] = G[n][Prior(g, n)]
    <2> HIDE DEF G
    <2> QED BY <1>1, Recursive
  <1>3. \A n \in Nat : Prior(g, n) \in [0 .. n - 1 -> D] /\ \A k \in 0 .. n - 1 : Prior(g, n)[k] = g[k]
    BY <1>2 DEF Prior
  <1>4. \A n \in Nat : g[n] = IF n = 0 THEN start ELSE step[Prior(g, n)[n - 1]]
    BY <1>2, <1>3
  <1>5. \A n \in Nat : g[n + 1] = step[g[n]]
    <2> SUFFICES ASSUME NEW n \in Nat
                 PROVE  g[n + 1] = step[g[n]]
      OBVIOUS
    <2>1. n + 1 \in Nat /\ n + 1 # 0 /\ (n + 1) - 1 = n /\ n \in 0 .. (n + 1) - 1
      OBVIOUS
    <2> QED BY <1>3, <1>4, <2>1
  <1> QED BY <1>2, <1>4, <1>5 DEF Iterates

\* So may each of n functions, one after the other.
Loops(g, n, D, start, step) ==
    g \in [0 .. n -> D] /\ g[0] = start /\ \A k \in 1 .. n : g[k] = step[k][g[k - 1]]

LEMMA Looped ==
  ASSUME NEW n \in Nat, NEW D, NEW start \in D, NEW step, \A k \in 1 .. n : step[k] \in [D -> D]
  PROVE  \E g : Loops(g, n, D, start, step)
  <1> DEFINE G == [k \in Nat |-> [f \in [0 .. k - 1 -> D] |->
                     IF k \in 1 .. n THEN step[k][f[k - 1]] ELSE start]]
  <1>1. Builds(G, D)
    BY DEF Builds
  <1>2. PICK g \in [Nat -> D] : \A k \in Nat : g[k] = G[k][Prior(g, k)]
    <2> HIDE DEF G
    <2> QED BY <1>1, Recursive
  <1>3. \A k \in Nat : Prior(g, k) \in [0 .. k - 1 -> D] /\ \A j \in 0 .. k - 1 : Prior(g, k)[j] = g[j]
    BY <1>2 DEF Prior
  <1>4. \A k \in Nat : g[k] = IF k \in 1 .. n THEN step[k][Prior(g, k)[k - 1]] ELSE start
    BY <1>2, <1>3
  <1>5. PICK h : h = [k \in 0 .. n |-> g[k]]
    OBVIOUS
  <1>6. h \in [0 .. n -> D] /\ h[0] = start
    BY <1>2, <1>4, <1>5
  <1>7. \A k \in 1 .. n : h[k] = step[k][h[k - 1]]
    <2> SUFFICES ASSUME NEW k \in 1 .. n
                 PROVE  h[k] = step[k][h[k - 1]]
      OBVIOUS
    <2>1. k \in Nat /\ k - 1 \in 0 .. n /\ k - 1 \in 0 .. k - 1 /\ k \in 0 .. n
      OBVIOUS
    <2> QED BY <1>3, <1>4, <1>5, <2>1
  <1> QED BY <1>6, <1>7 DEF Loops

\* A loop that goes from state to state until it stops has a value in each: a
\* function that calls itself last exists, also where it never stops.
RunsTo(f, S, stops, value, step) ==
    f = [s \in S |-> IF s \in stops THEN value[s] ELSE f[step[s]]]

LEMMA Looping ==
  ASSUME NEW S, NEW stops, NEW value, NEW step \in [S -> S]
  PROVE  \E f : RunsTo(f, S, stops, value, step)
  <1> DEFINE stay == [s \in S |-> IF s \in stops THEN s ELSE step[s]]
             orbit == [s \in S |-> CHOOSE g : Iterates(g, S, s, stay)]
             Ends(s) == {t \in stops : \E n \in Nat : orbit[s][n] = t}
             f == [s \in S |-> IF Ends(s) = {} THEN 0 ELSE value[CHOOSE t : t \in Ends(s)]]
  <1>1. stay \in [S -> S]
    OBVIOUS
  <1>2. \A s \in S : Iterates(orbit[s], S, s, stay)
    <2> HIDE DEF stay
    <2> QED BY <1>1, Iterated
  <1>3. \A s \in S : s \in stops => stay[s] = s
    OBVIOUS
  <1>4. \A s \in S : s \notin stops => stay[s] = step[s] /\ step[s] \in S
    OBVIOUS
  <1> HIDE DEF stay, orbit
  <1>5. ASSUME NEW s \in S, s \in stops
        PROVE  Ends(s) = {s}
    <2> DEFINE T == {n \in Nat : orbit[s][n] = s}
    <2>1. ASSUME NEW n \in Nat, \A m \in Nat : m < n => m \in T
          PROVE  n \in T
      <3>1. CASE n = 0
        BY <1>2, <3>1 DEF Iterates
      <3>2. CASE n # 0
        <4>1. n - 1 \in Nat /\ n - 1 < n /\ n = (n - 1) + 1
          BY <3>2
        <4>2. orbit[s][n - 1] = s
          BY <2>1, <4>1
        <4>3. orbit[s][n] = stay[orbit[s][n - 1]]
          BY <1>2, <4>1 DEF Iterates
        <4> QED BY <1>3, <1>5, <4>2, <4>3
      <3> QED BY <3>1, <3>2
    <2>2. Nat \subseteq T
      <3> HIDE DEF T
      <3> QED BY <2>1, Induction
    <2>3. \A n \in Nat : orbit[s][n] = s
      BY <2>2
    <2>4. 0 \in Nat
      OBVIOUS
    <2> QED BY <1>5, <2>3, <2>4
  <1>6. ASSUME NEW s \in S, s \notin stops
        PROVE  Ends(s) = Ends(step[s])
    <2> DEFINE T == {n \in Nat : orbit[step[s]][n] = orbit[s][n + 1]}
    <2>1. orbit[s][0] = s /\ \A n \in Nat : orbit[s][n + 1] = stay[orbit[s][n]]
      BY <1>2 DEF Iterates
    <2>2. step[s] \in S /\ orbit[s][0 + 1] = step[s]
      BY <1>4, <1>6, <2>1
    <2>3. /\ orbit[step[s]][0] = step[s]
          /\ \A n \in Nat : orbit[step[s]][n + 1] = stay[orbit[step[s]][n]]
      BY <1>2, <2>2 DEF Iterates
    <2>4. ASSUME NEW n \in Nat, \A m \in Nat : m < n => m \in T
          PROVE  n \in T
      <3>1. CASE n = 0
        BY <2>2, <2>3, <3>1
      <3>2. CASE n # 0
        <4>1. PICK m \in Nat : m < n /\ n = m + 1
          <5>1. n - 1 \in Nat /\ n - 1 < n /\ n = (n - 1) + 1
            BY <3>2
          <5> QED BY <5>1
        <4>2. orbit[step[s]][m] = orbit[s][m + 1]
          BY <2>4, <4>1
        <4>3. orbit[step[s]][m + 1] = stay[orbit[step[s]][m]]
          BY <2>3
        <4>4. m + 1 \in Nat /\ orbit[s][(m + 1) + 1] = stay[orbit[s][m + 1]]
          BY <2>1
        <4> QED BY <4>1, <4>2, <4>3, <4>4
      <3> QED BY <3>1, <3>2
    <2>5. Nat \subseteq T
      <3> HIDE DEF T
      <3> QED BY <2>4, Induction
    <2>6. \A n \in Nat : orbit[step[s]][n] = orbit[s][n + 1]
      BY <2>5
    <2>7. \A t \in stops : (\E n \in Nat : orbit[s][n] = t) => \E n \in Nat : orbit[step[s]][n] = t
      <3> SUFFICES ASSUME NEW t \in stops, NEW n \in Nat, orbit[s][n] = t
                   PROVE  \E m \in Nat : orbit[step[s]][m] = t
        OBVIOUS
      <3>1. n # 0
        BY <1>6, <2>1
      <3>2. n - 1 \in Nat /\ n = (n - 1) + 1
        BY <3>1
      <3>3. orbit[step[s]][n - 1] = t
        BY <2>6, <3>2
      <3> QED BY <3>2, <3>3
    <2>8. \A t \in stops : (\E n \in Nat : orbit[step[s]][n] = t) => \E n \in Nat : orbit[s][n] = t
      <3> SUFFICES ASSUME NEW t \in stops, NEW n \in Nat, orbit[step[s]][n] = t
                   PROVE  \E m \in Nat : orbit[s][m] = t
        OBVIOUS
      <3>1. n + 1 \in Nat /\ orbit[s][n + 1] = t
        BY <2>6
      <3> QED BY <3>1
    <2> QED BY <2>7, <2>8
  <1> HIDE DEF Ends
  <1>7. \A s \in S : f[s] = IF Ends(s) = {} THEN 0 ELSE value[CHOOSE t : t \in Ends(s)]
    OBVIOUS
  <1>8. ASSUME NEW s \in S
        PROVE  f[s] = IF s \in stops THEN value[s] ELSE f[step[s]]
    <2> HIDE DEF f
    <2>1. CASE s \in stops
      <3>1. Ends(s) = {s}
        BY <1>5, <2>1
      <3>2. Ends(s) # {} /\ (CHOOSE t : t \in Ends(s)) = s
        BY <3>1
      <3> QED BY <1>7, <2>1, <3>2
    <2>2. CASE s \notin stops
      <3>1. step[s] \in S /\ Ends(s) = Ends(step[s])
        BY <1>4, <1>6, <2>2
      <3> QED BY <1>7, <2>2, <3>1
    <2> QED BY <2>1, <2>2
  <1>9. f = [s \in S |-> f[s]]
    OBVIOUS
  <1> HIDE DEF f
  <1>10. f = [s \in S |-> IF s \in stops THEN value[s] ELSE f[step[s]]]
    BY <1>8, <1>9
  <1> QED BY <1>10 DEF RunsTo
=============================================================================
