--------------------------- MODULE AnomaliesProofs ---------------------------
(***************************************************************************)
(* What the holding-pattern rule says of the headings it is given, for any *)
(* number of points, any headings and any limits.  The sums of the rule    *)
(* are folds of the community modules, that is recursive functions over    *)
(* the subsets of the points: they exist, and facts about them hold, by    *)
(* induction on the number of elements, written as the absence of a least  *)
(* counterexample.                                                         *)
(***************************************************************************)
EXTENDS Anomalies, FiniteSetTheorems, WellFoundedInduction, TLAPS

(* A set of numbers that has a member has a least one.                     *)
LEMMA LeastNat ==
  ASSUME NEW T, T \subseteq Nat, T # {}
  PROVE  \E n \in T : \A k \in T : n <= k
<1>1. \E n \in T : \A k \in T : ~ (<<k, n>> \in OpToRel(<, Nat))
  BY NatLessThanWellFounded, WFMin
<1>2. PICK n \in T : \A k \in T : ~ (k < n)
  BY <1>1 DEF OpToRel
<1> QED BY <1>2

(* iter[s] is the sum of v over the finite set s, as MapThenFoldSet has it.*)
Picked(s) == CHOOSE x \in s : TRUE
Sums(iter, v, S) ==
  iter = [s \in SUBSET S |->
            IF s = {} THEN 0 ELSE v[Picked(s)] + iter[s \ {Picked(s)}]]

LEMMA PickedIn == ASSUME NEW s, s # {} PROVE Picked(s) \in s
BY DEF Picked

LEMMA Smaller ==
  ASSUME NEW s, IsFiniteSet(s), s # {}
  PROVE  /\ IsFiniteSet(s \ {Picked(s)})
         /\ Cardinality(s) \in Nat
         /\ Cardinality(s \ {Picked(s)}) \in Nat
         /\ Cardinality(s \ {Picked(s)}) < Cardinality(s)
BY PickedIn, FS_RemoveElement, FS_CardinalityType

(* Such a function exists: one that is right on the sets of at most n      *)
(* elements gives one that is right on those of n + 1.                     *)
LEMMA SumsExist ==
  ASSUME NEW S, IsFiniteSet(S), NEW v
  PROVE  \E iter : Sums(iter, v, S)
<1> DEFINE Fill(g) == [s \in SUBSET S |->
                        IF s = {} THEN 0 ELSE v[Picked(s)] + g[s \ {Picked(s)}]]
           Upto(g, n) == \A s \in SUBSET S : Cardinality(s) <= n => g[s] = Fill(g)[s]
           Bad == {n \in Nat : ~ \E g : Upto(g, n)}
<1>a. \A s \in SUBSET S : IsFiniteSet(s) /\ Cardinality(s) \in Nat /\ Cardinality(s) <= Cardinality(S)
  BY FS_Subset, FS_CardinalityType
<1>b. ASSUME NEW s \in SUBSET S, Cardinality(s) = 0 PROVE s = {}
  BY <1>a, <1>b, FS_EmptySet
<1>1. 0 \notin Bad
  <2>1. Upto([s \in SUBSET S |-> 0], 0)
    BY <1>a, <1>b
  <2> QED BY <2>1
<1>2. ASSUME NEW n \in Nat, NEW g, Upto(g, n) PROVE Upto(Fill(g), n + 1)
  <2> SUFFICES ASSUME NEW s \in SUBSET S, Cardinality(s) <= n + 1
               PROVE  Fill(g)[s] = Fill(Fill(g))[s]
    OBVIOUS
  <2>1. CASE s = {}
    BY <2>1
  <2>2. CASE s # {}
    <3> DEFINE r == s \ {Picked(s)}
    <3>1. r \in SUBSET S /\ Cardinality(r) <= n
      BY <1>a, <2>2, Smaller
    <3>2. g[r] = Fill(g)[r]
      BY <1>2, <3>1
    <3>3. /\ Fill(g)[s] = v[Picked(s)] + g[r]
          /\ Fill(Fill(g))[s] = v[Picked(s)] + Fill(g)[r]
      BY <2>2
    <3> QED BY <3>2, <3>3
  <2> QED BY <2>1, <2>2
<1>3. Bad = {}
  <2> SUFFICES ASSUME Bad # {} PROVE FALSE
    OBVIOUS
  <2>1. PICK n \in Bad : \A k \in Bad : n <= k
    <3> HIDE DEF Upto
    <3>1. Bad \subseteq Nat
      OBVIOUS
    <3> HIDE DEF Bad
    <3> QED BY <3>1, LeastNat
  <2> HIDE DEF Upto
  <2>2. n \in Nat /\ n # 0
    BY <1>1
  <2>3. n - 1 \in Nat /\ n - 1 \notin Bad
    <3>1. n - 1 \in Nat /\ ~ (n <= n - 1)
      BY <2>2
    <3> HIDE DEF Bad
    <3> QED BY <2>1, <3>1
  <2>4. PICK g : Upto(g, n - 1)
    BY <2>3
  <2>5. Upto(Fill(g), (n - 1) + 1)
    <3> HIDE DEF Fill
    <3> QED BY <1>2, <2>3, <2>4
  <2>6. (n - 1) + 1 = n
    BY <2>2
  <2>7. Upto(Fill(g), n)
    BY <2>5, <2>6
  <2> QED BY <2>7
<1>4. PICK g : Upto(g, Cardinality(S))
  BY <1>3, <1>a
<1>5. \A s \in SUBSET S : g[s] = Fill(g)[s]
  BY <1>a, <1>4
<1> DEFINE iter == [s \in SUBSET S |-> g[s]]
<1>6. \A s \in SUBSET S : Fill(iter)[s] = iter[s]
  <2> TAKE s \in SUBSET S
  <2>1. CASE s = {}
    BY <1>5, <2>1
  <2>2. CASE s # {}
    <3>1. s \ {Picked(s)} \in SUBSET S
      OBVIOUS
    <3> QED BY <1>5, <2>2, <3>1
  <2> QED BY <2>1, <2>2
<1>7. iter = Fill(iter)
  BY <1>6
<1> QED BY <1>7 DEF Sums

(* One element at a time.                                                  *)
LEMMA SumsStep ==
  \A iter, v, S : Sums(iter, v, S) =>
    /\ iter[{}] = 0
    /\ \A s \in SUBSET S : s # {} => iter[s] = v[Picked(s)] + iter[s \ {Picked(s)}]
BY DEF Sums

(* What the sums n of w, t of w*x and q of w*x*x over some points leave of *)
(* the square of their spread between lo and hi.                           *)
Spread(lo, hi, n, t, q) == (hi + lo) * t - q - hi * lo * n

(* A number between two others is not beyond either.                       *)
LEMMA NatProduct ==
  ASSUME NEW a \in Nat, NEW lo \in Int, NEW hi \in Int, NEW b \in Int, lo <= b, b <= hi
  PROVE  a * ((hi - b) * (b - lo)) \in Nat
<1>1. hi - b \in Nat /\ b - lo \in Nat
  OBVIOUS
<1>2. (hi - b) * (b - lo) \in Nat
  BY <1>1
<1> QED BY <1>2

(* Each point adds w * (hi - x) * (x - lo), which is never negative.       *)
LEMMA SpreadPositive ==
  ASSUME NEW S, IsFiniteSet(S),
         NEW w, \A e \in S : w[e] \in Nat,
         NEW x, \A e \in S : x[e] \in Int,
         NEW lo \in Int, NEW hi \in Int, \A e \in S : lo <= x[e] /\ x[e] <= hi,
         NEW n, Sums(n, w, S),
         NEW t, Sums(t, [e \in S |-> w[e] * x[e]], S),
         NEW q, Sums(q, [e \in S |-> w[e] * (x[e] * x[e])], S)
  PROVE  /\ n[S] \in Nat /\ t[S] \in Int /\ q[S] \in Int
         /\ Spread(lo, hi, n[S], t[S], q[S]) >= 0
<1> DEFINE Good(s) == /\ n[s] \in Nat /\ t[s] \in Int /\ q[s] \in Int
                      /\ Spread(lo, hi, n[s], t[s], q[s]) >= 0
           Bad == {k \in Nat : \E s \in SUBSET S : Cardinality(s) = k /\ ~Good(s)}
<1>a. \A s \in SUBSET S : IsFiniteSet(s) /\ Cardinality(s) \in Nat
  BY FS_Subset, FS_CardinalityType
<1>1. Good({})
  <2>1. n[{}] = 0 /\ t[{}] = 0 /\ q[{}] = 0
    BY SumsStep
  <2> QED BY <2>1 DEF Spread
<1>2. ASSUME NEW s \in SUBSET S, s # {}, Good(s \ {Picked(s)}) PROVE Good(s)
  <2> DEFINE e == Picked(s)
             r == s \ {e}
  <2>1. e \in S /\ w[e] \in Nat /\ x[e] \in Int /\ lo <= x[e] /\ x[e] <= hi
    BY <1>2, PickedIn
  <2>2. /\ n[s] = w[e] + n[r]
        /\ t[s] = w[e] * x[e] + t[r]
        /\ q[s] = w[e] * (x[e] * x[e]) + q[r]
    <3>1. ASSUME NEW v, NEW iter, Sums(iter, v, S) PROVE iter[s] = v[e] + iter[r]
      <4>1. \A u \in SUBSET S : u # {} => iter[u] = v[Picked(u)] + iter[u \ {Picked(u)}]
        BY Zenon, <3>1, SumsStep
      <4> QED BY Zenon, <4>1, <1>2
    <3> DEFINE wx == [d \in S |-> w[d] * x[d]]
               wxx == [d \in S |-> w[d] * (x[d] * x[d])]
    <3>2. wx[e] = w[e] * x[e] /\ wxx[e] = w[e] * (x[e] * x[e])
      BY <2>1
    <3>3. Sums(n, w, S) /\ Sums(t, wx, S) /\ Sums(q, wxx, S)
      OBVIOUS
    <3> HIDE DEF wx, wxx, e, r
    <3>4. n[s] = w[e] + n[r] /\ t[s] = wx[e] + t[r] /\ q[s] = wxx[e] + q[r]
      BY <3>1, <3>3
    <3> QED BY <3>2, <3>4
  <2>3. n[r] \in Nat /\ t[r] \in Int /\ q[r] \in Int /\ Spread(lo, hi, n[r], t[r], q[r]) >= 0
    BY <1>2
  <2> HIDE DEF e, r
  <2>4. /\ n[s] \in Nat /\ t[s] \in Int /\ q[s] \in Int
        /\ Spread(lo, hi, n[s], t[s], q[s]) =
             Spread(lo, hi, n[r], t[r], q[r]) + w[e] * ((hi - x[e]) * (x[e] - lo))
    <3> DEFINE a == w[e]
               b == x[e]
               m == n[r]
               u == t[r]
               z == q[r]
    <3>1. /\ a + m \in Nat /\ a * b + u \in Int /\ a * (b * b) + z \in Int
          /\ Spread(lo, hi, a + m, a * b + u, a * (b * b) + z) =
               Spread(lo, hi, m, u, z) + a * ((hi - b) * (b - lo))
      <4>1. a \in Nat /\ b \in Int /\ m \in Nat /\ u \in Int /\ z \in Int
        BY <2>1, <2>3
      <4> HIDE DEF a, b, m, u, z
      <4> QED BY <4>1 DEF Spread
    <3> QED BY Zenon, <2>2, <3>1
  <2>5. w[e] * ((hi - x[e]) * (x[e] - lo)) \in Nat
    BY <2>1, NatProduct
  <2>6. Spread(lo, hi, n[r], t[r], q[r]) \in Int
    BY <2>3 DEF Spread
  <2> QED BY <2>3, <2>4, <2>5, <2>6
<1>3. Bad = {}
  <2> SUFFICES ASSUME Bad # {} PROVE FALSE
    OBVIOUS
  <2> HIDE DEF Good
  <2>1. PICK k \in Bad : \A j \in Bad : k <= j
    <3>1. Bad \subseteq Nat
      OBVIOUS
    <3> HIDE DEF Bad
    <3> QED BY <3>1, LeastNat
  <2>2. PICK s \in SUBSET S : Cardinality(s) = k /\ ~Good(s)
    OBVIOUS
  <2>3. s # {}
    BY <1>1, <2>2
  <2> DEFINE r == s \ {Picked(s)}
  <2>4. r \in SUBSET S /\ Cardinality(r) \in Nat /\ k \in Nat /\ ~ (k <= Cardinality(r))
    BY <1>a, <2>2, <2>3, Smaller
  <2>5. Good(r)
    BY <2>1, <2>4
  <2> QED BY <1>2, <2>2, <2>3, <2>5
<1> HIDE DEF Good
<1>4. Good(S)
  BY <1>3, <1>a
<1> QED BY <1>4 DEF Good

(* The rule's sums are such functions.                                     *)
LEMMA CountSums ==
  ASSUME NEW S, IsFiniteSet(S), NEW rows
  PROVE  \E n : Sums(n, rows, S) /\ Count(rows, S) = n[S]
<1>1. \E n : Sums(n, rows, S)
  BY SumsExist
<1>2. Count(rows, S) = (CHOOSE n : Sums(n, rows, S))[S]
  BY DEF Count, MapThenSumSet, MapThenFoldSet, Sums, Picked
<1> QED BY <1>1, <1>2

LEMMA TrackSums ==
  ASSUME NEW S, IsFiniteSet(S), NEW rows
  PROVE  \E t : Sums(t, [f \in S |-> rows[f] * Track(f)], S) /\ Weighed(rows, S, Track) = t[S]
<1> DEFINE v == [f \in S |-> rows[f] * Track(f)]
           Step(t, s) == IF s = {} THEN 0
                         ELSE rows[Picked(s)] * Track(Picked(s)) + t[s \ {Picked(s)}]
           Direct(t) == t = [s \in SUBSET S |-> Step(t, s)]
<1>1. \E t : Sums(t, v, S)
  BY SumsExist
<1>2. Weighed(rows, S, Track) = (CHOOSE t : Direct(t))[S]
  BY DEF Weighed, MapThenSumSet, MapThenFoldSet, Picked
<1>3. ASSUME NEW t, NEW s \in SUBSET S
      PROVE  Step(t, s) = IF s = {} THEN 0 ELSE v[Picked(s)] + t[s \ {Picked(s)}]
  BY PickedIn
<1>4. \A t : Direct(t) <=> Sums(t, v, S)
  BY <1>3 DEF Sums
<1> QED BY <1>1, <1>2, <1>4

LEMMA SquareSums ==
  ASSUME NEW S, IsFiniteSet(S), NEW rows
  PROVE  \E t : /\ Sums(t, [f \in S |-> rows[f] * (Track(f) * Track(f))], S)
                /\ Weighed(rows, S, LAMBDA f : Track(f) * Track(f)) = t[S]
<1> DEFINE v == [f \in S |-> rows[f] * (Track(f) * Track(f))]
           Step(t, s) == IF s = {} THEN 0
                         ELSE rows[Picked(s)] * (Track(Picked(s)) * Track(Picked(s))) + t[s \ {Picked(s)}]
           Direct(t) == t = [s \in SUBSET S |-> Step(t, s)]
<1>1. \E t : Sums(t, v, S)
  BY SumsExist
<1>2. Weighed(rows, S, LAMBDA f : Track(f) * Track(f)) = (CHOOSE t : Direct(t))[S]
  BY DEF Weighed, MapThenSumSet, MapThenFoldSet, Picked
<1>3. ASSUME NEW t, NEW s \in SUBSET S
      PROVE  Step(t, s) = IF s = {} THEN 0 ELSE v[Picked(s)] + t[s \ {Picked(s)}]
  BY PickedIn
<1>4. \A t : Direct(t) <=> Sums(t, v, S)
  BY <1>3 DEF Sums
<1> QED BY <1>1, <1>2, <1>4

(* The arithmetic of the rule: of n points with sum t and sum of squares q, *)
(* a variance of at least d squared takes a spread of at least 2*d.         *)
LEMMA VarianceNeedsSpread ==
  ASSUME NEW n \in Nat, n > 0, NEW t \in Int, NEW q \in Int, NEW d \in Nat,
         NEW lo \in Int, NEW hi \in Int, lo <= hi,
         Spread(lo, hi, n, t, q) >= 0,
         n * q - t * t >= d * d * n * n
  PROVE  hi - lo >= 2 * d
<1> DEFINE p == Spread(lo, hi, n, t, q)
           c == 2 * t - (hi + lo) * n
           h == hi - lo
<1>1. p \in Nat /\ c \in Int /\ h \in Nat
  BY DEF Spread
<1>2. 4 * (n * q - t * t) = (h * h) * (n * n) - c * c - 4 * (n * p)
  BY DEF Spread
<1>3. c * c >= 0 /\ c * c \in Int /\ n * p \in Nat
  <2> HIDE DEF c, p
  <2> QED BY <1>1
<1> DEFINE N == n * n
<1>4. N \in Nat /\ N > 0
  OBVIOUS
<1>5. d * d * n * n = (d * d) * N /\ 4 * ((d * d) * N) = (4 * (d * d)) * N
  OBVIOUS
<1>6. (h * h) * N >= (4 * (d * d)) * N
  <2> DEFINE A == n * q - t * t
             B == (h * h) * N
             C == c * c
             P == n * p
             D == (d * d) * N
  <2>1. A \in Int /\ B \in Int /\ C \in Int /\ P \in Int /\ D \in Int
    BY <1>1, <1>3, <1>4
  <2>2. A >= D /\ 4 * A = B - C - 4 * P /\ C >= 0 /\ P >= 0
    BY <1>2, <1>3, <1>5
  <2> HIDE DEF A, B, C, P, D
  <2>3. B >= 4 * D
    BY <2>1, <2>2
  <2> QED BY <1>5, <2>3 DEF B, D
<1> HIDE DEF N, h, c, p
<1>7. h * h >= 4 * (d * d)
  <2> DEFINE H == h * h
             D == 4 * (d * d)
  <2>1. H \in Nat /\ D \in Nat /\ H * N >= D * N
    BY <1>1, <1>6
  <2> HIDE DEF H, D
  <2>2. H >= D
    BY <1>4, <2>1
  <2> QED BY <2>2 DEF H, D
<1>8. h >= 2 * d
  <2> SUFFICES ASSUME h < 2 * d PROVE FALSE
    BY <1>1
  <2>1. h * h < (2 * d) * (2 * d)
    BY <1>1
  <2> QED BY <1>1, <1>7, <2>1
<1> QED BY <1>8 DEF h

-----------------------------------------------------------------------------

(***************************************************************************)
(* Whatever the points and however many: what detect_holding_pattern flags *)
(* has two headings at least twice the limit of their standard deviation   *)
(* apart (anomalies.py:129-131).  It is all that can be said of them.      *)
(***************************************************************************)
THEOREM HoldingTurns ==
  ASSUME NEW rows, NEW a, IsFiniteSet(Headed(rows, a)),
         \A f \in Headed(rows, a) : rows[f] \in Nat /\ Track(f) \in Int,
         HoldingStddev \in Nat, HoldingPoints \in Nat \ {0},
         Holding(rows, a)
  PROVE  \E f, g \in Headed(rows, a) : Track(f) - Track(g) >= 2 * HoldingStddev
<1> DEFINE S == Headed(rows, a)
           d == HoldingStddev
           T == [f \in S |-> rows[f] * Track(f)]
           Q == [f \in S |-> rows[f] * (Track(f) * Track(f))]
           x == [f \in S |-> Track(f)]
<1>1. PICK n : Sums(n, rows, S) /\ Count(rows, S) = n[S]
  BY CountSums
<1>2. PICK t : Sums(t, T, S) /\ Weighed(rows, S, Track) = t[S]
  BY TrackSums
<1>3. PICK q : Sums(q, Q, S) /\ Weighed(rows, S, LAMBDA f : Track(f) * Track(f)) = q[S]
  BY SquareSums
<1>4. n[S] >= HoldingPoints /\ n[S] * q[S] - t[S] * t[S] >= d * d * n[S] * n[S]
  BY <1>1, <1>2, <1>3 DEF Holding, Turns
<1>5. ASSUME NEW lo \in Int, NEW hi \in Int, \A f \in S : lo <= x[f] /\ x[f] <= hi
      PROVE  /\ n[S] \in Nat /\ t[S] \in Int /\ q[S] \in Int
             /\ Spread(lo, hi, n[S], t[S], q[S]) >= 0
  <2>1. /\ T = [f \in S |-> rows[f] * x[f]]
        /\ Q = [f \in S |-> rows[f] * (x[f] * x[f])]
    OBVIOUS
  <2>2. \A f \in S : rows[f] \in Nat /\ x[f] \in Int
    OBVIOUS
  <2> HIDE DEF S, T, Q, x
  <2>3. IsFiniteSet(S)
    BY DEF S
  <2> QED BY <1>1, <1>2, <1>3, <1>5, <2>1, <2>2, <2>3, SpreadPositive
<1>6. S # {}
  <2> SUFFICES ASSUME S = {} PROVE FALSE
    OBVIOUS
  <2>1. n[S] = 0
    BY <1>1, SumsStep
  <2> QED BY <1>4, <2>1
<1> SUFFICES ASSUME \A f, g \in S : ~ (x[f] - x[g] >= 2 * d) PROVE FALSE
  OBVIOUS
<1>7. \A f \in S : x[f] \in Int
  OBVIOUS
<1> HIDE DEF S, T, Q, x
<1>8. PICK g \in S : \A f \in S : x[g] <= x[f]
  <2>1. PICK e \in S : TRUE
    BY <1>6
  <2> DEFINE H == {x[f] - x[e] + 2 * d : f \in S}
  <2>2. ASSUME NEW f \in S PROVE x[f] - x[e] + 2 * d \in Nat
    BY <1>7
  <2>3. H \subseteq Nat /\ H # {}
    BY <2>2
  <2>4. PICK k \in H : \A j \in H : k <= j
    <3> HIDE DEF H
    <3> QED BY <2>3, LeastNat
  <2>5. PICK g \in S : k = x[g] - x[e] + 2 * d
    BY <2>4
  <2>6. ASSUME NEW f \in S PROVE x[g] <= x[f]
    <3>1. x[f] - x[e] + 2 * d \in H
      OBVIOUS
    <3>2. x[g] - x[e] + 2 * d <= x[f] - x[e] + 2 * d
      BY <2>4, <2>5, <3>1
    <3> QED BY <1>7, <3>2
  <2> QED BY <2>6
<1>9. d # 0
  BY <1>7, <1>8
<1> DEFINE lo == x[g]
           hi == lo + 2 * d - 1
<1>10. lo \in Int /\ hi \in Int /\ lo <= hi /\ \A f \in S : lo <= x[f] /\ x[f] <= hi
  BY <1>7, <1>8, <1>9
<1> HIDE DEF lo, hi
<1>11. /\ n[S] \in Nat /\ t[S] \in Int /\ q[S] \in Int
       /\ Spread(lo, hi, n[S], t[S], q[S]) >= 0
  BY <1>5, <1>10
<1>12. hi - lo >= 2 * d
  <2> DEFINE N == n[S]
             U == t[S]
             V == q[S]
  <2>1. N \in Nat /\ N > 0 /\ U \in Int /\ V \in Int
    BY <1>4, <1>11
  <2>2. Spread(lo, hi, N, U, V) >= 0 /\ N * V - U * U >= d * d * N * N
    BY <1>4, <1>11
  <2> HIDE DEF N, U, V
  <2> QED BY <1>10, <2>1, <2>2, VarianceNeedsSpread
<1> QED BY <1>7, <1>12 DEF hi, lo

LEMMA PairSum ==
  \A iter, v, S : Sums(iter, v, S) =>
    \A f, g \in S : f # g /\ S = {f, g} /\ v[f] \in Int /\ v[g] \in Int
                    => iter[S] = v[f] + v[g]
<1> SUFFICES ASSUME NEW iter, NEW v, NEW S, Sums(iter, v, S),
                    NEW f \in S, NEW g \in S, f # g, S = {f, g},
                    v[f] \in Int, v[g] \in Int
             PROVE  iter[S] = v[f] + v[g]
  OBVIOUS
<1> DEFINE e == Picked(S)
           r == S \ {e}
           o == Picked(r)
<1>1. e \in S
  BY PickedIn
<1>2. r # {} /\ r \in SUBSET S
  OBVIOUS
<1>3. o \in r /\ r \ {o} = {}
  BY <1>1, <1>2, PickedIn
<1>4. iter[S] = v[e] + iter[r] /\ iter[r] = v[o] + iter[{}] /\ iter[{}] = 0
  <2>1. \A s \in SUBSET S : s # {} => iter[s] = v[Picked(s)] + iter[s \ {Picked(s)}]
    BY SumsStep
  <2>2. iter[S] = v[e] + iter[r]
    BY <2>1
  <2>3. iter[r] = v[o] + iter[r \ {o}]
    BY <1>2, <2>1
  <2>4. iter[{}] = 0
    BY SumsStep
  <2> QED BY <1>3, <2>2, <2>3, <2>4
<1>5. (e = f /\ o = g) \/ (e = g /\ o = f)
  BY <1>1, <1>3
<1> QED BY <1>4, <1>5

(***************************************************************************)
(* The rule is as sharp as that, and knows neither circles nor repeats:    *)
(* points divided evenly between two headings twice the limit apart always *)
(* count as a turn, such as 359 and 1 of a flight that keeps straight      *)
(* north (anomalies.py:126-129), or two observations that redelivery has   *)
(* repeated equally often (119).                                           *)
(***************************************************************************)
THEOREM TwoHeadingsTurn ==
  ASSUME NEW rows, NEW f, NEW g, f # g, rows[f] \in Nat, rows[g] = rows[f],
         Track(f) \in Int, Track(g) \in Int, HoldingStddev \in Nat,
         Track(f) - Track(g) >= 2 * HoldingStddev
  PROVE  Turns(rows, {f, g})
<1> DEFINE S == {f, g}
           T == [e \in S |-> rows[e] * Track(e)]
           Q == [e \in S |-> rows[e] * (Track(e) * Track(e))]
           k == rows[f]
           x == Track(f)
           y == Track(g)
           d == HoldingStddev
<1>1. IsFiniteSet(S)
  <2>1. S = {f} \cup {g}
    OBVIOUS
  <2>2. IsFiniteSet({f}) /\ IsFiniteSet({f} \cup {g})
    BY FS_Singleton, FS_AddElement
  <2> QED BY Zenon, <2>1, <2>2
<1>2. T[f] = k * x /\ T[g] = k * y /\ Q[f] = k * (x * x) /\ Q[g] = k * (y * y)
  OBVIOUS
<1>3. Count(rows, S) = k + k
  <2>1. PICK n : Sums(n, rows, S) /\ Count(rows, S) = n[S]
    BY <1>1, CountSums
  <2>2. n[S] = rows[f] + rows[g]
    <3>1. rows[f] \in Int /\ rows[g] \in Int
      OBVIOUS
    <3>2. f \in S /\ g \in S /\ S = {f, g}
      OBVIOUS
    <3> HIDE DEF S
    <3> QED BY <2>1, <3>1, <3>2, PairSum
  <2> QED BY <2>1, <2>2
<1>4. Weighed(rows, S, Track) = k * x + k * y
  <2>1. PICK t : Sums(t, T, S) /\ Weighed(rows, S, Track) = t[S]
    BY <1>1, TrackSums
  <2> HIDE DEF T
  <2>2. t[S] = T[f] + T[g]
    <3>1. T[f] \in Int /\ T[g] \in Int
      BY <1>2
    <3>2. f \in S /\ g \in S /\ S = {f, g}
      OBVIOUS
    <3> HIDE DEF S
    <3> QED BY <2>1, <3>1, <3>2, PairSum
  <2> QED BY <1>2, <2>1, <2>2
<1>5. Weighed(rows, S, LAMBDA e : Track(e) * Track(e)) = k * (x * x) + k * (y * y)
  <2>1. PICK q : Sums(q, Q, S) /\ Weighed(rows, S, LAMBDA e : Track(e) * Track(e)) = q[S]
    BY <1>1, SquareSums
  <2>a. Sums(q, Q, S)
    BY <2>1
  <2> HIDE DEF Q
  <2>2. q[S] = Q[f] + Q[g]
    <3>1. Q[f] \in Int /\ Q[g] \in Int
      BY <1>2
    <3>2. f \in S /\ g \in S /\ S = {f, g}
      OBVIOUS
    <3> HIDE DEF S
    <3> QED BY <2>a, <3>1, <3>2, PairSum
  <2> QED BY <1>2, <2>1, <2>2
<1>6. (k + k) * (k * (x * x) + k * (y * y)) - (k * x + k * y) * (k * x + k * y)
        >= d * d * (k + k) * (k + k)
  <2> DEFINE h == x - y
             D == 2 * d
  <2>1. k \in Nat /\ x \in Int /\ y \in Int /\ h \in Nat /\ D \in Nat /\ D <= h
    OBVIOUS
  <2>2. /\ (k + k) * (k * (x * x) + k * (y * y)) - (k * x + k * y) * (k * x + k * y)
             = (k * k) * (h * h)
        /\ d * d * (k + k) * (k + k) = (k * k) * (D * D)
    BY <2>1
  <2>3. (k * k) * (D * D) <= (k * k) * (h * h)
    <3> HIDE DEF k, h, D
    <3>1. D * D \in Nat /\ h * h \in Nat /\ D * D <= h * h
      BY <2>1
    <3> DEFINE K == k * k
               A == D * D
               B == h * h
    <3>2. K \in Nat /\ A \in Nat /\ B \in Nat /\ A <= B
      BY <2>1, <3>1
    <3> HIDE DEF K, A, B
    <3>3. K * A <= K * B
      BY <3>2
    <3> QED BY <3>3 DEF K, A, B
  <2> QED BY <2>2, <2>3
<1> QED BY <1>3, <1>4, <1>5, <1>6 DEF Turns
=============================================================================
