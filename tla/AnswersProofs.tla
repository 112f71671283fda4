----------------------------- MODULE AnswersProofs -----------------------------
(***************************************************************************)
(* Theorems about the functions of measure and correlate that answer from  *)
(* their arguments, for arguments of any length: quantiles, windows and    *)
(* intake, and what correlation makes of its evidence.                     *)
(***************************************************************************)
EXTENDS CommandsProofs

-----------------------------------------------------------------------------
(*****************************************************************************)
(* The quantile of a histogram.                                              *)
(*****************************************************************************)

Buckets == [le : (-Inf)..Inf, count : Nat]
CountIn(b, le) == IF b.le = le THEN b.count ELSE 0
\* f is the function of the counts at an edge within the first buckets.
Counts(f, bs, le) ==
    f = [i \in 0..Len(bs) |-> IF i = 0 THEN 0 ELSE f[i - 1] + CountIn(bs[i], le)]

LEMMA CountsExist ==
    ASSUME NEW bs \in Seq(Buckets), NEW le
    PROVE  \E g \in [0..Len(bs) -> Nat] : Counts(g, bs, le)
<1> DEFINE n == Len(bs)
           step == [p \in Nat \X Buckets |-> p[1] + CountIn(p[2], le)]
<1>1. n \in Nat /\ bs \in [1..n -> Buckets]
  OBVIOUS
<1>2. 0 \in Nat
  OBVIOUS
<1>3. \A m \in Nat, b \in Buckets : m + CountIn(b, le) \in Nat
  BY DEF CountIn, Buckets
<1>4. step \in [Nat \X Buckets -> Nat]
  BY <1>3
<1>5. \A m \in Nat, b \in Buckets : step[m, b] = m + CountIn(b, le)
  OBVIOUS
<1> HIDE DEF step, n
<1>6. PICK g \in [0..n -> Nat] :
         g[0] = 0 /\ \A i \in 1..n : g[i] = step[g[i - 1], bs[i]]
  <2>1. \E g \in [0..n -> Nat] : Iterates(g, 0, step, n, bs)
    BY <1>1, <1>2, <1>4, IterationExists
  <2> QED
    BY <2>1, Zenon DEF Iterates
<1>7. ASSUME NEW i \in 0..n
      PROVE  g[i] = IF i = 0 THEN 0 ELSE g[i - 1] + CountIn(bs[i], le)
  <2>1. i # 0 => i \in 1..n /\ i - 1 \in 0..n
    BY <1>1
  <2>2. i # 0 => g[i - 1] \in Nat /\ bs[i] \in Buckets
    BY <1>1, <1>6, <2>1
  <2> QED
    BY <1>5, <1>6, <2>1, <2>2
<1>8. g = [i \in 0..n |-> IF i = 0 THEN 0 ELSE g[i - 1] + CountIn(bs[i], le)]
  BY <1>6, <1>7
<1> QED
  BY <1>6, <1>8 DEF Counts, n

\* Two functions of the counts over the same buckets are one: the definition is recursive.
LEMMA CountsAgree ==
    ASSUME NEW bs \in Seq(Buckets), NEW le, NEW f, NEW g, Counts(f, bs, le), Counts(g, bs, le)
    PROVE  f[Len(bs)] = g[Len(bs)]
<1> DEFINE n == Len(bs)
           S == {k \in 0..n : f[k] = g[k]}
<1>1. n \in Nat /\ 0 \in 0..n /\ n \in 0..n
  OBVIOUS
<1>2. \A i \in 0..n : /\ f[i] = IF i = 0 THEN 0 ELSE f[i - 1] + CountIn(bs[i], le)
                      /\ g[i] = IF i = 0 THEN 0 ELSE g[i - 1] + CountIn(bs[i], le)
  BY DEF Counts
<1>3. 0 \in S
  BY <1>1, <1>2
<1>4. ASSUME NEW k \in 0..n, k \in S, k # n PROVE k + 1 \in S
  <2>1. k + 1 \in 0..n /\ k + 1 # 0 /\ (k + 1) - 1 = k
    <3> HIDE DEF S
    <3> QED
      BY <1>1, <1>4
  <2>2. f[k + 1] = f[k] + CountIn(bs[k + 1], le) /\ g[k + 1] = g[k] + CountIn(bs[k + 1], le)
    BY <1>2, <2>1
  <2> QED
    BY <1>4, <2>1, <2>2
<1> HIDE DEF S
<1>5. n \in S
  BY <1>1, <1>3, <1>4, IntervalInduction
<1> QED
  BY <1>5 DEF S, n

LEMMA CountIsLast ==
    ASSUME NEW bs \in Seq(Buckets), NEW le
    PROVE  \E f \in [0..Len(bs) -> Nat] : Counts(f, bs, le) /\ CountAt(bs, le) = f[Len(bs)]
<1> DEFINE f == CHOOSE g : Counts(g, bs, le)
<1>1. \E g \in [0..Len(bs) -> Nat] : Counts(g, bs, le)
  BY CountsExist
<1>2. PICK g \in [0..Len(bs) -> Nat] : Counts(g, bs, le)
  BY <1>1
<1>3. Counts(f, bs, le)
  BY <1>1, Zenon
<1>4. CountAt(bs, le) = f[Len(bs)]
  BY Zenon DEF CountAt, Counts, CountIn
<1> HIDE DEF f
<1>5. f[Len(bs)] = g[Len(bs)]
  BY <1>2, <1>3, CountsAgree
<1> QED
  BY <1>2, <1>4, <1>5

\* Sums do not depend on the order.
LEMMA CountReversed ==
    ASSUME NEW bs \in Seq(Buckets), NEW le
    PROVE  /\ Reverse(bs) \in Seq(Buckets) /\ CountAt(Reverse(bs), le) = CountAt(bs, le)
           /\ CountAt(bs, le) \in Nat
<1> DEFINE n == Len(bs)
           r == Reverse(bs)
<1>1. n \in Nat /\ 0 \in 0..n /\ n \in 0..n /\ \A i \in 1..n : bs[i] \in Buckets
  OBVIOUS
<1>2. r \in Seq(Buckets) /\ Len(r) = n /\ \A i \in 1..n : r[i] = bs[(n - i) + 1]
  <2>1. \A i \in 1..n : (n - i) + 1 \in 1..n
    BY <1>1
  <2>2. r = [i \in 1..n |-> bs[(n - i) + 1]]
    BY DEF Reverse
  <2> HIDE DEF r, n
  <2> QED
    BY <1>1, <2>1, <2>2
<1> HIDE DEF r, n
<1>3. PICK f \in [0..n -> Nat] : Counts(f, bs, le) /\ CountAt(bs, le) = f[n]
  BY CountIsLast DEF n
<1>4. PICK g \in [0..n -> Nat] : Counts(g, r, le) /\ CountAt(r, le) = g[n]
  BY <1>2, CountIsLast
<1>5. \A i \in 0..n : /\ f[i] = IF i = 0 THEN 0 ELSE f[i - 1] + CountIn(bs[i], le)
                      /\ g[i] = IF i = 0 THEN 0 ELSE g[i - 1] + CountIn(r[i], le)
  BY <1>2, <1>3, <1>4 DEF Counts, n
<1> DEFINE S == {k \in 0..n : g[k] = f[n] - f[n - k]}
<1>6. 0 \in S
  <2>1. n - 0 = n /\ g[0] = 0 /\ f[n] \in Int
    BY <1>1, <1>3, <1>5
  <2> QED
    BY <1>1, <2>1
<1>7. ASSUME NEW k \in 0..n, k \in S, k # n PROVE k + 1 \in S
  <2> DEFINE m == n - k
  <2>1. /\ k + 1 \in 0..n /\ k + 1 \in 1..n /\ k + 1 # 0 /\ (k + 1) - 1 = k
        /\ m \in 0..n /\ m # 0 /\ m - 1 \in 0..n /\ n - (k + 1) = m - 1 /\ (n - (k + 1)) + 1 = m
    <3> HIDE DEF S
    <3> QED
      BY <1>1, <1>7
  <2>2. g[k] = f[n] - f[m]
    BY <1>7
  <2> HIDE DEF S, m
  <2>3. g[k + 1] = g[k] + CountIn(bs[m], le)
    BY <1>2, <1>5, <2>1
  <2>4. f[m] = f[m - 1] + CountIn(bs[m], le)
    BY <1>5, <2>1
  <2>5. f[n] \in Int /\ f[m] \in Int /\ f[m - 1] \in Int /\ g[k] \in Int
    BY <1>1, <1>3, <1>4, <2>1
  <2>6. bs[m] \in Buckets
    BY <1>1, <2>1
  <2>7. CountIn(bs[m], le) \in Int
    BY <2>6 DEF CountIn, Buckets
  <2>8. g[k + 1] = f[n] - f[m - 1]
    BY <2>2, <2>3, <2>4, <2>5, <2>7
  <2> QED
    BY <2>1, <2>8 DEF S
<1>8. n \in S
  <2>1. 0 \in Nat
    OBVIOUS
  <2> HIDE DEF S
  <2> QED
    BY <1>1, <1>6, <1>7, <2>1, IntervalInduction
<1>9. g[n] = f[n]
  BY <1>1, <1>5, <1>8
<1> QED
  BY <1>1, <1>2, <1>3, <1>4, <1>9 DEF r

LEMMA EdgesFinite ==
    ASSUME NEW bs \in Seq(Buckets)
    PROVE  /\ IsFiniteSet(Edges(bs)) /\ Edges(bs) \in SUBSET ((-Inf)..Inf)
           /\ Edges(Reverse(bs)) = Edges(bs)
<1> DEFINE n == Len(bs)
           r == Reverse(bs)
<1>1. n \in Nat /\ DOMAIN bs = 1..n /\ \A i \in 1..n : bs[i] \in Buckets
  OBVIOUS
<1>2. DOMAIN r = 1..n /\ \A i \in 1..n : r[i] = bs[(n - i) + 1]
  BY DEF Reverse
<1> HIDE DEF r, n
<1>3. IsFiniteSet(Edges(bs))
  <2> DEFINE g == [i \in DOMAIN bs |-> bs[i].le]
  <2>1. g \in Surjection(DOMAIN bs, Edges(bs))
    BY DEF Surjection, Edges
  <2>2. IsFiniteSet(DOMAIN bs)
    BY <1>1, FS_Interval
  <2> QED
    BY <2>1, <2>2, FS_Surjection
<1>4. Edges(bs) \in SUBSET ((-Inf)..Inf)
  <2>1. \A i \in 1..n : bs[i].le \in (-Inf)..Inf
    BY <1>1 DEF Buckets
  <2> QED
    BY <1>1, <2>1 DEF Edges
<1>5. \A i \in 1..n : /\ (n - i) + 1 \in 1..n
                      /\ r[i] = bs[(n - i) + 1] /\ bs[i] = r[(n - i) + 1]
  <2> SUFFICES ASSUME NEW i \in 1..n
               PROVE  /\ (n - i) + 1 \in 1..n
                      /\ r[i] = bs[(n - i) + 1] /\ bs[i] = r[(n - i) + 1]
    OBVIOUS
  <2>1. (n - i) + 1 \in 1..n /\ (n - ((n - i) + 1)) + 1 = i
    BY <1>1
  <2> QED
    BY <1>2, <2>1
<1>6. Edges(r) = Edges(bs)
  <2>1. \A i \in 1..n : r[i].le \in Edges(bs)
    BY <1>1, <1>5 DEF Edges
  <2>2. \A i \in 1..n : bs[i].le \in Edges(r)
    BY <1>2, <1>5 DEF Edges
  <2>3. \A l \in Edges(r) : l \in Edges(bs)
    BY <1>2, <2>1 DEF Edges
  <2>4. \A l \in Edges(bs) : l \in Edges(r)
    BY <1>1, <2>2 DEF Edges
  <2> QED
    BY <2>3, <2>4
<1> QED
  BY <1>3, <1>4, <1>6 DEF r

\* The counts are made monotonic.
LEMMA CumulativeGrows ==
    ASSUME NEW bs \in Seq(Buckets)
    PROVE  /\ \A le \in Int : /\ Cumulative(bs, le) \in Nat
                              /\ Cumulative(Reverse(bs), le) = Cumulative(bs, le)
           /\ \A k, l \in Int : k <= l => Cumulative(bs, k) <= Cumulative(bs, l)
<1> DEFINE At(le) == {0} \union {CountAt(bs, l) : l \in {m \in Edges(bs) : m <= le}}
<1>1. Edges(bs) \in SUBSET Int /\ IsFiniteSet(Edges(bs)) /\ Edges(Reverse(bs)) = Edges(bs)
  <2>1. (-Inf)..Inf \subseteq Int
    BY DEF Inf
  <2> QED
    BY <2>1, EdgesFinite
<1>2. \A le : At(le) \in SUBSET Nat
  <2>1. \A l : CountAt(bs, l) \in Nat
    BY CountReversed
  <2> QED
    BY <2>1
<1>3. \A le : IsFiniteSet(At(le))
  <2> SUFFICES ASSUME NEW le PROVE IsFiniteSet(At(le))
    OBVIOUS
  <2> DEFINE M == {m \in Edges(bs) : m <= le}
             C == {CountAt(bs, l) : l \in M}
             g == [l \in M |-> CountAt(bs, l)]
  <2>1. IsFiniteSet(M)
    BY <1>1, FS_Subset
  <2>2. g \in Surjection(M, C)
    BY DEF Surjection
  <2>3. IsFiniteSet(C)
    BY <2>1, <2>2, FS_Surjection
  <2>4. At(le) = C \union {0}
    OBVIOUS
  <2> HIDE DEF At, C
  <2> QED
    BY <2>3, <2>4, FS_AddElement
<1>4. \A le : 0 \in At(le)
  OBVIOUS
<1>5. \A k, l \in Int : k <= l => At(k) \subseteq At(l)
  BY <1>1
<1>6. \A le : Cumulative(bs, le) = Max(At(le))
  BY DEF Cumulative
<1>7. \A le : Cumulative(Reverse(bs), le) = Cumulative(bs, le)
  <2> SUFFICES ASSUME NEW le PROVE Cumulative(Reverse(bs), le) = Cumulative(bs, le)
    OBVIOUS
  <2>1. \A l : CountAt(Reverse(bs), l) = CountAt(bs, l)
    BY CountReversed
  <2>2. {CountAt(Reverse(bs), l) : l \in {m \in Edges(Reverse(bs)) : m <= le}}
          = {CountAt(bs, l) : l \in {m \in Edges(bs) : m <= le}}
    BY <1>1, <2>1
  <2> QED
    BY <2>2 DEF Cumulative
<1> HIDE DEF At
<1>8. \A le : Max(At(le)) \in At(le) /\ \A y \in At(le) : y <= Max(At(le))
  <2> SUFFICES ASSUME NEW le PROVE Max(At(le)) \in At(le) /\ \A y \in At(le) : y <= Max(At(le))
    OBVIOUS
  <2>1. At(le) \in SUBSET Int /\ IsFiniteSet(At(le)) /\ At(le) # {}
    BY <1>2, <1>3, <1>4
  <2> QED
    BY <2>1, FiniteEnds
<1> QED
  BY <1>2, <1>5, <1>6, <1>7, <1>8

\* A histogram that has something to measure, as the quantile reads it.
Measurable(cum) ==
    /\ IsFiniteSet(DOMAIN cum) /\ DOMAIN cum \in SUBSET ((-Inf)..Inf) /\ Inf \in DOMAIN cum
    /\ cum \in [DOMAIN cum -> Nat] /\ cum[Inf] > 0
    /\ \A k, l \in DOMAIN cum : k <= l => cum[k] <= cum[l]

\* A fraction up to u and one from w on are in order when u and w are.
LEMMA FractionsInOrder ==
    ASSUME NEW x \in Int, NEW y \in Nat, NEW u \in Int, x <= u * y,
           NEW z \in Int, NEW d \in Nat, NEW w \in Int, w * d <= z, u <= w
    PROVE  x * d <= z * y
<1>1. x * d <= (u * y) * d
  BY ProductGrows
<1>2. (w * d) * y <= z * y
  BY ProductGrows
<1>3. y * d \in Nat /\ u * (y * d) <= w * (y * d)
  <2>1. y * d \in Nat
    OBVIOUS
  <2> QED
    BY <2>1, ProductGrows
<1>4. (u * y) * d = u * (y * d) /\ (w * d) * y = w * (y * d)
  OBVIOUS
<1>5. /\ x * d \in Int /\ (u * y) * d \in Int /\ (w * d) * y \in Int /\ z * y \in Int
  OBVIOUS
<1> QED
  BY <1>1, <1>2, <1>3, <1>4, <1>5

\* The upper edge is the first whose count reaches the rank.
LEMMA UpperReaches ==
    ASSUME NEW cum, Measurable(cum), NEW q \in 0..Quarters
    PROVE  /\ Upper(q, cum) \in DOMAIN cum /\ q * cum[Inf] \in Nat
           /\ q * cum[Inf] <= Quarters * cum[Inf]
           /\ Quarters * cum[Upper(q, cum)] >= q * cum[Inf]
           /\ \A l \in DOMAIN cum : Quarters * cum[l] >= q * cum[Inf] => Upper(q, cum) <= l
<1> DEFINE U == {l \in DOMAIN cum : Quarters * cum[l] >= q * cum[Inf]}
<1>1. IsFiniteSet(U) /\ U \in SUBSET Int
  <2>1. (-Inf)..Inf \subseteq Int
    BY DEF Inf
  <2> QED
    BY <2>1, FS_Subset DEF Measurable
<1>2. cum[Inf] \in Nat /\ Inf \in DOMAIN cum
  BY DEF Measurable
<1>3. q * cum[Inf] \in Nat /\ q * cum[Inf] <= Quarters * cum[Inf]
  <2>1. q \in Nat /\ q <= 4
    BY DEF Quarters
  <2>2. PICK t : t = cum[Inf]
    OBVIOUS
  <2>3. t \in Nat
    BY <1>2, <2>2
  <2>4. q * t \in Nat /\ q * t <= 4 * t
    BY <2>1, <2>3, ProductGrows
  <2> QED
    BY <2>2, <2>4 DEF Quarters
<1>4. Inf \in U
  BY <1>2, <1>3
<1>5. Min(U) \in U /\ \A y \in U : Min(U) <= y
  <2> HIDE DEF U
  <2> QED
    BY <1>1, <1>4, FiniteEnds
<1>6. Upper(q, cum) = Min(U)
  BY DEF Upper
<1> QED
  BY <1>3, <1>5, <1>6

\* The parts of a quantile.
LesserOf(q, cum) == {l \in DOMAIN cum : l < Upper(q, cum)}
LowerOf(q, cum) == IF LesserOf(q, cum) = {} THEN 0 ELSE Max(LesserOf(q, cum))
BelowOf(q, cum) == IF LesserOf(q, cum) = {} THEN 0 ELSE cum[LowerOf(q, cum)]
HereOf(q, cum) == cum[Upper(q, cum)] - BelowOf(q, cum)

LEMMA PartsOfQuantile ==
    ASSUME NEW cum, Measurable(cum), NEW q \in 0..Quarters
    PROVE  /\ LesserOf(q, cum) # {} =>
                 /\ LowerOf(q, cum) \in LesserOf(q, cum)
                 /\ \A l \in LesserOf(q, cum) : l <= LowerOf(q, cum)
                 /\ Quarters * BelowOf(q, cum) < q * cum[Inf]
           /\ LowerOf(q, cum) \in Int /\ Upper(q, cum) \in Int
           /\ BelowOf(q, cum) \in Nat /\ cum[Upper(q, cum)] \in Nat
           /\ BelowOf(q, cum) <= cum[Upper(q, cum)] /\ HereOf(q, cum) \in Nat
           /\ Quarters * BelowOf(q, cum) <= q * cum[Inf]
<1> DEFINE S == LesserOf(q, cum)
           u == Upper(q, cum)
<1>1. IsFiniteSet(S) /\ S \in SUBSET Int /\ DOMAIN cum \in SUBSET Int
  <2>1. (-Inf)..Inf \subseteq Int
    BY DEF Inf
  <2> QED
    BY <2>1, FS_Subset DEF Measurable, LesserOf
<1>2. /\ u \in DOMAIN cum /\ u \in Int /\ cum[u] \in Nat /\ q * cum[Inf] \in Nat
      /\ \A l \in DOMAIN cum : cum[l] \in Nat
  BY <1>1, UpperReaches DEF Measurable
<1> HIDE DEF S, u
<1>3. CASE S # {}
  <2> DEFINE m == Max(S)
  <2>1. m \in S /\ \A y \in S : y <= m
    BY <1>1, <1>3, FiniteEnds
  <2>2. LowerOf(q, cum) = m /\ BelowOf(q, cum) = cum[m]
    BY <1>3 DEF LowerOf, BelowOf, S
  <2> HIDE DEF m
  <2>3. m \in DOMAIN cum /\ m < u /\ m \in Int /\ cum[m] \in Nat
    BY <1>1, <1>2, <2>1 DEF S, LesserOf, u
  <2>4. ~(Quarters * cum[m] >= q * cum[Inf])
    <3>1. ~(u <= m)
      BY <1>2, <2>3
    <3> QED
      BY <2>3, <3>1, UpperReaches DEF u
  <2>5. Quarters * cum[m] < q * cum[Inf]
    <3>1. PICK a : a = Quarters * cum[m]
      OBVIOUS
    <3>2. a \in Int
      BY <2>3, <3>1 DEF Quarters
    <3> QED
      BY <1>2, <2>4, <3>1, <3>2
  <2>6. cum[m] <= cum[u]
    BY <1>2, <2>3 DEF Measurable
  <2>7. HereOf(q, cum) = cum[u] - cum[m]
    BY <2>2 DEF HereOf, u
  <2>8. HereOf(q, cum) \in Nat
    BY <1>2, <2>3, <2>6, <2>7
  <2>9. Quarters * cum[m] <= q * cum[Inf]
    <3>1. PICK a : a = Quarters * cum[m]
      OBVIOUS
    <3>2. a \in Int
      BY <2>3, <3>1 DEF Quarters
    <3> QED
      BY <1>2, <2>5, <3>1, <3>2
  <2> QED
    BY <1>2, <2>1, <2>2, <2>3, <2>5, <2>6, <2>8, <2>9 DEF S, u
<1>4. CASE S = {}
  <2>1. LowerOf(q, cum) = 0 /\ BelowOf(q, cum) = 0
    BY <1>4 DEF LowerOf, BelowOf, S
  <2>2. HereOf(q, cum) = cum[u] - 0
    BY <2>1 DEF HereOf, u
  <2>3. HereOf(q, cum) \in Nat
    BY <1>2, <2>2
  <2>4. Quarters * 0 = 0
    BY DEF Quarters
  <2>5. Quarters * BelowOf(q, cum) <= q * cum[Inf] /\ BelowOf(q, cum) <= cum[u]
    BY <1>2, <2>1, <2>4
  <2> QED
    BY <1>2, <1>4, <2>1, <2>3, <2>5 DEF S, u
<1> QED
  BY <1>3, <1>4

\* What a quantile is, by where its rank falls.
LEMMA QuantileCases ==
    ASSUME NEW cum, NEW q, NEW v, v = Interpolated(q, cum)
    PROVE  LET u == Upper(q, cum)
               lower == LowerOf(q, cum)
               here == HereOf(q, cum)
           IN  /\ u = Inf => v = IF lower = -Inf THEN Nothing ELSE AtLeast(lower)
               /\ (u # Inf /\ LesserOf(q, cum) = {} /\ u <= 0)
                      => v = IF u = -Inf THEN Nothing ELSE Value(u, 1)
               /\ (u # Inf /\ ~(LesserOf(q, cum) = {} /\ u <= 0))
                      => v = IF here = 0 \/ lower = -Inf THEN Nothing
                             ELSE Value(lower * Quarters * here
                                          + (u - lower) * (q * cum[Inf] - Quarters * BelowOf(q, cum)),
                                        Quarters * here)
<1>1. v = LET upper == Upper(q, cum)
              lesser == LesserOf(q, cum)
              lower == LowerOf(q, cum)
              below == BelowOf(q, cum)
              here == HereOf(q, cum)
          IN  CASE upper = Inf -> IF lower = -Inf THEN Nothing ELSE AtLeast(lower)
                [] upper # Inf /\ lesser = {} /\ upper <= 0 ->
                      IF upper = -Inf THEN Nothing ELSE Value(upper, 1)
                [] OTHER ->
                      IF here = 0 \/ lower = -Inf THEN Nothing
                      ELSE Value(lower * Quarters * here
                                   + (upper - lower) * (q * cum[Inf] - Quarters * below),
                                 Quarters * here)
  BY Zenon DEF Interpolated, LesserOf, LowerOf, BelowOf, HereOf
<1> QED
  BY <1>1

LEMMA QuantileBetween ==
    ASSUME NEW cum, Measurable(cum), NEW q \in 0..Quarters, NEW v, v = Interpolated(q, cum)
    PROVE  /\ v.kind \in {"none", "value", "atLeast"} /\ v.num \in Int /\ v.den \in Nat
           /\ v.kind # "none" => v.den > 0
           /\ v.kind = "value" => Upper(q, cum) # Inf /\ v.num <= Upper(q, cum) * v.den
           /\ (v.kind # "none" /\ LesserOf(q, cum) # {}) => LowerOf(q, cum) * v.den <= v.num
           /\ v.kind = "atLeast" <=> Upper(q, cum) = Inf /\ LowerOf(q, cum) # -Inf
<1> DEFINE u == Upper(q, cum)
           lower == LowerOf(q, cum)
           below == BelowOf(q, cum)
           here == HereOf(q, cum)
           lesser == LesserOf(q, cum)
           rank == q * cum[Inf]
<1>1. /\ lesser # {} => lower \in lesser
      /\ lower \in Int /\ u \in Int /\ below \in Nat /\ cum[u] \in Nat
      /\ here \in Nat /\ Quarters * below <= rank /\ here = cum[u] - below
  BY PartsOfQuantile DEF HereOf
<1>2. rank \in Nat /\ rank <= Quarters * cum[u]
  <2>1. Quarters * cum[u] >= rank /\ rank \in Nat
    BY UpperReaches
  <2> HIDE DEF rank
  <2>2. Quarters * cum[u] \in Int
    BY <1>1 DEF Quarters
  <2> QED
    BY <2>1, <2>2
<1>3. lesser # {} => lower < u
  BY <1>1 DEF LesserOf
<1>4. /\ u = Inf => v = IF lower = -Inf THEN Nothing ELSE AtLeast(lower)
      /\ (u # Inf /\ lesser = {} /\ u <= 0) => v = IF u = -Inf THEN Nothing ELSE Value(u, 1)
      /\ (u # Inf /\ ~(lesser = {} /\ u <= 0))
             => v = IF here = 0 \/ lower = -Inf THEN Nothing
                    ELSE Value(lower * Quarters * here + (u - lower) * (rank - Quarters * below),
                               Quarters * here)
  BY QuantileCases
<1>5. lesser = {} => lower = 0
  BY DEF LowerOf
<1> HIDE DEF u, lower, below, here, lesser, rank
<1>6. CASE v = Nothing
  <2>1. v.kind = "none" /\ v.num = 0 /\ v.den = 1
    BY <1>6 DEF Nothing
  <2>2. ~(u = Inf /\ lower # -Inf)
    BY <1>4, <2>1 DEF AtLeast
  <2> QED
    BY <2>1, <2>2 DEF u, lower
<1>7. CASE v = AtLeast(lower) /\ u = Inf /\ lower # -Inf
  <2>1. v.kind = "atLeast" /\ v.num = lower /\ v.den = 1
    BY <1>7 DEF AtLeast
  <2>2. lower * 1 <= lower
    BY <1>1
  <2> QED
    BY <1>1, <1>7, <2>1, <2>2 DEF u, lower
<1>8. CASE v = Value(u, 1) /\ u # Inf /\ lesser = {}
  <2>1. v.kind = "value" /\ v.num = u /\ v.den = 1
    BY <1>8 DEF Value
  <2>2. u <= u * 1
    BY <1>1
  <2> QED
    BY <1>1, <1>8, <2>1, <2>2 DEF u, lesser
<1>9. CASE /\ u # Inf /\ ~(lesser = {} /\ u <= 0) /\ here # 0
           /\ v = Value(lower * Quarters * here + (u - lower) * (rank - Quarters * below),
                        Quarters * here)
  <2> DEFINE d == Quarters * here
             w == u - lower
             a == rank - Quarters * below
             x == lower * Quarters * here + w * a
  <2>1. d \in Nat /\ d > 0
    BY <1>1, <1>9 DEF Quarters
  <2>2. w \in Nat
    BY <1>1, <1>3, <1>5, <1>9
  <2>3. a \in Nat /\ a <= d
    BY <1>1, <1>2 DEF Quarters
  <2>4. lower * Quarters * here = lower * d
    BY <1>1 DEF Quarters
  <2>5. w * d = u * d - lower * d
    <3> HIDE DEF d
    <3> QED
      BY <1>1, <2>1
  <2>6. v.kind = "value" /\ v.num = x /\ v.den = d
    BY <1>9 DEF Value
  <2> HIDE DEF w, a, d
  <2>7. w * a \in Nat /\ w * a <= w * d /\ lower * d \in Int /\ u * d \in Int
    <3>1. a * w <= d * w /\ a * w \in Nat
      BY <2>1, <2>2, <2>3, ProductGrows
    <3>2. a * w = w * a /\ d * w = w * d
      BY <2>1, <2>2, <2>3
    <3> QED
      BY <1>1, <2>1, <3>1, <3>2
  <2>8. x = lower * d + w * a
    BY <2>4
  <2> HIDE DEF x
  <2>9. x \in Int /\ x <= u * d /\ lower * d <= x
    <3>1. PICK y, z, s : y = w * a /\ z = lower * d /\ s = u * d
      OBVIOUS
    <3>2. y \in Nat /\ z \in Int /\ s \in Int /\ y <= s - z /\ x = z + y
      BY <2>5, <2>7, <2>8, <3>1
    <3> QED
      BY <3>1, <3>2
  <2> QED
    BY <1>9, <2>1, <2>6, <2>9 DEF u, lower
<1> QED
  BY <1>4, <1>6, <1>7, <1>8, <1>9

\* A greater rank is not below a smaller one.
LEMMA QuantileGrows ==
    ASSUME NEW cum, Measurable(cum), NEW q \in 0..Quarters, q + 1 \in 0..Quarters,
           NEW v, v = Interpolated(q, cum), v.kind # "none",
           NEW more, more = Interpolated(q + 1, cum), more.kind # "none"
    PROVE  AsLeast(v, more)
<1> DEFINE u == Upper(q, cum)
           t == Upper(q + 1, cum)
           r == q * cum[Inf]
           s == (q + 1) * cum[Inf]
<1>1. cum[Inf] \in Nat /\ q \in Nat /\ DOMAIN cum \in SUBSET Int
  <2>1. (-Inf)..Inf \subseteq Int
    BY DEF Inf
  <2> QED
    BY <2>1 DEF Measurable, Quarters
<1>2. r \in Nat /\ s \in Nat /\ r <= s
  <2>1. PICK n : n = cum[Inf]
    OBVIOUS
  <2>2. q * n \in Nat /\ (q + 1) * n \in Nat /\ q * n <= (q + 1) * n
    BY <1>1, <2>1, ProductGrows
  <2> QED
    BY <2>1, <2>2
<1>3. /\ u \in DOMAIN cum /\ t \in DOMAIN cum /\ u \in Int /\ t \in Int
      /\ u <= t
  <2>1. /\ u \in DOMAIN cum /\ t \in DOMAIN cum /\ Quarters * cum[t] >= s
        /\ \A l \in DOMAIN cum : Quarters * cum[l] >= r => u <= l
    BY UpperReaches
  <2>2. cum[t] \in Nat /\ u \in Int /\ t \in Int
    BY <1>1, <2>1 DEF Measurable
  <2> HIDE DEF r, s
  <2>3. Quarters * cum[t] >= r
    <3>1. PICK a : a = Quarters * cum[t]
      OBVIOUS
    <3>2. a \in Int
      BY <2>2, <3>1 DEF Quarters
    <3> QED
      BY <1>2, <2>1, <3>1, <3>2
  <2> QED
    BY <2>1, <2>2, <2>3
<1>4. /\ v.num \in Int /\ v.den \in Nat /\ more.num \in Int /\ more.den \in Nat
      /\ v.kind = "value" => u # Inf /\ v.num <= u * v.den
      /\ LesserOf(q + 1, cum) # {} => LowerOf(q + 1, cum) * more.den <= more.num
      /\ v.kind = "atLeast" => u = Inf
      /\ v.kind \in {"value", "atLeast"}
  BY QuantileBetween
<1>5. CASE u < t
  <2>1. u # Inf
    <3>1. t <= Inf
      BY <1>3 DEF Measurable
    <3> QED
      BY <1>3, <1>5, <3>1 DEF Inf
  <2>2. v.num <= u * v.den
    BY <1>4, <2>1
  <2>3. u \in LesserOf(q + 1, cum)
    BY <1>3, <1>5 DEF LesserOf
  <2> DEFINE w == LowerOf(q + 1, cum)
  <2>4. w \in Int /\ u <= w
    BY <2>3, PartsOfQuantile
  <2>5. w * more.den <= more.num
    BY <1>4, <2>3
  <2> HIDE DEF u, w
  <2>6. v.num * more.den <= more.num * v.den
    BY <1>3, <1>4, <2>2, <2>4, <2>5, FractionsInOrder
  <2> QED
    BY <2>6 DEF AsLeast
<1>6. CASE u = t
  <2>1. /\ LesserOf(q + 1, cum) = LesserOf(q, cum) /\ LowerOf(q + 1, cum) = LowerOf(q, cum)
        /\ BelowOf(q + 1, cum) = BelowOf(q, cum) /\ HereOf(q + 1, cum) = HereOf(q, cum)
    BY <1>6 DEF LesserOf, LowerOf, BelowOf, HereOf
  <2> DEFINE lower == LowerOf(q, cum)
             below == BelowOf(q, cum)
             here == HereOf(q, cum)
             lesser == LesserOf(q, cum)
  <2>2. /\ u = Inf => v = IF lower = -Inf THEN Nothing ELSE AtLeast(lower)
        /\ (u # Inf /\ lesser = {} /\ u <= 0) => v = IF u = -Inf THEN Nothing ELSE Value(u, 1)
        /\ (u # Inf /\ ~(lesser = {} /\ u <= 0))
             => v = IF here = 0 \/ lower = -Inf THEN Nothing
                    ELSE Value(lower * Quarters * here + (u - lower) * (r - Quarters * below),
                               Quarters * here)
    BY QuantileCases
  <2>3. /\ u = Inf => more = IF lower = -Inf THEN Nothing ELSE AtLeast(lower)
        /\ (u # Inf /\ lesser = {} /\ u <= 0) => more = IF u = -Inf THEN Nothing ELSE Value(u, 1)
        /\ (u # Inf /\ ~(lesser = {} /\ u <= 0))
             => more = IF here = 0 \/ lower = -Inf THEN Nothing
                    ELSE Value(lower * Quarters * here + (u - lower) * (s - Quarters * below),
                               Quarters * here)
    <3>1. /\ t = Inf => more = IF LowerOf(q + 1, cum) = -Inf THEN Nothing ELSE AtLeast(LowerOf(q + 1, cum))
          /\ (t # Inf /\ LesserOf(q + 1, cum) = {} /\ t <= 0)
                => more = IF t = -Inf THEN Nothing ELSE Value(t, 1)
          /\ (t # Inf /\ ~(LesserOf(q + 1, cum) = {} /\ t <= 0))
             => more = IF HereOf(q + 1, cum) = 0 \/ LowerOf(q + 1, cum) = -Inf THEN Nothing
                    ELSE Value(LowerOf(q + 1, cum) * Quarters * HereOf(q + 1, cum)
                                 + (t - LowerOf(q + 1, cum)) * (s - Quarters * BelowOf(q + 1, cum)),
                               Quarters * HereOf(q + 1, cum))
      BY QuantileCases
    <3> HIDE DEF t, s, u
    <3> QED
      BY <1>6, <2>1, <3>1
  <2>4. /\ lower \in Int /\ below \in Nat /\ here \in Nat
        /\ lesser # {} => lower \in lesser
        /\ lesser = {} => lower = 0
    BY PartsOfQuantile DEF LowerOf
  <2>5. lesser # {} => lower < u
    BY <2>4 DEF LesserOf
  <2> HIDE DEF lower, below, here, lesser, u, t, r, s
  <2>6. CASE v = more
    BY <1>4, <2>6 DEF AsLeast
  <2>7. CASE /\ u # Inf /\ ~(lesser = {} /\ u <= 0) /\ here # 0
             /\ v = Value(lower * Quarters * here + (u - lower) * (r - Quarters * below),
                          Quarters * here)
             /\ more = Value(lower * Quarters * here + (u - lower) * (s - Quarters * below),
                             Quarters * here)
    <3> DEFINE d == Quarters * here
               w == u - lower
               a == r - Quarters * below
               b == s - Quarters * below
               base == lower * Quarters * here
    <3>1. w \in Nat
      BY <1>3, <2>4, <2>5, <2>7
    <3>2. a \in Int /\ b \in Int /\ a <= b /\ d \in Nat /\ base \in Int
      BY <1>2, <2>4 DEF Quarters
    <3>3. v.num = base + w * a /\ v.den = d /\ more.num = base + w * b /\ more.den = d
      BY <2>7 DEF Value
    <3> HIDE DEF d, w, a, b, base
    <3>4. a * w <= b * w /\ a * w \in Int /\ b * w \in Int /\ w * a = a * w /\ w * b = b * w
      BY <3>1, <3>2, ProductGrows
    <3>5. v.num <= more.num /\ v.num \in Int /\ more.num \in Int
      <4>1. PICK y, z : y = w * a /\ z = w * b
        OBVIOUS
      <4> QED
        BY <3>2, <3>3, <3>4, <4>1
    <3>6. v.num * d <= more.num * d
      BY <3>2, <3>5, ProductGrows
    <3> QED
      BY <3>3, <3>6 DEF AsLeast
  <2>8. v # Nothing /\ more # Nothing
    BY DEF Nothing
  <2> QED
    BY <2>2, <2>3, <2>6, <2>7, <2>8
<1> QED
  BY <1>3, <1>5, <1>6

LEMMA PairSize ==
    ASSUME NEW a, NEW b, a # b
    PROVE  IsFiniteSet({a, b}) /\ Cardinality({a, b}) = 2
<1>1. IsFiniteSet({a}) /\ Cardinality({a}) = 1
  BY FS_Singleton
<1>2. {a, b} = {a} \union {b} /\ b \notin {a}
  OBVIOUS
<1> QED
  BY <1>1, <1>2, FS_AddElement

\* The sampler's quantile, whatever the buckets: it does not depend on their order, grows
\* with the rank, never passes its upper edge, and is open upwards exactly where the rank
\* falls beyond the last finite edge.
THEOREM QuantileHonest ==
    ASSUME call.about = "quantile" =>
               call.q \in 0..(Quarters - 1) /\ call.buckets \in Seq(Buckets)
    PROVE  QuantileIsHonest
<1> SUFFICES ASSUME call.about = "quantile" PROVE QuantileIsHonest
  BY DEF QuantileIsHonest
<1> DEFINE bs == call.buckets
           E == Edges(bs)
           cum == [l \in E |-> Cumulative(bs, l)]
           v == Quantile(call.q, bs)
           more == Quantile(call.q + 1, bs)
           few == Cardinality(E) < 2 \/ Inf \notin E \/ Total(bs) <= 0
<1>1. /\ bs \in Seq(Buckets) /\ call.q \in 0..Quarters /\ call.q + 1 \in 0..Quarters
  BY DEF Quarters
<1>2. /\ IsFiniteSet(E) /\ E \in SUBSET ((-Inf)..Inf) /\ E \in SUBSET Int
      /\ Edges(Reverse(bs)) = E /\ Cardinality(E) \in Nat
  <2>1. (-Inf)..Inf \subseteq Int
    BY DEF Inf
  <2> QED
    BY <1>1, <2>1, EdgesFinite, FS_CardinalityType
<1> HIDE DEF bs, E
<1>3. /\ \A le \in Int : /\ Cumulative(bs, le) \in Nat
                         /\ Cumulative(Reverse(bs), le) = Cumulative(bs, le)
      /\ \A k, l \in Int : k <= l => Cumulative(bs, k) <= Cumulative(bs, l)
  BY <1>1, CumulativeGrows
<1>4. Total(bs) = Cumulative(bs, Inf) /\ Total(bs) \in Nat /\ Total(Reverse(bs)) = Total(bs)
  BY <1>3 DEF Total, Inf
<1>5. Quantile(call.q, Reverse(bs)) = v
  <2>1. [l \in Edges(Reverse(bs)) |-> Cumulative(Reverse(bs), l)] = cum
    BY <1>2, <1>3
  <2> HIDE DEF cum
  <2>2. Quantile(call.q, Reverse(bs)) = IF few THEN Nothing ELSE Interpolated(call.q, cum)
    BY <1>2, <1>4, <2>1 DEF Quantile
  <2> QED
    BY <2>2 DEF Quantile, cum, E
<1>6. CASE few
  <2>1. v = Nothing /\ more = Nothing
    BY <1>6 DEF Quantile, E
  <2>2. ~(Inf \in E /\ Cardinality(E) > 1 /\ Total(bs) > 0)
    BY <1>2, <1>4, <1>6
  <2> HIDE DEF v, more
  <2>3. v.kind = "none" /\ v.kind # "atLeast" /\ v.kind # "value"
    BY <2>1 DEF Nothing
  <2> QED
    BY <1>5, <2>2, <2>3, Zenon DEF QuantileIsHonest, v, more, bs, E
<1>7. CASE ~few
  <2>1. v = Interpolated(call.q, cum) /\ more = Interpolated(call.q + 1, cum)
    BY <1>7, Zenon DEF Quantile, E
  <2>2. /\ Inf \in E /\ Cardinality(E) > 1 /\ Total(bs) > 0
    BY <1>2, <1>4, <1>7
  <2>3. /\ DOMAIN cum = E /\ \A l \in E : cum[l] = Cumulative(bs, l) /\ cum[l] \in Nat
    BY <1>2, <1>3
  <2> HIDE DEF cum, v, more, few
  <2>4. cum[Inf] = Total(bs)
    BY <1>4, <2>2, <2>3
  <2>5. Measurable(cum)
    <3>1. \A k, l \in E : k <= l => cum[k] <= cum[l]
      BY <1>2, <1>3, <2>3
    <3>2. cum \in [E -> Nat]
      BY <2>3 DEF cum
    <3>3. cum[Inf] > 0
      BY <2>2, <2>4
    <3> QED
      BY <1>2, <2>2, <2>3, <3>1, <3>2, <3>3 DEF Measurable
  <2> DEFINE u == Upper(call.q, cum)
             lower == LowerOf(call.q, cum)
             lesser == LesserOf(call.q, cum)
             rank == call.q * cum[Inf]
  <2>6. v.kind # "none" /\ more.kind # "none" => AsLeast(v, more)
    BY <1>1, <2>1, <2>5, QuantileGrows
  <2>7. /\ v.num \in Int
        /\ v.kind = "value" => u # Inf /\ v.num <= u * v.den
        /\ v.kind = "atLeast" <=> u = Inf /\ lower # -Inf
    BY <1>1, <2>1, <2>5, QuantileBetween
  <2>8. /\ u \in E /\ rank \in Nat /\ Quarters * cum[u] >= rank
        /\ \A l \in E : Quarters * cum[l] >= rank => u <= l
    BY <1>1, <2>3, <2>5, UpperReaches
  <2>9. lesser = {l \in E : l < u} /\ (lesser # {} => lower \in lesser /\ \A l \in lesser : l <= lower)
    BY <1>1, <2>3, <2>5, PartsOfQuantile DEF LesserOf
  <2> HIDE DEF u, lower, lesser, rank
  <2>10. u = Inf <=> \A l \in E \ {Inf} : Quarters * Cumulative(bs, l) < rank
    <3>1. ASSUME u = Inf, NEW l \in E \ {Inf} PROVE Quarters * Cumulative(bs, l) < rank
      <4>1. l \in Int /\ l <= Inf /\ l # Inf /\ cum[l] = Cumulative(bs, l) /\ cum[l] \in Nat
        BY <1>2, <2>3
      <4>2. ~(u <= l)
        BY <3>1, <4>1 DEF Inf
      <4>3. ~(Quarters * cum[l] >= rank)
        BY <2>8, <4>2
      <4>4. Quarters * cum[l] \in Int
        BY <4>1 DEF Quarters
      <4>5. Quarters * cum[l] < rank
        <5>1. PICK a : a = Quarters * cum[l]
          OBVIOUS
        <5> QED
          BY <2>8, <4>3, <4>4, <5>1
      <4> QED
        BY <4>1, <4>5
    <3>2. ASSUME u # Inf, \A l \in E \ {Inf} : Quarters * Cumulative(bs, l) < rank PROVE FALSE
      <4>1. Quarters * cum[u] < rank /\ cum[u] \in Nat
        BY <2>3, <2>8, <3>2
      <4>2. Quarters * cum[u] \in Int
        BY <4>1 DEF Quarters
      <4>3. PICK a : a = Quarters * cum[u]
        OBVIOUS
      <4> QED
        BY <2>8, <4>1, <4>2, <4>3
    <3> QED
      BY <3>1, <3>2
  <2>11. ASSUME u = Inf
         PROVE  lower # -Inf <=> E \cap {-Inf, Inf} = {Inf} \/ Cardinality(E) > 2
    <3>1. \A l \in E : l \in lesser <=> l # Inf
      BY <1>2, <2>9, <2>11 DEF Inf
    <3>2. lesser # {}
      <4> SUFFICES ASSUME lesser = {} PROVE FALSE
        OBVIOUS
      <4>1. E = {Inf}
        BY <2>2, <3>1
      <4>2. Cardinality({Inf}) = 1
        BY FS_Singleton
      <4> QED
        BY <2>2, <4>1, <4>2
    <3>3. lower \in E /\ lower # Inf /\ \A l \in E : l # Inf => l <= lower
      BY <2>9, <3>1, <3>2
    <3>4. Inf # -Inf /\ -Inf \in Int /\ Inf \in Int /\ \A l \in E : -Inf <= l
      <4>1. \A l \in (-Inf)..Inf : -Inf <= l
        BY DEF Inf
      <4>2. Inf # -Inf /\ -Inf \in Int /\ Inf \in Int
        BY DEF Inf
      <4> QED
        BY <1>2, <4>1, <4>2
    <3> DEFINE bottom == -Inf
    <3>5. bottom # Inf /\ bottom \in Int /\ \A l \in E : bottom <= l
      BY <3>4
    <3> HIDE DEF bottom
    <3>6. ASSUME lower # bottom, E \cap {bottom, Inf} # {Inf} PROVE Cardinality(E) > 2
      <4>1. bottom \in E
        BY <2>2, <3>6
      <4> DEFINE P == {bottom, Inf}
      <4>2. IsFiniteSet(P) /\ Cardinality(P) = 2
        BY <3>5, PairSize
      <4>3. lower \notin P
        BY <3>3, <3>6
      <4> HIDE DEF P
      <4>4. Cardinality(P \union {lower}) = Cardinality(P) + 1
        BY <4>2, <4>3, FS_AddElement
      <4>5. P \union {lower} \subseteq E
        BY <2>2, <3>3, <4>1 DEF P
      <4>6. Cardinality(P \union {lower}) <= Cardinality(E)
        BY <1>2, <4>5, FS_Subset
      <4> QED
        BY <1>2, <4>2, <4>4, <4>6
    <3>7. ASSUME lower = bottom PROVE E \cap {bottom, Inf} # {Inf} /\ ~(Cardinality(E) > 2)
      <4>1. \A l \in E : l = bottom \/ l = Inf
        BY <1>2, <3>3, <3>5, <3>7
      <4>2. E = {bottom, Inf}
        BY <2>2, <3>3, <3>7, <4>1
      <4>3. Cardinality({bottom, Inf}) = 2
        BY <3>5, PairSize
      <4>4. E \cap {bottom, Inf} # {Inf}
        BY <3>5, <4>2
      <4> QED
        BY <4>2, <4>3, <4>4
    <3> QED
      BY <3>6, <3>7 DEF bottom
  <2>12. v.kind = "atLeast" <=>
            /\ E \cap {-Inf, Inf} = {Inf} \/ Cardinality(E) > 2
            /\ Inf \in E /\ Cardinality(E) > 1
            /\ Total(bs) > 0
            /\ \A l \in E \ {Inf} : Quarters * Cumulative(bs, l) < call.q * Total(bs)
    <3>1. rank = call.q * Total(bs)
      BY <2>4 DEF rank
    <3> QED
      BY <2>2, <2>7, <2>10, <2>11, <3>1
  <2>13. v.kind = "value" => \E l \in E \ {Inf} : AsLeast(v, Value(l, 1))
    <3> SUFFICES ASSUME v.kind = "value" PROVE \E l \in E \ {Inf} : AsLeast(v, Value(l, 1))
      OBVIOUS
    <3>1. u \in E \ {Inf} /\ v.num <= u * v.den /\ v.num \in Int
      BY <2>7, <2>8
    <3>2. Value(u, 1).num = u /\ Value(u, 1).den = 1 /\ v.num * 1 = v.num
      BY <3>1 DEF Value
    <3> QED
      BY <3>1, <3>2 DEF AsLeast
  <2> QED
    BY <1>5, <2>6, <2>12, <2>13, Zenon DEF QuantileIsHonest, v, more, bs, E
<1> QED
  BY <1>6, <1>7

-----------------------------------------------------------------------------
(***************************************************************************)
(* A restored threshold state, and the bounds of a sample.                 *)
(***************************************************************************)

\* What a state file may hold, readable or not.
RawStates == [last : {"within", "breach", "other"}, armed : {"yes", "no", "other"},
              since : Nat \union {None, Corrupt}, count : Nat \union {Corrupt}]

LEMMA CorruptStateHeard ==
    ASSUME call.about = "restored" => call.raw \in RawStates
    PROVE  CorruptNeverSilences
<1> SUFFICES ASSUME call.about = "restored" PROVE CorruptNeverSilences
  BY DEF CorruptNeverSilences
<1> DEFINE raw == call.raw
           st == FromDict(raw)
           n == RearmIntervals + RearmSeconds
           run == [i \in 1..n |-> [status |-> "within", at |-> 4 + i]]
           breach == [status |-> "breach", at |-> 20]
           s == States(st, run)
           S == {k \in 1..n : /\ s[k + 1].last = "within" /\ s[k + 1].since # None
                              /\ s[k + 1].since <= 5 /\ s[k + 1].count >= k}
<1>1. raw \in RawStates /\ n \in Nat \ {0} /\ n >= RearmIntervals /\ n >= RearmSeconds + 1
  BY RearmAssumption
<1>2. /\ st.armed = (raw.armed # "no") /\ (st.last = "breach" <=> raw.last = "breach")
      /\ st \in KeyStates
  <2>1. /\ st.last = IF raw.last \in {"within", "breach"} THEN raw.last ELSE "none"
        /\ st.armed = (raw.armed # "no")
        /\ st.since = IF raw.since = Corrupt THEN None ELSE raw.since
        /\ st.count = IF raw.count = Corrupt THEN 0 ELSE raw.count
    BY DEF FromDict, KeyState, Fresh
  <2>2. st = [last |-> st.last, armed |-> st.armed, since |-> st.since, count |-> st.count]
    BY DEF FromDict, KeyState
  <2>3. /\ st.last \in {"none", "within", "breach"} /\ st.armed \in BOOLEAN
        /\ st.since \in Nat \union {None} /\ st.count \in Nat
    BY <1>1, <2>1 DEF RawStates
  <2> HIDE DEF st, raw
  <2>4. st \in KeyStates
    BY <2>2, <2>3 DEF KeyStates
  <2> QED
    BY <2>1, <2>4
<1>3. ~Fires(st, breach) => raw.armed = "no" \/ raw.last = "breach"
  BY <1>2 DEF Fires
<1>4. /\ run \in Seq(Evaluation) /\ Len(run) = n /\ DOMAIN run = 1..n
      /\ \A k \in 1..n : run[k].status = "within" /\ run[k].at = 4 + k
  <2>1. \A k \in 1..n : [status |-> "within", at |-> 4 + k] \in Evaluation
    BY <1>1 DEF Evaluation, Statuses
  <2> HIDE DEF n
  <2> QED
    BY <1>1, <2>1
<1> HIDE DEF raw, st, n, run
<1>5. /\ s[1] = st
      /\ \A k \in 1..n : /\ s[k] \in KeyStates /\ s[k + 1] \in KeyStates
                         /\ s[k + 1] = Advance(s[k], run[k])
  BY <1>2, <1>4, StatesStep
<1> HIDE DEF s
<1>6. ASSUME NEW k \in 1..n, k = 1 \/ (k > 1 /\ k - 1 \in S)
      PROVE  /\ k \in S
             /\ s[k + 1].armed
                  <=> s[k].armed \/ (4 + k - s[k + 1].since >= RearmSeconds /\ s[k + 1].count >= RearmIntervals)
  <2> DEFINE x == s[k]
             y == s[k + 1]
             e == run[k]
  <2>1. x \in KeyStates /\ y \in KeyStates /\ y = Advance(x, e)
    BY <1>5
  <2>2. e \in Evaluation /\ e.status = "within" /\ e.at = 4 + k /\ k \in Nat /\ k >= 1
    BY <1>4, ElementOfSeq
  <2> HIDE DEF x, y, e
  <2>3. /\ y.last = "within"
        /\ y.since = IF Restarts(x, e.at) THEN e.at ELSE x.since
        /\ y.count = IF Restarts(x, e.at) THEN 1 ELSE x.count + 1
        /\ y.armed <=> \/ x.armed
                       \/ e.at - y.since >= RearmSeconds /\ y.count >= RearmIntervals
    BY <2>1, <2>2, AdvanceWithin
  <2>4. /\ x.since \in Nat \union {None} /\ x.count \in Nat
    BY <2>1 DEF KeyStates
  <2>5. y.since # None /\ y.since <= 5 /\ y.count >= k
    <3>1. CASE k = 1
      BY <2>2, <2>3, <2>4, <3>1 DEF Restarts, None
    <3>2. CASE k > 1
      <4>1. (k - 1) + 1 = k
        BY <2>2
      <4>2. x.since # None /\ x.since <= 5 /\ x.count >= k - 1
        BY <1>6, <3>2, <4>1 DEF x
      <4>3. ~Restarts(x, e.at)
        BY <2>2, <2>4, <3>2, <4>2 DEF Restarts
      <4> QED
        BY <2>2, <2>3, <2>4, <4>2, <4>3
    <3> QED
      BY <2>2, <3>1, <3>2
  <2>6. k \in S
    BY <2>3, <2>5 DEF y
  <2>7. y.armed <=> x.armed \/ (4 + k - y.since >= RearmSeconds /\ y.count >= RearmIntervals)
    <3>1. y.since \in Int
      BY <2>2, <2>3, <2>4 DEF None
    <3>2. e.at - y.since = 4 + k - y.since
      BY <2>2, <3>1
    <3> QED
      BY <2>3, <3>2
  <2> HIDE DEF S
  <2> QED
    BY <2>6, <2>7 DEF x, y
<1>7. \A k \in 1..n : k \in S
  <2>1. \A k \in 1..n : k \in S /\ k # n => k + 1 \in S
    <3> SUFFICES ASSUME NEW k \in 1..n, k \in S, k # n PROVE k + 1 \in S
      OBVIOUS
    <3>1. k + 1 \in 1..n /\ k + 1 > 1 /\ (k + 1) - 1 = k
      <4> HIDE DEF S
      <4> QED
        BY <1>1
    <3> HIDE DEF S
    <3> QED
      BY <1>6, <3>1
  <2>2. 1 \in 1..n /\ n \in Nat /\ 1 \in Nat
    BY <1>1
  <2>3. 1 \in S
    BY <1>6, <2>2
  <2> HIDE DEF S
  <2> QED
    BY <2>1, <2>2, <2>3, IntervalInduction
<1>8. s[n + 1].armed /\ s[n + 1].last = "within"
  <2>1. n \in 1..n /\ n \in S
    BY <1>1, <1>7
  <2>2. /\ s[n + 1].since # None /\ s[n + 1].since <= 5 /\ s[n + 1].count >= n
        /\ s[n + 1].last = "within" /\ s[n + 1] \in KeyStates
    BY <1>5, <2>1
  <2>3. s[n + 1].since \in Nat /\ s[n + 1].count \in Nat
    BY <2>2 DEF KeyStates
  <2>4. 4 + n - s[n + 1].since >= RearmSeconds /\ s[n + 1].count >= RearmIntervals
    BY <1>1, <2>2, <2>3, RearmAssumption
  <2>5. n > 1 => n - 1 \in S
    <3> HIDE DEF S
    <3>1. n > 1 => n - 1 \in 1..n
      BY <1>1
    <3> QED
      BY <1>7, <3>1
  <2>6. n = 1 \/ n > 1
    BY <1>1
  <2> HIDE DEF S
  <2>7. s[n + 1].armed
    BY <1>6, <2>1, <2>4, <2>5, <2>6
  <2> QED
    BY <2>2, <2>7
<1>9. Fires(s[Len(run) + 1], breach)
  BY <1>4, <1>8 DEF Fires
<1> HIDE DEF breach
<1> QED
  BY <1>3, <1>9, Zenon DEF CorruptNeverSilences, s, st, run, n, raw, breach

LEMMA BoundsApart ==
    ASSUME call.about = "sample" =>
               /\ call.now = 10 /\ call.window = 6 /\ call.slack = 1 /\ call.check \in BOOLEAN
               /\ call.oldest \in {None, 0, 2, 8, 11}
               /\ call.answers \in [DOMAIN call.bounds -> BOOLEAN]
    PROVE  SampleKeepsBoundsApart
<1> SUFFICES ASSUME call.about = "sample", NEW b \in DOMAIN call.bounds
             PROVE  /\ (call.bounds[b] = "gauge" /\ call.answers[b]) => Sample(call)[b].kind = "value"
                    /\ (call.bounds[b] = "histogram" /\ call.answers[b])
                           => (Sample(call)[b].kind = "atLeast"
                                 <=> ~call.check \/ call.oldest \in {None, 0, 2, 11})
  BY DEF SampleKeepsBoundsApart
<1>1. CASE call.bounds[b] = "gauge"
  BY <1>1 DEF Sample, Gauge, Value
<1>2. CASE call.bounds[b] = "histogram" /\ call.answers[b]
  <2>1. TooYoung(call) <=> call.check /\ call.oldest = 8
    BY <1>2 DEF TooYoung, NeedsRetention, FetchRetention, None
  <2>2. Sample(call)[b].kind = IF TooYoung(call) THEN "none" ELSE "atLeast"
    BY <1>2 DEF Sample, Histogram, AtLeast, Nothing
  <2> QED
    BY <1>2, <2>1, <2>2 DEF None
<1> QED
  BY <1>1, <1>2

-----------------------------------------------------------------------------
(***************************************************************************)
(* The windows of evaluate-once.                                           *)
(***************************************************************************)

SloSet == [kind : QueryKinds, target : Int]
Configured(slos, windows, h) ==
    /\ slos \in Seq(SloSet) /\ slos # << >> /\ h \in Nat
    /\ windows \in Seq([DOMAIN slos -> Int]) /\ windows # << >>
SloVerdicts(slos, windows) ==
    [slo : DOMAIN slos, at : DOMAIN windows, rawBreach : BOOLEAN, breach : BOOLEAN]

LEMMA ConsecutiveType ==
    ASSUME NEW V, NEW log \in Seq(V), NEW s, NEW limit
    PROVE  Consecutive(log, s, limit) \in Nat
<1> DEFINE own == {i \in DOMAIN log : i <= limit /\ log[i].slo = s}
           good == {i \in own : ~log[i].rawBreach}
           run == {i \in own : \A j \in good : i < j}
<1>1. IsFiniteSet(DOMAIN log)
  <2>1. DOMAIN log = 1..Len(log) /\ Len(log) \in Nat
    OBVIOUS
  <2> QED
    BY <2>1, FS_Interval
<1>2. IsFiniteSet(run)
  BY <1>1, FS_Subset
<1> QED
  BY <1>2, FS_CardinalityType DEF Consecutive

LEMMA ResultType ==
    ASSUME NEW slos, NEW windows, NEW h, Configured(slos, windows, h),
           NEW log \in Seq(SloVerdicts(slos, windows)),
           NEW k \in DOMAIN windows, NEW s \in DOMAIN slos
    PROVE  LET r == Result(log, slos, windows, k, h, s) IN
           /\ r \in SloVerdicts(slos, windows) /\ r.slo = s /\ r.at = k
           /\ r.rawBreach = RawBreach(slos[s], windows[k][s])
<1> DEFINE r == Result(log, slos, windows, k, h, s)
           raw == RawBreach(slos[s], windows[k][s])
           n == IF raw THEN Consecutive(log, s, HistoryLimit(slos, h)) + 1 ELSE 0
           b == IF IsJudgment(slos[s]) THEN n >= h ELSE raw
<1>1. raw \in BOOLEAN
  <2>1. slos[s] \in SloSet
    BY ElementOfSeq DEF Configured
  <2>2. windows[k] \in [DOMAIN slos -> Int]
    BY ElementOfSeq DEF Configured
  <2>3. windows[k][s] \in Int /\ slos[s].target \in Int
    BY <2>1, <2>2 DEF SloSet
  <2> DEFINE t == slos[s]
             v == windows[k][s]
  <2> HIDE DEF t, v
  <2>4. RawBreach(t, v) \in BOOLEAN
    <3>1. CASE t.kind = "judgment_rate"
      <4>1. RawBreach(t, v) = ((10 - v) * 10 < t.target)
        BY <3>1 DEF RawBreach
      <4> QED
        BY <4>1
    <3>2. CASE t.kind = "error_budget"
      <4>1. RawBreach(t, v) = (v < 0)
        BY <3>2 DEF RawBreach
      <4> QED
        BY <4>1
    <3>3. CASE t.kind \notin {"judgment_rate", "error_budget"}
      <4>1. RawBreach(t, v) = (v * 10 < t.target)
        BY <3>3 DEF RawBreach
      <4> QED
        BY <4>1
    <3> QED
      BY <3>1, <3>2, <3>3
  <2> QED
    BY <2>4 DEF t, v
<1> HIDE DEF raw
<1>2. b \in BOOLEAN
  <2>1. Consecutive(log, s, HistoryLimit(slos, h)) \in Nat
    BY ConsecutiveType
  <2>2. n \in Nat /\ h \in Nat
    BY <2>1 DEF Configured
  <2> HIDE DEF n
  <2>3. (n >= h) \in BOOLEAN
    BY <2>2
  <2> QED
    BY <1>1, <2>3
<1>3. r = [slo |-> s, at |-> k, rawBreach |-> raw, breach |-> b]
  BY DEF Result, raw
<1> HIDE DEF b, r
<1> QED
  BY <1>1, <1>2, <1>3 DEF SloVerdicts, raw, r

\* f is the function of what the log of a window comes to, SLO by SLO.
Stacks(f, log, slos, windows, k, h) ==
    f = [s \in 0..Len(slos) |->
            IF s = 0 THEN log
            ELSE IF s \in Evaluated(slos, windows[k])
                 THEN <<Result(log, slos, windows, k, h, s)>> \o f[s - 1]
                 ELSE f[s - 1]]

LEMMA StacksExist ==
    ASSUME NEW slos, NEW windows, NEW h, Configured(slos, windows, h),
           NEW log \in Seq(SloVerdicts(slos, windows)), NEW k \in DOMAIN windows
    PROVE  \E g : Stacks(g, log, slos, windows, k, h)
<1> DEFINE n == Len(slos)
           V == SloVerdicts(slos, windows)
           E == Evaluated(slos, windows[k])
           R(s) == Result(log, slos, windows, k, h, s)
           all == [s \in 1..n |-> s]
           step == [p \in Seq(V) \X (1..n) |-> IF p[2] \in E THEN <<R(p[2])>> \o p[1] ELSE p[1]]
<1>1. n \in Nat /\ all \in [1..n -> 1..n] /\ DOMAIN slos = 1..n
  BY DEF Configured
<1>2. \A s \in 1..n : R(s) \in V
  BY <1>1, ResultType
<1> HIDE DEF V, R
<1>3. \A w \in Seq(V), s \in 1..n : <<R(s)>> \o w \in Seq(V)
  BY <1>2
<1>4. step \in [Seq(V) \X (1..n) -> Seq(V)]
  <2> HIDE DEF n
  <2> QED
    BY <1>3
<1>5. \A w \in Seq(V), s \in 1..n : step[w, s] = IF s \in E THEN <<R(s)>> \o w ELSE w
  OBVIOUS
<1>6. log \in Seq(V)
  BY DEF V
<1> HIDE DEF step, n, E
<1>7. PICK g \in [0..n -> Seq(V)] :
         g[0] = log /\ \A i \in 1..n : g[i] = step[g[i - 1], all[i]]
  <2>1. \E g \in [0..n -> Seq(V)] : Iterates(g, log, step, n, all)
    BY <1>1, <1>4, <1>6, IterationExists
  <2> QED
    BY <2>1, Zenon DEF Iterates
<1>8. ASSUME NEW s \in 0..n
      PROVE  g[s] = IF s = 0 THEN log ELSE IF s \in E THEN <<R(s)>> \o g[s - 1] ELSE g[s - 1]
  <2>1. s # 0 => s \in 1..n /\ s - 1 \in 0..n /\ all[s] = s
    BY <1>1
  <2>2. s # 0 => g[s - 1] \in Seq(V)
    BY <1>7, <2>1
  <2>3. s # 0 => g[s] = step[g[s - 1], s]
    BY <1>7, <2>1
  <2> HIDE DEF all
  <2> QED
    BY <1>5, <1>7, <2>1, <2>2, <2>3
<1>9. g = [s \in 0..n |-> IF s = 0 THEN log ELSE IF s \in E THEN <<R(s)>> \o g[s - 1] ELSE g[s - 1]]
  BY <1>8
<1> QED
  BY <1>9 DEF Stacks, n, E, R

\* What the first s SLOs have put on the log, the last first.
StackedTo(W, log, slos, windows, k, h, s) ==
    LET E == {r \in Evaluated(slos, windows[k]) : r <= s}
        c == Cardinality(E)
    IN  /\ W \in Seq(SloVerdicts(slos, windows)) /\ IsFiniteSet(E) /\ c <= s
        /\ Len(W) = c + Len(log) /\ \A i \in 1..Len(log) : W[c + i] = log[i]
        /\ \A i \in 1..c : /\ W[i].slo \in E
                           /\ W[i] = Result(log, slos, windows, k, h, W[i].slo)
        /\ \A r \in E : \E i \in 1..c : W[i].slo = r
        /\ \A i, j \in 1..c : i < j => W[i].slo > W[j].slo

LEMMA StackStep ==
    ASSUME NEW slos, NEW windows, NEW h, Configured(slos, windows, h),
           NEW log \in Seq(SloVerdicts(slos, windows)), NEW k \in DOMAIN windows,
           NEW s \in Nat, NEW t \in DOMAIN slos, t = s + 1, NEW W,
           StackedTo(W, log, slos, windows, k, h, s), NEW X,
           X = IF t \in Evaluated(slos, windows[k])
               THEN <<Result(log, slos, windows, k, h, t)>> \o W ELSE W
    PROVE  StackedTo(X, log, slos, windows, k, h, t)
<1> DEFINE V == SloVerdicts(slos, windows)
           A == Evaluated(slos, windows[k])
           R(r) == Result(log, slos, windows, k, h, r)
           E == {r \in A : r <= s}
           F == {r \in A : r <= t}
           c == Cardinality(E)
<1>1. /\ Len(slos) \in Nat /\ DOMAIN slos = 1..Len(slos) /\ s \in Nat /\ t \in Nat
      /\ A \subseteq DOMAIN slos /\ Len(log) \in Nat
  BY DEF Configured, Evaluated
<1>2. /\ W \in Seq(V) /\ IsFiniteSet(E) /\ c <= s /\ c \in Nat
      /\ Len(W) = c + Len(log) /\ \A i \in 1..Len(log) : W[c + i] = log[i]
      /\ \A i \in 1..c : W[i].slo \in E /\ W[i] = R(W[i].slo)
      /\ \A r \in E : \E i \in 1..c : W[i].slo = r
      /\ \A i, j \in 1..c : i < j => W[i].slo > W[j].slo
  BY FS_CardinalityType DEF StackedTo
<1>3. \A r \in DOMAIN slos : R(r) \in V /\ R(r).slo = r
  BY ResultType
<1> HIDE DEF A, R, V
<1>4. Len(log) \in Nat /\ \A r \in A : r \in Int
  <2> HIDE DEF E, F, c
  <2> QED
    BY <1>1
<1>5. CASE t \notin A
  <2>1. F = E
    BY <1>1, <1>4, <1>5
  <2>2. X = W
    BY <1>5 DEF A
  <2> HIDE DEF E, F
  <2>3. c <= t
    BY <1>1, <1>2
  <2> QED
    BY <1>2, <2>1, <2>2, <2>3 DEF StackedTo, E, F, A, R, V
<1>6. CASE t \in A
  <2> DEFINE x == R(t)
  <2>1. F = E \union {t} /\ t \notin E
    BY <1>1, <1>4, <1>6
  <2>2. X = <<x>> \o W
    BY <1>6 DEF A, R
  <2>3. x \in V /\ x.slo = t /\ x = R(x.slo)
    BY <1>1, <1>3
  <2> HIDE DEF x
  <2>4. /\ X \in Seq(V) /\ Len(X) = Len(W) + 1 /\ X[1] = x
        /\ \A i \in 1..Len(W) : X[i + 1] = W[i]
    <3>1. Len(W) \in Nat /\ W \in Seq(V) /\ <<x>> \in Seq(V) /\ Len(<<x>>) = 1
      BY <1>2, <2>3
    <3> QED
      BY <2>2, <3>1
  <2> HIDE DEF E, F, c
  <2>5. IsFiniteSet(F) /\ Cardinality(F) = c + 1
    BY <1>2, <2>1, FS_AddElement DEF c
  <2>6. c + 1 <= t /\ Len(X) = (c + 1) + Len(log)
    BY <1>1, <1>2, <1>4, <2>4
  <2>7. ASSUME NEW i \in 1..Len(log) PROVE X[(c + 1) + i] = log[i]
    <3>1. c + i \in 1..Len(W) /\ (c + i) + 1 = (c + 1) + i
      BY <1>2, <1>4
    <3> QED
      BY <1>2, <2>4, <3>1
  <2>8. ASSUME NEW i \in 1..(c + 1)
        PROVE  X[i] = IF i = 1 THEN x ELSE W[i - 1]
    <3>1. i # 1 => i - 1 \in 1..Len(W) /\ (i - 1) + 1 = i
      BY <1>2, <1>4
    <3> QED
      BY <2>4, <3>1
  <2>9. \A i \in 1..(c + 1) : i # 1 => i - 1 \in 1..c
    BY <1>2
  <2>10. ASSUME NEW i \in 1..(c + 1) PROVE X[i].slo \in F /\ X[i] = R(X[i].slo)
    <3>1. i # 1 => W[i - 1].slo \in E /\ W[i - 1] = R(W[i - 1].slo)
      BY <1>2, <2>9
    <3> QED
      BY <2>1, <2>3, <2>8, <3>1
  <2>11. ASSUME NEW r \in F PROVE \E i \in 1..(c + 1) : X[i].slo = r
    <3>1. CASE r = t
      <4>1. 1 \in 1..(c + 1) /\ X[1].slo = r
        BY <1>2, <2>3, <2>4, <3>1
      <4> QED
        BY <4>1
    <3>2. CASE r \in E
      <4>1. PICK i \in 1..c : W[i].slo = r
        BY <1>2, <3>2
      <4>2. i + 1 \in 1..(c + 1) /\ i \in 1..Len(W)
        BY <1>2, <1>4
      <4>3. X[i + 1].slo = r
        BY <2>4, <4>1, <4>2
      <4> QED
        BY <4>2, <4>3
    <3> QED
      BY <2>1, <3>1, <3>2
  <2>12. ASSUME NEW i \in 1..(c + 1), NEW j \in 1..(c + 1), i < j PROVE X[i].slo > X[j].slo
    <3>1. j # 1 /\ j - 1 \in 1..c
      BY <1>2, <2>12
    <3>2. X[j].slo = W[j - 1].slo /\ W[j - 1].slo \in E
      BY <1>2, <2>8, <3>1
    <3>3. CASE i = 1
      <4>1. X[i].slo = t
        BY <2>3, <2>4, <3>3
      <4>2. \A r \in E : r <= s /\ r \in Int
        BY <1>4 DEF E
      <4>3. PICK y : y = W[j - 1].slo
        OBVIOUS
      <4>4. y <= s /\ y \in Int /\ t > y
        BY <1>1, <3>2, <4>2, <4>3
      <4> QED
        BY <3>2, <4>1, <4>3, <4>4
    <3>4. CASE i # 1
      <4>1. i - 1 \in 1..c /\ i - 1 < j - 1
        BY <1>2, <2>9, <2>12, <3>4
      <4> QED
        BY <1>2, <2>8, <3>1, <3>2, <3>4, <4>1
    <3> QED
      BY <3>3, <3>4
  <2> QED
    BY <2>4, <2>5, <2>6, <2>7, <2>10, <2>11, <2>12 DEF StackedTo, E, F, c, A, R, V
<1> QED
  BY <1>5, <1>6

\* A window puts the verdicts of every SLO with data on the log, one each.
LEMMA WindowStacks ==
    ASSUME NEW slos, NEW windows, NEW h, Configured(slos, windows, h),
           NEW log \in Seq(SloVerdicts(slos, windows)), NEW k \in DOMAIN windows
    PROVE  StackedTo(Window(log, slos, windows, k, h), log, slos, windows, k, h, Len(slos))
<1> DEFINE n == Len(slos)
           f == Stacked(log, slos, windows, k, h)
           S == {s \in 0..n : StackedTo(f[s], log, slos, windows, k, h, s)}
<1>1. n \in Nat /\ 0 \in 0..n /\ n \in 0..n /\ DOMAIN slos = 1..n
  BY DEF Configured
<1>2. Stacks(f, log, slos, windows, k, h)
  <2>1. \E g : Stacks(g, log, slos, windows, k, h)
    BY StacksExist
  <2>2. f = CHOOSE g : Stacks(g, log, slos, windows, k, h)
    BY Zenon DEF Stacked, Stacks
  <2> QED
    BY <2>1, <2>2, Zenon
<1> HIDE DEF f
<1>3. \A s \in 0..n : f[s] = IF s = 0 THEN log
                             ELSE IF s \in Evaluated(slos, windows[k])
                                  THEN <<Result(log, slos, windows, k, h, s)>> \o f[s - 1]
                                  ELSE f[s - 1]
  BY <1>2 DEF Stacks
<1>4. 0 \in S
  <2> DEFINE E == {r \in Evaluated(slos, windows[k]) : r <= 0}
             c == Cardinality(E)
  <2>1. E = {}
    BY <1>1 DEF Evaluated
  <2>2. IsFiniteSet(E) /\ c = 0
    BY <2>1, FS_EmptySet
  <2>3. f[0] = log /\ Len(log) \in Nat
    <3>1. Len(log) \in Nat
      OBVIOUS
    <3> QED
      BY <1>1, <1>3, <3>1
  <2> HIDE DEF E, c
  <2>4. \A i : i \notin 1..c
    BY <2>2
  <2>5. Len(log) = c + Len(log) /\ \A i \in 1..Len(log) : log[c + i] = log[i]
    BY <2>2, <2>3
  <2>6. StackedTo(log, log, slos, windows, k, h, 0)
    <3>1. c <= 0
      BY <2>2
    <3> QED
      BY <2>1, <2>2, <2>4, <2>5, <3>1 DEF StackedTo, E, c
  <2> QED
    BY <1>1, <2>3, <2>6
<1>5. ASSUME NEW s \in 0..n, s \in S, s # n PROVE s + 1 \in S
  <2>1. s + 1 \in 0..n /\ s + 1 \in 1..n /\ s + 1 # 0 /\ (s + 1) - 1 = s /\ s \in Nat
    <3> HIDE DEF S, n
    <3> QED
      BY <1>1, <1>5
  <2>2. StackedTo(f[s], log, slos, windows, k, h, s)
    BY <1>5
  <2>3. f[s + 1] = IF s + 1 \in Evaluated(slos, windows[k])
                   THEN <<Result(log, slos, windows, k, h, s + 1)>> \o f[s] ELSE f[s]
    BY <1>3, <2>1
  <2>4. StackedTo(f[s + 1], log, slos, windows, k, h, s + 1)
    BY <1>1, <2>1, <2>2, <2>3, StackStep
  <2> QED
    BY <2>1, <2>4
<1>6. n \in S
  <2>1. 0 \in Nat
    OBVIOUS
  <2> HIDE DEF S
  <2> QED
    BY <1>1, <1>4, <1>5, <2>1, IntervalInduction
<1> QED
  BY <1>6 DEF Window, f, n

\* The log after k windows: one verdict of every SLO with data in each of them, the
\* newest first, none further down than the windows since can have pushed it.
Logged(log, slos, windows, k) ==
    /\ log \in Seq(SloVerdicts(slos, windows))
    /\ \A i \in DOMAIN log :
           /\ log[i].at \in 1..k /\ log[i].slo \in Evaluated(slos, windows[log[i].at])
           /\ log[i].rawBreach = RawBreach(slos[log[i].slo], windows[log[i].at][log[i].slo])
    /\ \A w \in 1..k : \A s \in Evaluated(slos, windows[w]) :
           \E i \in DOMAIN log :
               log[i].at = w /\ log[i].slo = s /\ i <= ((k - w) + 1) * Len(slos)
    /\ \A i, j \in DOMAIN log :
           i < j => log[i].at >= log[j].at /\ (log[i].slo = log[j].slo => log[i].at > log[j].at)

LEMMA LoggedStep ==
    ASSUME NEW slos, NEW windows, NEW h, Configured(slos, windows, h),
           NEW k \in Nat, NEW m \in DOMAIN windows, m = k + 1,
           NEW log, Logged(log, slos, windows, k)
    PROVE  Logged(Window(log, slos, windows, m, h), slos, windows, m)
<1> DEFINE V == SloVerdicts(slos, windows)
           n == Len(slos)
           E == {r \in Evaluated(slos, windows[m]) : r <= n}
           c == Cardinality(E)
           W == Window(log, slos, windows, m, h)
           len == Len(log)
           D == Evaluated(slos, windows[m])
<1>1. n \in Nat /\ DOMAIN slos = 1..n
  BY DEF Configured
<1>2. E = D
  BY <1>1 DEF Evaluated
<1>3. log \in Seq(V) /\ len \in Nat /\ DOMAIN log = 1..len
  BY DEF Logged
<1>4. StackedTo(W, log, slos, windows, m, h, n)
  BY <1>3, WindowStacks
<1>5. /\ W \in Seq(V) /\ c <= n /\ IsFiniteSet(E) /\ Len(W) = c + len
      /\ \A i \in 1..len : W[c + i] = log[i]
      /\ \A i \in 1..c : W[i].slo \in E /\ W[i] = Result(log, slos, windows, m, h, W[i].slo)
      /\ \A r \in E : \E i \in 1..c : W[i].slo = r
      /\ \A i, j \in 1..c : i < j => W[i].slo > W[j].slo
  BY <1>4 DEF StackedTo
<1>6. c \in Nat
  BY <1>5, FS_CardinalityType
<1>7. \A i \in 1..c : /\ W[i].slo \in D /\ W[i].slo \in 1..n /\ W[i].at = m
                      /\ W[i].rawBreach = RawBreach(slos[W[i].slo], windows[m][W[i].slo])
  <2> SUFFICES ASSUME NEW i \in 1..c
               PROVE  /\ W[i].slo \in D /\ W[i].slo \in 1..n /\ W[i].at = m
                      /\ W[i].rawBreach = RawBreach(slos[W[i].slo], windows[m][W[i].slo])
    OBVIOUS
  <2> DEFINE s == W[i].slo
             r == Result(log, slos, windows, m, h, s)
  <2>1. s \in D /\ s \in DOMAIN slos /\ W[i] = r
    BY <1>2, <1>5 DEF Evaluated
  <2> HIDE DEF s, D
  <2>2. r.at = m /\ r.rawBreach = RawBreach(slos[s], windows[m][s])
    BY <1>3, <2>1, ResultType
  <2> QED
    BY <1>1, <2>1, <2>2 DEF s
<1> HIDE DEF V, n, E, c, W, len, D
<1>8. DOMAIN W = 1..(c + len) /\ \A i \in DOMAIN W : i \in 1..c \/ (i > c /\ i - c \in 1..len)
  <2>1. DOMAIN W = 1..(c + len)
    BY <1>5
  <2> QED
    BY <1>3, <1>6, <2>1
<1>9. \A i \in DOMAIN W : i > c => W[i] = log[i - c]
  <2> SUFFICES ASSUME NEW i \in DOMAIN W, i > c PROVE W[i] = log[i - c]
    OBVIOUS
  <2>1. i - c \in 1..len /\ c + (i - c) = i
    BY <1>3, <1>6, <1>8
  <2> QED
    BY <1>5, <2>1
<1>10. ASSUME NEW i \in DOMAIN W
       PROVE  /\ W[i].at \in 1..m /\ W[i].slo \in Evaluated(slos, windows[W[i].at])
              /\ W[i].rawBreach = RawBreach(slos[W[i].slo], windows[W[i].at][W[i].slo])
              /\ i > c => W[i].at \in 1..k
  <2>1. CASE i \in 1..c
    <3>1. m \in 1..m /\ ~(i > c)
      BY <1>6, <2>1
    <3> QED
      BY <1>7, <2>1, <3>1 DEF D
  <2>2. CASE i > c
    <3>1. W[i] = log[i - c] /\ i - c \in DOMAIN log
      BY <1>3, <1>6, <1>8, <1>9, <2>2
    <3>2. 1..k \subseteq 1..m
      OBVIOUS
    <3> QED
      BY <3>1, <3>2 DEF Logged
  <2> QED
    BY <1>8, <2>1, <2>2
<1>11. ASSUME NEW w \in 1..m, NEW s \in Evaluated(slos, windows[w])
       PROVE  \E i \in DOMAIN W : W[i].at = w /\ W[i].slo = s /\ i <= ((m - w) + 1) * n
  <2>1. CASE w = m
    <3>1. s \in E
      BY <1>2, <2>1 DEF D
    <3>2. PICK i \in 1..c : W[i].slo = s
      BY <1>5, <3>1
    <3>3. W[i].at = w
      BY <1>7, <2>1
    <3>4. ((m - w) + 1) * n = n
      BY <1>1, <2>1
    <3>5. i \in DOMAIN W /\ i <= n
      BY <1>1, <1>3, <1>5, <1>6, <1>8
    <3> QED
      BY <3>2, <3>3, <3>4, <3>5
  <2>2. CASE w # m
    <3>1. w \in 1..k
      BY <2>2
    <3>2. PICK j \in DOMAIN log :
             log[j].at = w /\ log[j].slo = s /\ j <= ((k - w) + 1) * n
      BY <3>1 DEF Logged, n
    <3>3. /\ c + j \in DOMAIN W /\ c + j > c /\ (c + j) - c = j
      BY <1>3, <1>6, <1>8
    <3>4. W[c + j] = log[j]
      BY <1>9, <3>3
    <3>5. c + j <= ((m - w) + 1) * n
      <4> DEFINE a == (k - w) + 1
      <4>1. a \in Nat /\ (m - w) + 1 = a + 1
        BY <3>1
      <4>2. j <= a * n /\ j \in Nat
        BY <1>3, <3>2
      <4> HIDE DEF a
      <4>3. (a + 1) * n = a * n + n
        BY <1>1, <4>1
      <4>4. PICK b : b = a * n
        OBVIOUS
      <4>5. b \in Nat
        BY <1>1, <4>1, <4>4
      <4>6. c + j <= b + n
        BY <1>1, <1>5, <1>6, <4>2, <4>4, <4>5
      <4> QED
        BY <4>1, <4>3, <4>4, <4>6
    <3> QED
      BY <3>2, <3>3, <3>4, <3>5
  <2> QED
    BY <2>1, <2>2
<1>12. ASSUME NEW i \in DOMAIN W, NEW j \in DOMAIN W, i < j
       PROVE  W[i].at >= W[j].at /\ (W[i].slo = W[j].slo => W[i].at > W[j].at)
  <2>1. CASE j \in 1..c
    <3>1. i \in 1..c
      BY <1>6, <1>8, <1>12, <2>1
    <3>2. W[i].slo > W[j].slo /\ W[i].slo \in 1..n /\ W[j].slo \in 1..n
      BY <1>5, <1>7, <1>12, <2>1, <3>1
    <3>3. W[i].slo # W[j].slo
      <4>1. PICK x, y : x = W[i].slo /\ y = W[j].slo
        OBVIOUS
      <4>2. x > y /\ x \in Int /\ y \in Int
        BY <1>1, <3>2, <4>1
      <4> QED
        BY <4>1, <4>2
    <3>4. W[i].at = m /\ W[j].at = m
      BY <1>7, <2>1, <3>1
    <3> QED
      BY <3>3, <3>4
  <2>2. CASE i \in 1..c /\ j > c
    <3>1. W[i].at = m /\ W[j].at \in 1..k
      BY <1>7, <1>10, <2>2
    <3>2. PICK y : y = W[j].at
      OBVIOUS
    <3>3. y < m /\ y \in Int
      BY <3>1, <3>2
    <3> QED
      BY <3>1, <3>2, <3>3
  <2>3. CASE i > c /\ j > c
    <3>1. i - c \in DOMAIN log /\ j - c \in DOMAIN log /\ i - c < j - c
      BY <1>3, <1>6, <1>8, <1>12, <2>3
    <3>2. W[i] = log[i - c] /\ W[j] = log[j - c]
      BY <1>9, <2>3
    <3> QED
      BY <3>1, <3>2 DEF Logged
  <2> QED
    BY <1>8, <2>1, <2>2, <2>3
<1> QED
  BY <1>5, <1>10, <1>11, <1>12 DEF Logged, V, W, n

\* f is the function of the log after every window.
LogsOf(f, slos, windows, h) ==
    f = [k \in 0..Len(windows) |->
            IF k = 0 THEN << >> ELSE Window(f[k - 1], slos, windows, k, h)]

LEMMA LogsExist ==
    ASSUME NEW slos, NEW windows, NEW h, Configured(slos, windows, h)
    PROVE  \E g : LogsOf(g, slos, windows, h)
<1> DEFINE n == Len(windows)
           V == SloVerdicts(slos, windows)
           all == [k \in 1..n |-> k]
           step == [p \in Seq(V) \X (1..n) |-> Window(p[1], slos, windows, p[2], h)]
<1>1. n \in Nat /\ all \in [1..n -> 1..n] /\ DOMAIN windows = 1..n
  BY DEF Configured
<1>2. \A log \in Seq(V), k \in 1..n : Window(log, slos, windows, k, h) \in Seq(V)
  BY <1>1, WindowStacks DEF StackedTo
<1> HIDE DEF V, n
<1>3. step \in [Seq(V) \X (1..n) -> Seq(V)]
  BY <1>2
<1>4. \A log \in Seq(V), k \in 1..n : step[log, k] = Window(log, slos, windows, k, h)
  OBVIOUS
<1>5. << >> \in Seq(V)
  OBVIOUS
<1> HIDE DEF step
<1>6. PICK g \in [0..n -> Seq(V)] :
         g[0] = << >> /\ \A i \in 1..n : g[i] = step[g[i - 1], all[i]]
  <2>1. \E g \in [0..n -> Seq(V)] : Iterates(g, << >>, step, n, all)
    BY <1>1, <1>3, <1>5, IterationExists
  <2> QED
    BY <2>1, Zenon DEF Iterates
<1>7. ASSUME NEW k \in 0..n
      PROVE  g[k] = IF k = 0 THEN << >> ELSE Window(g[k - 1], slos, windows, k, h)
  <2>1. k # 0 => k \in 1..n /\ k - 1 \in 0..n /\ all[k] = k
    BY <1>1
  <2>2. k # 0 => g[k - 1] \in Seq(V)
    BY <1>6, <2>1
  <2>3. k # 0 => g[k] = step[g[k - 1], k]
    BY <1>6, <2>1
  <2> HIDE DEF all
  <2> QED
    BY <1>4, <1>6, <2>1, <2>2, <2>3
<1>8. g = [k \in 0..n |-> IF k = 0 THEN << >> ELSE Window(g[k - 1], slos, windows, k, h)]
  BY <1>7
<1> QED
  BY <1>8 DEF LogsOf, n

LEMMA LogsLogged ==
    ASSUME NEW slos, NEW windows, NEW h, Configured(slos, windows, h)
    PROVE  /\ \A k \in 0..Len(windows) :
                 Logged(LogsAfter(slos, windows, h)[k], slos, windows, k)
           /\ \A k \in 1..Len(windows) :
                 LogsAfter(slos, windows, h)[k]
                    = Window(LogsAfter(slos, windows, h)[k - 1], slos, windows, k, h)
<1> DEFINE n == Len(windows)
           f == LogsAfter(slos, windows, h)
           S == {k \in 0..n : Logged(f[k], slos, windows, k)}
<1>1. n \in Nat /\ 0 \in 0..n /\ DOMAIN windows = 1..n
  BY DEF Configured
<1>2. LogsOf(f, slos, windows, h)
  <2>1. \E g : LogsOf(g, slos, windows, h)
    BY LogsExist
  <2>2. f = CHOOSE g : LogsOf(g, slos, windows, h)
    BY Zenon DEF LogsAfter, LogsOf
  <2> QED
    BY <2>1, <2>2, Zenon
<1> HIDE DEF f
<1>3. \A k \in 0..n : f[k] = IF k = 0 THEN << >> ELSE Window(f[k - 1], slos, windows, k, h)
  BY <1>2 DEF LogsOf
<1>4. 0 \in S
  <2>1. f[0] = << >>
    BY <1>1, <1>3
  <2>2. Logged(<< >>, slos, windows, 0)
    BY DEF Logged
  <2> QED
    BY <1>1, <2>1, <2>2
<1>5. ASSUME NEW k \in 0..n, k \in S, k # n PROVE k + 1 \in S
  <2>1. k + 1 \in 0..n /\ k + 1 \in 1..n /\ k + 1 # 0 /\ (k + 1) - 1 = k /\ k \in Nat
    <3> HIDE DEF S, n
    <3> QED
      BY <1>1, <1>5
  <2>2. f[k + 1] = Window(f[k], slos, windows, k + 1, h)
    BY <1>3, <2>1
  <2>3. Logged(f[k], slos, windows, k)
    BY <1>5
  <2>4. Logged(f[k + 1], slos, windows, k + 1)
    BY <1>1, <2>1, <2>2, <2>3, LoggedStep
  <2> QED
    BY <2>1, <2>4
<1>6. \A k \in 0..n : k \in S
  <2>1. 0 \in Nat
    OBVIOUS
  <2> HIDE DEF S
  <2> QED
    BY <1>1, <1>4, <1>5, <2>1, IntervalInduction
<1>7. \A k \in 1..n : f[k] = Window(f[k - 1], slos, windows, k, h)
  <2>1. \A k \in 1..n : k \in 0..n /\ k # 0
    BY <1>1
  <2> QED
    BY <1>3, <2>1
<1> QED
  BY <1>6, <1>7 DEF f, n

\* The history that is read reaches back far enough for an SLO: of the newest windows that
\* its limit is sure to hold, h had data, or all that ever had.
WithinReach(slos, windows, s, h) ==
    LET had == {k \in DOMAIN windows : windows[k][s] # None}
        near == {k \in had : Len(windows) - k <= 2 * (h + 1)}
    IN  Cardinality(near) >= h \/ near = had

LEMMA LimitReaches ==
    ASSUME NEW slos, NEW windows, NEW h, Configured(slos, windows, h)
    PROVE  HistoryLimit(slos, h) = (2 * (h + 1)) * Len(slos) /\ HistoryLimit(slos, h) \in Nat
<1>1. Len(slos) \in Nat /\ Len(slos) >= 1 /\ h \in Nat
  <2>1. slos \in Seq(SloSet) /\ slos # << >>
    BY DEF Configured
  <2> QED
    BY <2>1 DEF Configured
<1>2. Max({Len(slos), 1}) = Len(slos)
  BY <1>1, MaxOfTwo
<1> DEFINE n == Len(slos)
<1> HIDE DEF n
<1>3. (h + 1) * n * 2 = (2 * (h + 1)) * n /\ (h + 1) * n * 2 \in Nat
  BY <1>1 DEF n
<1> QED
  BY <1>2, <1>3 DEF HistoryLimit, n

LEMMA WindowsCount ==
    ASSUME NEW slos, NEW windows, NEW h, Configured(slos, windows, h), h >= 1,
           NEW n \in Nat, n = Len(windows), NEW m \in Nat, n = m + 1,
           NEW s \in Evaluated(slos, windows[n]), WithinReach(slos, windows, s, h),
           NEW log, Logged(log, slos, windows, m)
    PROVE  (/\ RawBreach(slos[s], windows[n][s])
            /\ Consecutive(log, s, HistoryLimit(slos, h)) + 1 >= h)
              <=> LastBad(slos, windows, s, h)
<1> DEFINE limit == HistoryLimit(slos, h)
           Bad(k) == RawBreach(slos[s], windows[k][s])
           Had == {k \in DOMAIN windows : windows[k][s] # None}
           own == {i \in DOMAIN log : i <= limit /\ log[i].slo = s}
           good == {i \in own : ~log[i].rawBreach}
           run == {i \in own : \A j \in good : i < j}
           L == Len(slos)
<1>1. /\ DOMAIN windows = 1..n /\ h \in Nat /\ s \in DOMAIN slos /\ n \in 1..n /\ L \in Nat
      /\ s \in 1..L
  <2>1. DOMAIN windows = 1..n /\ h \in Nat /\ DOMAIN slos = 1..L /\ L \in Nat
    <3>1. /\ slos \in Seq(SloSet) /\ h \in Nat /\ windows \in Seq([DOMAIN slos -> Int])
      BY DEF Configured
    <3>2. DOMAIN windows = 1..n
      <4>1. DOMAIN windows = 1..Len(windows)
        BY <3>1, SequenceDomain, Zenon
      <4> QED
        BY <4>1
    <3>3. DOMAIN slos = 1..L /\ L \in Nat
      BY <3>1
    <3> QED
      BY <3>1, <3>2, <3>3
  <2>2. s \in DOMAIN slos
    BY DEF Evaluated
  <2>3. n \in 1..n
    OBVIOUS
  <2> QED
    BY <2>1, <2>2, <2>3
<1>2. /\ log \in Seq(SloVerdicts(slos, windows)) /\ IsFiniteSet(DOMAIN log)
      /\ \A i \in DOMAIN log : i \in Int
  <2>1. log \in Seq(SloVerdicts(slos, windows))
    BY DEF Logged
  <2>2. DOMAIN log = 1..Len(log) /\ Len(log) \in Nat
    BY <2>1
  <2> QED
    BY <2>1, <2>2, FS_Interval
<1>3. Consecutive(log, s, limit) = Cardinality(run)
  BY DEF Consecutive
<1>4. IsFiniteSet(run) /\ Cardinality(run) \in Nat
  BY <1>2, FS_Subset, FS_CardinalityType
<1>5. limit = (2 * (h + 1)) * L /\ limit \in Nat
  BY LimitReaches
<1>6. \A w \in DOMAIN windows : s \in Evaluated(slos, windows[w]) <=> w \in Had
  <2>1. slos[s].kind # "not_evaluable"
    BY DEF Evaluated
  <2> QED
    BY <1>1, <2>1 DEF Evaluated
<1>7. \A i \in own : /\ log[i].at \in 1..m /\ log[i].at \in Had /\ log[i].at \in Int
                     /\ log[i].rawBreach = Bad(log[i].at) /\ i \in DOMAIN log
  <2> SUFFICES ASSUME NEW i \in own
               PROVE  /\ log[i].at \in 1..m /\ log[i].at \in Had /\ log[i].at \in Int
                      /\ log[i].rawBreach = Bad(log[i].at) /\ i \in DOMAIN log
    OBVIOUS
  <2> DEFINE w == log[i].at
  <2>1. i \in DOMAIN log /\ log[i].slo = s
    OBVIOUS
  <2>2. w \in 1..m /\ s \in Evaluated(slos, windows[w]) /\ log[i].rawBreach = Bad(w)
    BY <2>1 DEF Logged
  <2> HIDE DEF w
  <2>3. w \in DOMAIN windows /\ w \in Int
    BY <1>1, <2>2
  <2>4. w \in Had
    BY <1>6, <2>2, <2>3
  <2> QED
    BY <2>1, <2>2, <2>3, <2>4 DEF w
<1>8. \A w \in Had : w \in 1..n /\ w \in Int
  BY <1>1
<1>9. \A w \in Had : w # n => w \in 1..m /\ \E i \in DOMAIN log :
          log[i].at = w /\ log[i].slo = s /\ i <= ((m - w) + 1) * L
  <2> SUFFICES ASSUME NEW w \in Had, w # n
               PROVE  w \in 1..m /\ \E i \in DOMAIN log :
                         log[i].at = w /\ log[i].slo = s /\ i <= ((m - w) + 1) * L
    OBVIOUS
  <2>1. w \in 1..m
    <3>1. w \in 1..n
      BY <1>8
    <3> QED
      BY <3>1
  <2>2. s \in Evaluated(slos, windows[w])
    BY <1>1, <1>6
  <2> QED
    BY <2>1, <2>2 DEF Logged
<1>10. \A i, j \in own : (log[i].at > log[j].at => i < j) /\ (log[i].at = log[j].at => i = j)
  <2> SUFFICES ASSUME NEW i \in own, NEW j \in own
               PROVE  (log[i].at > log[j].at => i < j) /\ (log[i].at = log[j].at => i = j)
    OBVIOUS
  <2> DEFINE x == log[i].at
             y == log[j].at
  <2>1. x \in Int /\ y \in Int /\ i \in DOMAIN log /\ j \in DOMAIN log /\ i \in Int /\ j \in Int
    BY <1>2, <1>7
  <2>2. log[i].slo = log[j].slo
    OBVIOUS
  <2>3. (i < j => x > y) /\ (j < i => y > x)
    BY <2>1, <2>2 DEF Logged
  <2> HIDE DEF x, y, own
  <2> QED
    BY <2>1, <2>3 DEF x, y
<1>11. n \in Had
  BY <1>1, <1>6
<1> HIDE DEF limit, Had, own, L
\* The windows behind the run that is counted, and the newest one, are the last ones.
<1>12. ASSUME Bad(n), Cardinality(run) + 1 >= h PROVE LastBad(slos, windows, s, h)
  <2> DEFINE g == [i \in run |-> log[i].at]
             A == {log[i].at : i \in run}
  <2>1. g \in Bijection(run, A)
    <3>1. g \in [run -> A] /\ \A a \in A : \E i \in run : g[i] = a
      OBVIOUS
    <3>2. \A i, j \in run : g[i] = g[j] => i = j
      BY <1>10
    <3> QED
      BY <3>1, <3>2, Zenon DEF Bijection, Injection, Surjection, IsInjective
  <2>2. IsFiniteSet(A) /\ Cardinality(A) = Cardinality(run)
    BY <1>4, <2>1, FS_Bijection DEF ExistsBijection
  <2>3. \A a \in A : a \in Had /\ a \in 1..m /\ a \in Int /\ Bad(a)
    <3> SUFFICES ASSUME NEW i \in run
                 PROVE  log[i].at \in Had /\ log[i].at \in 1..m /\ log[i].at \in Int /\ Bad(log[i].at)
      OBVIOUS
    <3>1. i \in own /\ i \in DOMAIN log /\ i \in Int
      BY <1>2, <1>7
    <3>2. i \notin good
      <4> SUFFICES ASSUME i \in good PROVE FALSE
        OBVIOUS
      <4>1. i < i
        OBVIOUS
      <4> QED
        BY <3>1, <4>1
    <3>3. log[i].rawBreach
      BY <3>1, <3>2
    <3> QED
      BY <1>7, <3>1, <3>3
  <2>4. n \notin A
    <3>1. n \notin 1..m
      OBVIOUS
    <3> QED
      BY <2>3, <3>1
  <2> DEFINE B == A \union {n}
             first == Min(B)
  <2>5. IsFiniteSet(B) /\ Cardinality(B) = Cardinality(run) + 1
    <3> HIDE DEF A
    <3> QED
      BY <2>2, <2>4, FS_AddElement
  <2>6. B \in SUBSET Int /\ B # {} /\ B \subseteq Had
    BY <1>11, <2>3
  <2> HIDE DEF A, B, run, good, g
  <2>7. first \in B /\ \A b \in B : first <= b
    BY <2>5, <2>6, FiniteEnds
  <2> DEFINE had == {k \in DOMAIN windows : k >= first /\ windows[k][s] # None}
  <2> HIDE DEF first
  <2>8. had = {k \in Had : k >= first}
    BY DEF Had
  <2> HIDE DEF had
  <2>9. IsFiniteSet(had)
    <3>1. IsFiniteSet(1..n)
      BY FS_Interval
    <3>2. had \subseteq 1..n
      BY <1>8, <2>8
    <3> QED
      BY <3>1, <3>2, FS_Subset
  <2>10. B \subseteq had
    <3>1. \A b \in B : b >= first
      BY <2>6, <2>7
    <3> QED
      BY <2>6, <2>8, <3>1
  <2>11. Cardinality(had) >= h
    <3>1. Cardinality(B) <= Cardinality(had) /\ Cardinality(had) \in Nat
      BY <2>9, <2>10, FS_Subset, FS_CardinalityType
    <3> QED
      BY <1>1, <1>4, <1>12, <2>5, <3>1
  <2>12. ASSUME NEW v \in had PROVE Bad(v)
    <3>1. v \in Had /\ v \in Int /\ v >= first /\ first \in Int /\ v \in DOMAIN windows
      BY <1>1, <1>8, <2>6, <2>7, <2>8
    <3>2. CASE v = n
      BY <1>12, <3>2
    <3>3. CASE v # n
      <4>1. v \in 1..m
        BY <1>9, <3>1, <3>3
      <4>2. first # n
        <5>1. v < n
          BY <4>1
        <5> QED
          BY <3>1, <5>1
      <4>3. first \in A
        BY <2>7, <4>2 DEF B
      <4>4. PICK i \in run : log[i].at = first
        BY <4>3 DEF A
      <4>5. i \in own /\ i <= limit /\ i \in Int
        BY <1>2, <1>7 DEF run, own
      <4>6. PICK j \in DOMAIN log : log[j].at = v /\ log[j].slo = s
        BY <1>9, <3>1, <3>3
      <4>7. CASE v = first
        BY <2>3, <4>3, <4>7
      <4>8. CASE v > first
        <5>1. j < i
          <6>1. j \in Int
            BY <1>2
          <6>2. ~(i < j)
            <7> SUFFICES ASSUME i < j PROVE FALSE
              OBVIOUS
            <7>1. log[i].at >= log[j].at /\ i \in DOMAIN log
              BY <1>7, <4>5 DEF Logged
            <7> QED
              BY <3>1, <4>4, <4>6, <4>8, <7>1
          <6>3. i # j
            BY <3>1, <4>4, <4>6, <4>8
          <6> QED
            BY <4>5, <6>1, <6>2, <6>3
        <5>2. j \in own
          <6>1. j \in Int /\ j <= limit
            BY <1>2, <1>5, <4>5, <5>1
          <6> QED
            BY <4>6, <6>1 DEF own
        <5>3. j \notin good
          <6> SUFFICES ASSUME j \in good PROVE FALSE
            OBVIOUS
          <6>1. i < j
            BY <4>4 DEF run
          <6> QED
            BY <1>2, <1>7, <4>5, <5>1, <5>2, <6>1
        <5>4. log[j].rawBreach
          BY <5>2, <5>3 DEF good
        <5> QED
          BY <1>7, <4>6, <5>2, <5>4
      <4> QED
        BY <3>1, <4>7, <4>8
    <3> QED
      BY <3>2, <3>3
  <2>13. first \in DOMAIN windows
    BY <1>1, <1>8, <2>6, <2>7
  <2> QED
    BY <2>11, <2>12, <2>13 DEF LastBad, had
<1>13. ASSUME LastBad(slos, windows, s, h) PROVE Bad(n) /\ Cardinality(run) + 1 >= h
  <2> DEFINE From(f) == {k \in Had : k >= f}
             near == {k \in Had : n - k <= 2 * (h + 1)}
  <2>1. \A f \in DOMAIN windows :
           From(f) = {k \in DOMAIN windows : k >= f /\ windows[k][s] # None}
    BY DEF Had
  <2>2. PICK f \in DOMAIN windows : Cardinality(From(f)) >= h /\ \A k \in From(f) : Bad(k)
    BY <1>13, <2>1 DEF LastBad
  <2>3. Cardinality(near) >= h \/ near = Had
    BY DEF WithinReach, Had
  <2>4. IsFiniteSet(Had) /\ f \in Int
    <3>1. IsFiniteSet(1..n)
      BY FS_Interval
    <3>2. Had \subseteq 1..n
      BY <1>8
    <3>3. IsFiniteSet(Had)
      BY <3>1, <3>2, FS_Subset
    <3> QED
      BY <1>1, <3>3
  <2> DEFINE P == From(f) \cap near
  <2>5. IsFiniteSet(P) /\ IsFiniteSet(From(f)) /\ IsFiniteSet(near)
    BY <2>4, FS_Subset
  <2>6. Cardinality(P) >= h
    <3>1. CASE near = Had
      <4>1. P = From(f)
        BY <3>1
      <4> QED
        BY <2>2, <4>1
    <3>2. CASE Cardinality(near) >= h
      <4>1. CASE \A k \in near : k >= f
        <5>1. P = near
          BY <4>1
        <5> QED
          BY <3>2, <5>1
      <4>2. CASE \E k \in near : ~(k >= f)
        <5>1. PICK k \in near : ~(k >= f)
          BY <4>2
        <5>2. \A w \in From(f) : w \in near
          <6> SUFFICES ASSUME NEW w \in From(f) PROVE n - w <= 2 * (h + 1)
            OBVIOUS
          <6>1. w \in Int /\ k \in Int /\ w >= f /\ n - k <= 2 * (h + 1) /\ ~(k >= f)
            BY <1>8, <5>1
          <6> QED
            BY <1>1, <2>4, <6>1
        <5>3. P = From(f)
          BY <5>2
        <5> QED
          BY <2>2, <5>3
      <4> QED
        BY <4>1, <4>2
    <3> QED
      BY <2>3, <3>1, <3>2
  <2>7. /\ \A v \in P : v \in Had /\ v \in Int /\ v >= f /\ n - v <= 2 * (h + 1) /\ Bad(v)
        /\ \A v \in Had : v >= f => Bad(v)
    BY <1>8, <2>2
  <2>8. Bad(n)
    <3>1. n >= f
      BY <1>1, <2>4
    <3> QED
      BY <1>11, <2>7, <3>1
  <2> DEFINE Q == P \ {n}
             D == {i \in own : log[i].at \in Q}
             e == [i \in D |-> log[i].at]
  <2> HIDE DEF P
  <2>9. IsFiniteSet(Q) /\ Cardinality(Q) + 1 >= h /\ Cardinality(Q) \in Nat
    <3>1. IsFiniteSet(Q) /\ Cardinality(Q) \in Nat
      BY <2>5, FS_Subset, FS_CardinalityType
    <3>2. Cardinality(P) = IF n \in P THEN Cardinality(Q) + 1 ELSE Cardinality(Q)
      <4>1. n \in P => Cardinality(Q) = Cardinality(P) - 1
        BY <2>5, FS_RemoveElement
      <4>2. n \notin P => Q = P
        OBVIOUS
      <4>3. Cardinality(P) \in Nat
        BY <2>5, FS_CardinalityType
      <4> HIDE DEF Q
      <4> QED
        BY <3>1, <4>1, <4>2, <4>3
    <3> HIDE DEF Q
    <3> QED
      BY <1>1, <2>6, <3>1, <3>2
  <2>10. \A v \in Q : \E i \in D : log[i].at = v
    <3> SUFFICES ASSUME NEW v \in Q PROVE \E i \in D : log[i].at = v
      OBVIOUS
    <3>1. v \in Had /\ v # n /\ n - v <= 2 * (h + 1) /\ v \in Int
      BY <2>7
    <3>2. PICK i \in DOMAIN log : log[i].at = v /\ log[i].slo = s /\ i <= ((m - v) + 1) * L
      BY <1>9, <3>1
    <3>3. v \in 1..m /\ i \in Int
      BY <1>2, <1>9, <3>1
    <3>4. i <= limit
      <4> DEFINE a == (m - v) + 1
                 b == 2 * (h + 1)
      <4>1. a \in Int /\ b \in Int /\ a <= b
        BY <1>1, <3>1, <3>3
      <4> HIDE DEF a, b
      <4>2. a * L \in Int /\ b * L \in Int /\ a * L <= b * L
        BY <1>1, <4>1, ProductGrows
      <4>3. i <= a * L /\ limit = b * L
        BY <1>5, <3>2 DEF a, b
      <4> QED
        BY <3>3, <4>2, <4>3
    <3> QED
      BY <3>2, <3>4 DEF own
  <2>11. IsFiniteSet(D) /\ Cardinality(Q) <= Cardinality(D)
    <3>1. IsFiniteSet(D)
      <4>1. D \subseteq DOMAIN log
        BY <1>7
      <4> QED
        BY <1>2, <4>1, FS_Subset
    <3>2. e \in Surjection(D, Q)
      BY <2>10 DEF Surjection
    <3> QED
      BY <3>1, <3>2, FS_Surjection
  <2>12. D \subseteq run
    <3> SUFFICES ASSUME NEW i \in D, NEW j \in good PROVE i < j
      OBVIOUS
    <3>1. i \in own /\ j \in own /\ ~log[j].rawBreach /\ log[i].at \in Q
      OBVIOUS
    <3>2. log[j].at \in Had /\ ~Bad(log[j].at) /\ log[j].at \in Int
      BY <1>7, <3>1
    <3>3. log[i].at >= f /\ log[i].at \in Int
      BY <2>7, <3>1
    <3>4. ~(log[j].at >= f)
      BY <2>7, <3>2
    <3>5. log[i].at > log[j].at
      <4>1. PICK x, y : x = log[i].at /\ y = log[j].at
        OBVIOUS
      <4>2. x > y
        BY <2>4, <3>2, <3>3, <3>4, <4>1
      <4> QED
        BY <4>1, <4>2
    <3> QED
      BY <1>10, <3>1, <3>5
  <2>13. Cardinality(D) <= Cardinality(run)
    BY <1>4, <2>12, FS_Subset
  <2> HIDE DEF Q, D, run
  <2>14. Cardinality(run) + 1 >= h
    <3>1. Cardinality(D) \in Nat
      BY <2>11, FS_CardinalityType
    <3> QED
      BY <1>1, <1>4, <2>9, <2>11, <2>13, <3>1
  <2> QED
    BY <2>8, <2>14
<1> HIDE DEF run
<1> QED
  BY <1>3, <1>12, <1>13 DEF limit

\* evaluate-once over any windows of any SLOs, as long as no judgment SLO's data is so
\* sparse that the history read starves its count: a breach is the last windows with data,
\* h or more, being bad, whatever the other SLOs' verdicts between them; a worse value
\* never passes where a better one fails; no SLO is left out without a word, judgment SLOs
\* without data excepted; and the command's exit is that of its breaches.
THEOREM WindowsCounted ==
    ASSUME call.about = "windows" =>
               /\ Configured(call.slos, call.windows, call.h)
               /\ \A s \in DOMAIN call.slos :
                     IsJudgment(call.slos[s]) => WithinReach(call.slos, call.windows, s, call.h)
    PROVE  WindowsAreCounted
<1> SUFFICES ASSUME call.about = "windows" PROVE WindowsAreCounted
  BY DEF WindowsAreCounted
<1> DEFINE slos == call.slos
           windows == call.windows
           h == call.h
           n == Len(windows)
           m == n - 1
           now == Last(windows)
           done == Evaluated(slos, now)
           logs == LogsAfter(slos, windows, h)
           log == logs[n]
           prev == logs[m]
           c == Cardinality(done)
           result(s) == CHOOSE v \in ToSet(SubSeq(log, 1, c)) : v.slo = s
           R(s) == Result(prev, slos, windows, n, h, s)
           Bad(s) == RawBreach(slos[s], windows[n][s])
<1>1. /\ Configured(slos, windows, h)
      /\ \A s \in DOMAIN slos : IsJudgment(slos[s]) => WithinReach(slos, windows, s, h)
  OBVIOUS
<1> HIDE DEF slos, windows, h
<1>2. /\ n \in Nat /\ n >= 1 /\ DOMAIN windows = 1..n /\ Len(slos) \in Nat
      /\ DOMAIN slos = 1..Len(slos) /\ h \in Nat
      /\ \A s \in DOMAIN slos : slos[s] \in SloSet
      /\ windows[n] \in [DOMAIN slos -> Int]
  <2>1. /\ slos \in Seq(SloSet) /\ h \in Nat
        /\ windows \in Seq([DOMAIN slos -> Int]) /\ windows # << >>
    BY <1>1 DEF Configured
  <2>2. n \in Nat /\ n >= 1 /\ DOMAIN windows = 1..n
    BY <2>1
  <2>3. Len(slos) \in Nat /\ DOMAIN slos = 1..Len(slos)
    BY <2>1
  <2>4. \A s \in DOMAIN slos : slos[s] \in SloSet
    BY <2>1, ElementOfSeq
  <2>5. n \in DOMAIN windows
    BY <2>2
  <2> DEFINE F == [DOMAIN slos -> Int]
  <2>6. windows[n] \in F
    <3> HIDE DEF F, n
    <3>1. windows \in Seq(F)
      BY <2>1 DEF F
    <3> QED
      BY <2>5, <3>1, ElementOfSeq
  <2> QED
    BY <2>1, <2>2, <2>3, <2>4, <2>6
<1>3. now = windows[n]
  BY DEF Last
<1> HIDE DEF n, now
<1>4. n \in DOMAIN windows /\ m \in 0..n /\ m \in Nat /\ n = m + 1 /\ n \in 0..n /\ n \in 1..n
  BY <1>2
<1>5. Logged(prev, slos, windows, m) /\ log = Window(prev, slos, windows, n, h)
  BY <1>1, <1>4, LogsLogged DEF n
<1> HIDE DEF logs, m
<1>6. /\ done \subseteq DOMAIN slos /\ {r \in done : r <= Len(slos)} = done
      /\ \A s \in done : slos[s].kind # "not_evaluable" /\ windows[n][s] # None
  BY <1>2, <1>3 DEF Evaluated
<1>7. prev \in Seq(SloVerdicts(slos, windows))
  BY <1>5 DEF Logged
<1>8. /\ log \in Seq(SloVerdicts(slos, windows)) /\ IsFiniteSet(done) /\ Len(log) = c + Len(prev)
      /\ \A i \in 1..c : log[i].slo \in done /\ log[i] = R(log[i].slo)
      /\ \A s \in done : \E i \in 1..c : log[i].slo = s
  <2>1. StackedTo(log, prev, slos, windows, n, h, Len(slos))
    BY <1>1, <1>4, <1>5, <1>7, WindowStacks
  <2>2. {r \in Evaluated(slos, windows[n]) : r <= Len(slos)} = done
    BY <1>3, <1>6
  <2> HIDE DEF done, log, prev
  <2> QED
    BY <2>1, <2>2 DEF StackedTo
<1>9. c \in Nat /\ Len(prev) \in Nat /\ Len(log) \in Nat
  BY <1>7, <1>8, FS_CardinalityType
<1>10. ASSUME NEW s \in done
       PROVE  /\ R(s).slo = s /\ R(s).rawBreach = Bad(s)
              /\ R(s).breach \in BOOLEAN
  <2>1. s \in DOMAIN slos
    BY <1>6
  <2> HIDE DEF prev
  <2>2. R(s) \in SloVerdicts(slos, windows) /\ R(s).slo = s /\ R(s).rawBreach = Bad(s)
    BY <1>1, <1>4, <1>7, <2>1, ResultType
  <2> QED
    BY <2>2 DEF SloVerdicts
<1> HIDE DEF R, c, done, log, prev
<1>11. ASSUME NEW s \in done PROVE result(s) = R(s)
  <2>1. SubSeq(log, 1, c) = [i \in 1..c |-> log[i]]
    <3>1. c <= Len(log)
      BY <1>8, <1>9
    <3> QED
      BY <1>8, <1>9, <3>1
  <2>2. ToSet(SubSeq(log, 1, c)) = {log[i] : i \in 1..c}
    BY <2>1 DEF ToSet
  <2>3. \A v \in {log[i] : i \in 1..c} : v.slo = s => v = R(s)
    BY <1>8
  <2>4. \E v \in {log[i] : i \in 1..c} : v.slo = s
    BY <1>8
  <2> QED
    BY <2>2, <2>3, <2>4
<1> HIDE DEF result
<1>12. ASSUME h >= 1, NEW s \in done
       PROVE  result(s).breach <=>
                 LastBad(slos, windows, s, IF IsJudgment(slos[s]) THEN h ELSE 1)
  <2> DEFINE cons == Consecutive(prev, s, HistoryLimit(slos, h))
             k == IF Bad(s) THEN cons + 1 ELSE 0
  <2>1. result(s).breach = IF IsJudgment(slos[s]) THEN k >= h ELSE Bad(s)
    <3>1. R(s).breach = IF IsJudgment(slos[s]) THEN k >= h ELSE Bad(s)
      BY DEF R, Result
    <3> QED
      BY <1>11, <3>1
  <2>2. s \in Evaluated(slos, windows[n]) /\ s \in DOMAIN slos
    BY <1>3, <1>6 DEF done
  <2>3. CASE IsJudgment(slos[s])
    <3>1. WithinReach(slos, windows, s, h)
      BY <1>1, <2>2, <2>3
    <3>2. Bad(s) /\ cons + 1 >= h <=> LastBad(slos, windows, s, h)
      BY <1>1, <1>2, <1>4, <1>5, <1>12, <2>2, <3>1, WindowsCount DEF n
    <3>3. k >= h <=> Bad(s) /\ cons + 1 >= h
      <4> HIDE DEF cons
      <4>1. ~(0 >= h)
        BY <1>2, <1>12
      <4> QED
        BY <4>1
    <3> QED
      BY <2>1, <2>3, <3>2, <3>3
  <2>4. CASE ~IsJudgment(slos[s])
    <3> DEFINE had(f) == {j \in DOMAIN windows : j >= f /\ windows[j][s] # None}
    <3>1. n \in had(n) /\ \A f \in DOMAIN windows : n \in had(f)
      BY <1>2, <1>4, <1>6
    <3>2. \A j \in had(n) : j = n
      BY <1>2
    <3>3. IsFiniteSet(had(n)) /\ Cardinality(had(n)) = 1
      <4>1. had(n) = {n}
        BY <3>1, <3>2
      <4> HIDE DEF had
      <4> QED
        BY <4>1, FS_Singleton
    <3>4. Bad(s) => LastBad(slos, windows, s, 1)
      <4> SUFFICES ASSUME Bad(s) PROVE LastBad(slos, windows, s, 1)
        OBVIOUS
      <4>1. Cardinality(had(n)) >= 1 /\ \A j \in had(n) : RawBreach(slos[s], windows[j][s])
        BY <3>2, <3>3
      <4> QED
        BY <1>4, <4>1 DEF LastBad
    <3>5. LastBad(slos, windows, s, 1) => Bad(s)
      BY <3>1 DEF LastBad
    <3> QED
      BY <2>1, <2>4, <3>4, <3>5
  <2> QED
    BY <2>3, <2>4
<1>13. ASSUME NEW s \in done, NEW w \in ValuesOf(slos[s].kind) \ {None},
              Worsens(slos[s].kind, now[s], w), RawBreach(slos[s], now[s])
       PROVE  RawBreach(slos[s], w)
  <2> DEFINE t == slos[s]
             v == now[s]
  <2>1. v \in Int /\ t.target \in Int /\ w \in Int
    <3>1. w \in Int
      BY DEF ValuesOf
    <3> QED
      BY <1>2, <1>3, <1>6, <3>1 DEF SloSet
  <2>2. Worsens(t.kind, v, w) /\ RawBreach(t, v)
    BY <1>13
  <2> HIDE DEF t, v
  <2>3. RawBreach(t, w)
    BY <2>1, <2>2 DEF Worsens, RawBreach
  <2> QED
    BY <2>3 DEF t
<1>14. ASSUME NEW s \in DOMAIN slos \ done
       PROVE  \/ IsJudgment(slos[s])
              \/ s \in Unevaluated(slos, now).notEvaluable \union Unevaluated(slos, now).noData
  <2>1. slos[s].kind \in QueryKinds
    BY <1>2 DEF SloSet
  <2> QED
    BY <2>1 DEF IsJudgment, Unevaluated, QueryKinds, done
<1>15. EvaluateOnce(slos, windows, h).exit = 0 <=> h >= 1 /\ \A s \in done : ~result(s).breach
  <2>1. slos # << >>
    BY <1>1 DEF Configured
  <2>2. Len(log) - Len(prev) = c
    BY <1>8, <1>9
  <2>3. h >= 1 => EvaluateOnce(slos, windows, h).exit = IF \E i \in 1..c : log[i].breach THEN 2 ELSE 0
    <3> SUFFICES ASSUME h >= 1
                 PROVE  EvaluateOnce(slos, windows, h).exit
                           = IF \E i \in 1..c : log[i].breach THEN 2 ELSE 0
      OBVIOUS
    <3>1. ~(h < 1)
      BY <1>2
    <3>2. LogsAfter(slos, windows, h)[Len(windows)] = log
      BY DEF log, logs, n
    <3>3. Len(LogsAfter(slos, windows, h)[Len(windows)])
            - Len(LogsAfter(slos, windows, h)[Len(windows) - 1]) = c
      BY <2>2 DEF log, prev, logs, m, n
    <3> QED
      BY <2>1, <3>1, <3>2, <3>3 DEF EvaluateOnce
  <2>4. ~(h >= 1) => EvaluateOnce(slos, windows, h).exit # 0
    BY <1>2 DEF EvaluateOnce
  <2>5. (\E i \in 1..c : log[i].breach) <=> \E s \in done : result(s).breach
    <3>1. ASSUME NEW i \in 1..c PROVE log[i].slo \in done /\ log[i] = result(log[i].slo)
      BY <1>8, <1>11
    <3>2. ASSUME NEW s \in done PROVE \E i \in 1..c : log[i] = result(s)
      BY <1>8, <1>11
    <3> QED
      BY <3>1, <3>2
  <2> QED
    BY <2>3, <2>4, <2>5
<1> QED
  BY <1>12, <1>13, <1>14, <1>15, Zenon
  DEF WindowsAreCounted, result, slos, windows, h, n, now, done, logs, log, c

-----------------------------------------------------------------------------
(*****************************************************************************)
(* What agents did: stored, reported, promoted and corrected.                *)
(*****************************************************************************)

LEMMA StoredIsReported ==
    ASSUME call.about = "pipeline-output" => call \in CallsOfPipeline
    PROVE  PipelineReportsWhatItStored
<1> SUFFICES ASSUME call.about = "pipeline-output" PROVE PipelineReportsWhatItStored
  BY DEF PipelineReportsWhatItStored
<1> DEFINE o == call
           r == RouteOutput(call)
           same == [call EXCEPT !.fails = "none"]
           fine == RouteOutput(same)
<1>1. /\ same.tiering = o.tiering /\ Tier(same) = Tier(o) /\ same.drawn = o.drawn
      /\ same.dims = o.dims /\ same.threshold = o.threshold /\ same.fails = "none"
  BY DEF CallsOfPipeline, Tier
<1>2. AutoApproved(same) <=> AutoApproved(o)
  BY <1>1 DEF AutoApproved, ShouldSample
<1>3. CreateVerdict(o) \in {"approve", "reject"}
  BY DEF CreateVerdict
<1>4. o.dims \in {<< >>, <<4>>, <<4, 8>>}
  BY DEF CallsOfPipeline
<1> DEFINE stored == Fault(o) \notin {"evaluate", "save"}
           checked == stored /\ ~AutoApproved(o) /\ Fault(o) # "window"
           graders == IF checked THEN [i \in DOMAIN o.dims |-> "grader"] ELSE << >>
<1>5. /\ r.scores = IF stored THEN 1 ELSE 0
      /\ r.events = IF stored /\ (AutoApproved(o) \/ checked)
                    THEN Append(graders, "completed") ELSE << >>
      /\ r.verdict = IF stored /\ ~AutoApproved(o) /\ Fault(o) \notin {"create", "put"}
                     THEN CreateVerdict(o) ELSE "none"
      /\ r.linked <=> stored /\ ~AutoApproved(o) /\ Fault(o) \notin VerdictFails
      /\ r.governed <=> checked
      /\ r.runs <=> Fault(o) \in {"none"} \union VerdictFails
  BY DEF RouteOutput
<1>6. "grader" \in ToSet(r.events) => ~AutoApproved(o)
  <2> SUFFICES ASSUME AutoApproved(o) PROVE "grader" \notin ToSet(r.events)
    OBVIOUS
  <2>1. r.events \in {<< >>, <<"completed">>}
    BY <1>5
  <2> HIDE DEF r
  <2> QED
    BY <2>1 DEF ToSet
<1>7. r.events # << >> => r.scores = 1
  BY <1>5
<1>8. r.linked => r.verdict # "none" /\ r.scores = 1
  BY <1>3, <1>5 DEF VerdictFails
<1>9. ASSUME o.fails \in VerdictFails
      PROVE  r.scores = fine.scores /\ r.events = fine.events /\ r.governed = fine.governed /\ r.runs
  <2>1. /\ Fault(o) \in {"none"} \union VerdictFails /\ Fault(same) = "none"
        /\ Fault(o) \notin {"evaluate", "save", "window"}
    BY <1>1, <1>9 DEF Fault, VerdictFails
  <2>2. RouteOutput(same).scores = 1 /\ r.scores = 1
    BY <2>1, <1>5 DEF RouteOutput
  <2>3. fine.governed <=> r.governed
    BY <2>1, <1>2, <1>5 DEF RouteOutput
  <2>4. fine.events = r.events
    BY <2>1, <1>1, <1>2 DEF RouteOutput
  <2>5. fine.governed = r.governed
    <3>1. fine.governed = (~AutoApproved(same)) /\ r.governed = (~AutoApproved(o))
      BY <2>1 DEF RouteOutput
    <3> QED
      BY <1>2, <3>1
  <2> QED
    BY <1>5, <2>1, <2>2, <2>4, <2>5
<1> QED
  BY <1>6, <1>7, <1>8, <1>9 DEF PipelineReportsWhatItStored

LEMMA WorseStillPromotes ==
    ASSUME call.about = "promotion" =>
               /\ call.scores \in Seq([auto : BOOLEAN, tier : {"minimal", "standard"}, dims : Seq(Int)])
               /\ call.quality \in Int /\ call.quality > 3 /\ call.size \in Nat
               /\ call.tolerated \in Nat
    PROVE  FailuresPromote
<1> SUFFICES ASSUME call.about = "promotion", NEW i \in DOMAIN call.scores,
                    CheckAgent(call.scores, call.size, call.quality, call.tolerated)
             PROVE  CheckAgent([call.scores EXCEPT ![i].dims = <<3>>], call.size, call.quality,
                               call.tolerated)
  BY DEF FailuresPromote
<1> DEFINE s == call.scores
           w == [call.scores EXCEPT ![i].dims = <<3>>]
           Sampled(t) == {k \in {k \in DOMAIN t : k <= call.size} : t[k].tier = "minimal" /\ ~t[k].auto}
           Failing(t) == {k \in Sampled(t) : \E j \in DOMAIN t[k].dims : t[k].dims[j] < call.quality}
<1>1. /\ DOMAIN w = DOMAIN s
      /\ \A k \in DOMAIN s : w[k].tier = s[k].tier /\ w[k].auto = s[k].auto
      /\ \A k \in DOMAIN s : k # i => w[k].dims = s[k].dims
      /\ w[i].dims = <<3>>
  <2> DEFINE ScoresOf == [auto : BOOLEAN, tier : {"minimal", "standard"}, dims : Seq(Int)]
  <2>1. s \in Seq(ScoresOf)
    OBVIOUS
  <2> HIDE DEF ScoresOf
  <2>2. s[i] \in ScoresOf
    BY <2>1, ElementOfSeq
  <2> USE DEF ScoresOf
  <2> QED
    BY <2>2
<1> HIDE DEF w, s
<1>2. Sampled(w) = Sampled(s)
  BY <1>1
<1>3. Failing(s) \subseteq Failing(w)
  <2> SUFFICES ASSUME NEW k \in Failing(s) PROVE k \in Failing(w)
    OBVIOUS
  <2>1. k \in Sampled(w) /\ k \in DOMAIN s
    BY <1>2
  <2>2. CASE k = i
    <3>1. 1 \in DOMAIN w[k].dims /\ w[k].dims[1] < call.quality
      BY <1>1, <2>2
    <3> QED
      BY <2>1, <3>1
  <2>3. CASE k # i
    BY <1>1, <2>1, <2>3
  <2> QED
    BY <2>2, <2>3
<1>4. IsFiniteSet(Sampled(s)) /\ IsFiniteSet(Failing(w)) /\ IsFiniteSet(Failing(s))
  <2>1. DOMAIN s = 1..Len(s) /\ Len(s) \in Nat
    BY DEF s
  <2>2. IsFiniteSet(DOMAIN s)
    BY <2>1, FS_Interval
  <2> QED
    BY <1>1, <2>2, FS_Subset
<1> DEFINE n == Cardinality(Sampled(s))
           f == Cardinality(Failing(s))
           g == Cardinality(Failing(w))
<1>5. f \in Nat /\ g \in Nat /\ f <= g
  BY <1>3, <1>4, FS_Subset, FS_CardinalityType
<1>6. n >= call.size /\ n > 0 /\ 10 * f > call.tolerated * n
  BY DEF CheckAgent, s
<1>7. Cardinality(Sampled(w)) = n
  BY <1>2
<1>8. CheckAgent(w, call.size, call.quality, call.tolerated)
        <=> n >= call.size /\ n > 0 /\ 10 * g > call.tolerated * n
  <2> HIDE DEF n
  <2> QED
    BY <1>7 DEF CheckAgent
<1>9. n \in Nat
  BY <1>4, FS_CardinalityType
<1>10. 10 * g > call.tolerated * n
  <2>1. PICK m : m = call.tolerated * n
    OBVIOUS
  <2>2. m \in Int
    <3> HIDE DEF n
    <3> QED
      BY <1>9, <2>1
  <2> HIDE DEF f, g, n
  <2> QED
    BY <1>5, <1>6, <2>1, <2>2
<1> QED
  <2> HIDE DEF n, g
  <2> QED
    BY <1>6, <1>8, <1>10 DEF w

LEMMA OverrideKeptOrNot ==
    ASSUME call.about = "override" => call \in CallsOfOverride
    PROVE  OverrideIsWhole
<1> SUFFICES ASSUME call.about = "override" PROVE OverrideIsWhole
  BY DEF OverrideIsWhole
<1>1. /\ call.dims \in {1, 2} /\ call.known \in BOOLEAN /\ call.linked \in BOOLEAN
      /\ call.fails \in {"none", "insert", "commit", "events", "resolve"}
  BY DEF CallsOfOverride
<1> DEFINE w == SaveOverride(call)
<1>2. /\ w.rows = IF call.known /\ Kept(call.fails) THEN call.dims ELSE 0
      /\ w.events = IF call.known /\ Kept(call.fails) /\ call.fails # "events" THEN call.dims ELSE 0
      /\ w.resolved = (call.known /\ call.linked /\ call.fails = "none")
  BY DEF SaveOverride
<1> HIDE DEF w
<1>3. w.resolved => call.known /\ call.fails = "none"
  BY <1>1, <1>2
<1>4. w.rows \in {0, call.dims} /\ w.events <= w.rows
  BY <1>1, <1>2
<1>5. w.resolved => w.events = call.dims
  BY <1>2, <1>3 DEF Kept
<1>6. (call.fails \in {"insert", "commit"} \/ ~call.known) => w.rows = 0
  BY <1>1, <1>2 DEF Kept
<1> QED
  BY <1>4, <1>5, <1>6 DEF OverrideIsWhole, w

Calibrations ==
    [about : {"calibration"}, since : Int, threshold : Int, target : Int,
     evals : Seq([at : Int, dims : Seq(Int)]),
     overrides : Seq([eval : Nat, original : Int, corrected : Int, at : Int])]

LEMMA RatesAreShares ==
    ASSUME call.about = "calibration" => call \in Calibrations
    PROVE  RatesAgree
<1> SUFFICES ASSUME call.about = "calibration" PROVE RatesAgree
  BY DEF RatesAgree
<1> DEFINE c == call
           E == GetScores(c)
           O == Overridden(c)
           D == Downward(c)
           U == Upward(c)
           S == Scored(c)
           L == Low(c)
<1>1. /\ c.evals \in Seq([at : Int, dims : Seq(Int)])
      /\ c.overrides \in Seq([eval : Nat, original : Int, corrected : Int, at : Int])
      /\ c.target \in Int
  BY DEF Calibrations
<1>2. IsFiniteSet(E)
  <2>1. IsFiniteSet(DOMAIN c.evals)
    <3>1. DOMAIN c.evals = 1..Len(c.evals) /\ Len(c.evals) \in Nat
      BY <1>1
    <3> QED
      BY <3>1, FS_Interval
  <2> QED
    BY <2>1, FS_Subset DEF GetScores
<1>3. S \subseteq E /\ L \subseteq S /\ D \subseteq O
  BY DEF Scored, Low, Downward
<1>4. (O \subseteq E) => Cardinality(O) <= Cardinality(E)
  BY <1>2, FS_Subset
<1>5. IsFiniteSet(S) /\ IsFiniteSet(L)
  BY <1>2, <1>3, FS_Subset
<1> HIDE DEF E, O, D, U, S, L
<1>6. ASSUME D \subseteq S
      PROVE  Cardinality(D \cap (S \ L)) + Cardinality(D \cap L) = Cardinality(D)
  <2> DEFINE A == D \cap (S \ L)
             B == D \cap L
  <2>1. A \union B = D /\ A \cap B = {}
    BY <1>3, <1>6
  <2>2. IsFiniteSet(D)
    BY <1>5, <1>6, FS_Subset
  <2>3. IsFiniteSet(A) /\ IsFiniteSet(B)
    BY <2>2, FS_Subset
  <2> HIDE DEF A, B
  <2>4. Cardinality(D) = Cardinality(A) + Cardinality(B) - Cardinality(A \cap B)
    BY <2>1, <2>3, FS_Union
  <2>5. Cardinality(A \cap B) = 0 /\ Cardinality(A) \in Nat /\ Cardinality(B) \in Nat
    BY <2>1, <2>3, FS_EmptySet, FS_CardinalityType
  <2>6. Cardinality(A) + Cardinality(B) = Cardinality(D)
    BY <2>4, <2>5
  <2> QED
    BY <2>6 DEF A, B
<1>7. Cardinality(L \ U) <= Cardinality(L)
  BY <1>5, FS_Subset
<1>8. ASSUME O \subseteq E PROVE ReversalRate(c).num <= ReversalRate(c).den
  BY <1>4, <1>8 DEF ReversalRate, Share, O, E
<1>9. ASSUME D \subseteq S PROVE FalseAcceptRate(c).num + Recall(c).num = Cardinality(Downward(c))
  BY <1>6, <1>9 DEF FalseAcceptRate, Recall, Share, D, S, L
<1>10. Precision(c).num <= Precision(c).den
  BY <1>7 DEF Precision, Share, L, U
<1>11. ComputeWindow(c).reversal = CheckSLO(c).reversal
  BY DEF ComputeWindow, CheckSLO, ReversalRate
<1>12. CheckSLO(c).error = Calibrate(c)
  BY DEF CheckSLO, Calibrate
<1>13. ASSUME E # {} PROVE "reversal_rate" \in Alerts(c) <=> ~CheckSLO(c).compliant
  <2> DEFINE w == ComputeWindow(c)
             over == 10 * w.reversal.num > c.target * w.reversal.den
  <2>1. w.count = Cardinality(E)
    BY DEF ComputeWindow, E
  <2>2. w.count # 0
    BY <1>2, <1>13, <2>1, FS_EmptySet
  <2>3. "reversal_rate" \in Alerts(c) <=> over
    BY <2>2 DEF Alerts
  <2>4. w.reversal = ReversalRate(c)
    BY DEF ComputeWindow, ReversalRate
  <2>5. CheckSLO(c).compliant = (10 * ReversalRate(c).num <= c.target * ReversalRate(c).den)
    BY DEF CheckSLO
  <2>6. over = (10 * ReversalRate(c).num > c.target * ReversalRate(c).den)
    BY <2>4
  <2> HIDE DEF w, over
  <2> DEFINE x == ReversalRate(c).num
             y == ReversalRate(c).den
  <2>7. y = Cardinality(E) /\ x = Cardinality(O)
    BY DEF ReversalRate, Share, E, O
  <2>8. IsFiniteSet(O)
    <3> DEFINE ov == c.overrides
    <3>1. IsFiniteSet(DOMAIN ov)
      <4>1. DOMAIN ov = 1..Len(ov) /\ Len(ov) \in Nat
        BY <1>1
      <4> QED
        BY <4>1, FS_Interval
    <3>2. IsFiniteSet(GetOverrides(c))
      BY <3>1, FS_Subset DEF GetOverrides
    <3>3. LET g == [i \in GetOverrides(c) |-> c.overrides[i].eval] IN g \in Surjection(GetOverrides(c), O)
      BY DEF Surjection, O, Overridden
    <3> QED
      BY <3>2, <3>3, FS_Surjection
  <2>9. x \in Nat /\ y \in Nat
    BY <1>2, <2>7, <2>8, FS_CardinalityType
  <2> HIDE DEF x, y
  <2>10. (10 * x > c.target * y) <=> ~(10 * x <= c.target * y)
    <3>1. PICK m : m = c.target * y
      OBVIOUS
    <3>2. m \in Int
      BY <1>1, <2>9, <3>1
    <3> QED
      BY <2>9, <3>1, <3>2
  <2> QED
    BY <2>3, <2>5, <2>6, <2>10 DEF x, y
<1> QED
  BY <1>8, <1>9, <1>10, <1>11, <1>12, <1>13 DEF RatesAgree, O, E, D, S

-----------------------------------------------------------------------------
(***************************************************************************)
(* The webhook's queue.                                                    *)
(***************************************************************************)

Posts(Methods) ==
    [header : Nat, body : Nat, method : Methods, valid : BOOLEAN, cut : BOOLEAN]
\* f is the function of how many are queued after every request.
Queues(f, requests, queued) ==
    f = [i \in 0..Len(requests) |-> IF i = 0 THEN queued ELSE Intake(f[i - 1], requests[i])]

LEMMA IntakeType ==
    ASSUME NEW Methods, NEW r \in Posts(Methods), NEW q \in 0..MaxQueue
    PROVE  /\ Response(r, q) = 200 => r.valid /\ ~r.cut /\ q < MaxQueue
           /\ Intake(q, r) \in 0..MaxQueue
<1>1. r.header \in Nat /\ r.body \in Nat /\ r.valid \in BOOLEAN /\ r.cut \in BOOLEAN
  BY DEF Posts
<1>2. Response(r, q) = 200 => r.valid /\ ~r.cut /\ q < MaxQueue
  BY <1>1, QueueAssumption DEF Response
<1> QED
  BY <1>2, QueueAssumption DEF Intake

LEMMA QueuesExist ==
    ASSUME NEW Methods, NEW requests \in Seq(Posts(Methods)), NEW queued \in 0..MaxQueue
    PROVE  \E g : Queues(g, requests, queued)
<1> DEFINE n == Len(requests)
           Q == 0..MaxQueue
           R == Posts(Methods)
           step == [p \in Q \X R |-> Intake(p[1], p[2])]
<1>1. n \in Nat /\ requests \in [1..n -> R]
  OBVIOUS
<1>2. queued \in Q
  OBVIOUS
<1>3. \A q \in Q, r \in R : Intake(q, r) \in Q
  BY IntakeType
<1>4. step \in [Q \X R -> Q]
  BY <1>3
<1>5. \A q \in Q, r \in R : step[q, r] = Intake(q, r)
  OBVIOUS
<1> HIDE DEF step, n, Q, R
<1>6. PICK g \in [0..n -> Q] :
         g[0] = queued /\ \A i \in 1..n : g[i] = step[g[i - 1], requests[i]]
  <2>1. \E g \in [0..n -> Q] : Iterates(g, queued, step, n, requests)
    BY <1>1, <1>2, <1>4, IterationExists
  <2> QED
    BY <2>1, Zenon DEF Iterates
<1>7. ASSUME NEW i \in 0..n
      PROVE  g[i] = IF i = 0 THEN queued ELSE Intake(g[i - 1], requests[i])
  <2>1. i # 0 => i \in 1..n /\ i - 1 \in 0..n
    BY <1>1
  <2>2. i # 0 => g[i - 1] \in Q /\ requests[i] \in R
    BY <1>1, <2>1
  <2> QED
    BY <1>5, <1>6, <2>1, <2>2
<1>8. g = [i \in 0..n |-> IF i = 0 THEN queued ELSE Intake(g[i - 1], requests[i])]
  BY <1>7
<1> QED
  BY <1>8 DEF Queues, n

\* The senders answered 200 among the first k.
Acknowledged(f, requests, k) == {i \in 1..k : Response(requests[i], f[i - 1]) = 200}

LEMMA WebhookQueues ==
    ASSUME NEW Methods,
           call.about = "webhook" =>
               call.requests \in Seq(Posts(Methods)) /\ call.queued \in 0..MaxQueue
    PROVE  AcknowledgedIsQueued
<1> SUFFICES ASSUME call.about = "webhook" PROVE AcknowledgedIsQueued
  BY DEF AcknowledgedIsQueued
<1> DEFINE requests == call.requests
           queued == call.queued
           n == Len(requests)
           f == Queued(requests, queued)
           S == {k \in 0..n : /\ f[k] \in 0..MaxQueue /\ IsFiniteSet(Acknowledged(f, requests, k))
                              /\ f[k] = queued + Cardinality(Acknowledged(f, requests, k))}
<1>1. /\ requests \in Seq(Posts(Methods)) /\ queued \in 0..MaxQueue /\ n \in Nat
      /\ DOMAIN requests = 1..n
  OBVIOUS
<1> HIDE DEF requests, queued
<1>2. Queues(f, requests, queued)
  <2>1. \E g : Queues(g, requests, queued)
    BY <1>1, QueuesExist
  <2>2. f = CHOOSE g : Queues(g, requests, queued)
    BY Zenon DEF Queued, Queues
  <2> QED
    BY <2>1, <2>2, Zenon
<1> HIDE DEF f
<1>3. /\ f[0] = queued
      /\ \A i \in 1..n : f[i] = Intake(f[i - 1], requests[i])
  <2>1. /\ 0 \in 0..n /\ \A i \in 1..n : i \in 0..n /\ i # 0
    BY <1>1
  <2> HIDE DEF n
  <2> QED
    BY <1>2, <2>1 DEF Queues, n
<1>4. 0 \in S
  <2>1. Acknowledged(f, requests, 0) = {}
    BY DEF Acknowledged
  <2>2. 0 \in 0..n /\ queued + 0 = queued
    BY <1>1
  <2> QED
    BY <1>1, <1>3, <2>1, <2>2, FS_EmptySet
<1>5. ASSUME NEW k \in 0..n, k \in S, k # n PROVE k + 1 \in S
  <2> DEFINE r == requests[k + 1]
             A == Acknowledged(f, requests, k)
  <2>1. k + 1 \in 1..n /\ k + 1 \in 0..n /\ (k + 1) - 1 = k
    <3> HIDE DEF S, n
    <3> QED
      BY <1>1, <1>5
  <2>2. r \in Posts(Methods)
    BY <1>1, <2>1, ElementOfSeq
  <2>3. f[k] \in 0..MaxQueue /\ IsFiniteSet(A) /\ f[k] = queued + Cardinality(A)
    BY <1>5
  <2>4. f[k + 1] = Intake(f[k], r)
    BY <1>3, <2>1
  <2>5. f[k + 1] \in 0..MaxQueue
    BY <2>2, <2>3, <2>4, IntakeType
  <2>6. Acknowledged(f, requests, k + 1) = IF Response(r, f[k]) = 200 THEN A \union {k + 1} ELSE A
    <3>1. \A i : i \in 1..(k + 1) <=> i \in 1..k \/ i = k + 1
      BY <1>5
    <3> QED
      BY <2>1, <3>1 DEF Acknowledged
  <2>7. k + 1 \notin A
    BY <1>5 DEF Acknowledged
  <2>8. /\ IsFiniteSet(Acknowledged(f, requests, k + 1))
        /\ Cardinality(Acknowledged(f, requests, k + 1)) =
              IF Response(r, f[k]) = 200 THEN Cardinality(A) + 1 ELSE Cardinality(A)
    BY <2>3, <2>6, <2>7, FS_AddElement
  <2>9. Cardinality(A) \in Nat
    BY <2>3, FS_CardinalityType
  <2>10. f[k + 1] = IF Response(r, f[k]) = 200 THEN f[k] + 1 ELSE f[k]
    BY <2>4 DEF Intake
  <2>11. f[k + 1] = queued + Cardinality(Acknowledged(f, requests, k + 1))
    <3> HIDE DEF A, r
    <3>1. PICK q : q = f[k]
      OBVIOUS
    <3>2. q + 1 = queued + (Cardinality(A) + 1)
      BY <1>1, <2>3, <2>9, <3>1
    <3> QED
      BY <2>3, <2>8, <2>10, <3>1, <3>2
  <2> QED
    BY <2>1, <2>5, <2>8, <2>11
<1>6. n \in S
  <2>1. n \in 0..n /\ 0 \in Nat
    BY <1>1
  <2> HIDE DEF S
  <2> QED
    BY <1>1, <1>4, <1>5, <2>1, IntervalInduction
<1>7. {i \in DOMAIN requests : Response(requests[i], f[i - 1]) = 200} = Acknowledged(f, requests, n)
  BY <1>1 DEF Acknowledged
<1>8. \A i \in Acknowledged(f, requests, n) : requests[i].valid /\ ~requests[i].cut
  <2> SUFFICES ASSUME NEW i \in Acknowledged(f, requests, n) PROVE requests[i].valid /\ ~requests[i].cut
    OBVIOUS
  <2>1. i \in 1..n /\ Response(requests[i], f[i - 1]) = 200
    BY DEF Acknowledged
  <2>2. requests[i] \in Posts(Methods)
    BY <1>1, <2>1, ElementOfSeq
  <2>3. f[i - 1] \in 0..MaxQueue
    <3>1. i - 1 \in 0..n
      BY <1>1, <2>1
    <3>2. \A k \in 0..n : k \in S
      <4>1. 0 \in Nat
        OBVIOUS
      <4> HIDE DEF S
      <4> QED
        BY <1>1, <1>4, <1>5, <4>1, IntervalInduction
    <3> QED
      BY <3>1, <3>2
  <2> QED
    BY <2>1, <2>2, <2>3, IntakeType
<1> QED
  <2>1. f[n] = queued + Cardinality(Acknowledged(f, requests, n)) /\ f[n] <= MaxQueue
    BY <1>6, QueueAssumption
  <2> HIDE DEF n
  <2> QED
    BY <1>7, <1>8, <2>1 DEF AcknowledgedIsQueued, f, n, requests, queued

-----------------------------------------------------------------------------
(***************************************************************************)
(* Everything that is asked of measure.                                    *)
(***************************************************************************)

\* The calls of measure's functions: any histogram, any windows that the history reaches
\* back far enough for, any items and requests of an adapter, any scores and overrides.
MeasureCall(Ids, Methods) ==
    /\ call.about = "rearm" => call.evals \in Seq([status : Statuses, at : Nat])
    /\ call.about = "restored" => call.raw \in RawStates
    /\ call.about = "quantile" =>
           call.q \in 0..(Quarters - 1) /\ call.buckets \in Seq(Buckets)
    /\ call.about = "sample" =>
           /\ call.now = 10 /\ call.window = 6 /\ call.slack = 1 /\ call.check \in BOOLEAN
           /\ call.oldest \in {None, 0, 2, 8, 11}
           /\ call.answers \in [DOMAIN call.bounds -> BOOLEAN]
    /\ call.about = "windows" =>
           /\ Configured(call.slos, call.windows, call.h)
           /\ \A s \in DOMAIN call.slos :
                 IsJudgment(call.slos[s]) => WithinReach(call.slos, call.windows, s, call.h)
    /\ call.about = "polling" => call.items \in Seq(PolledItems(Ids))
    /\ call.about = "webhook" =>
           call.requests \in Seq(Posts(Methods)) /\ call.queued \in 0..MaxQueue
    /\ call.about = "pipeline-output" => call \in CallsOfPipeline
    /\ call.about = "promotion" =>
           /\ call.scores \in Seq([auto : BOOLEAN, tier : {"minimal", "standard"}, dims : Seq(Int)])
           /\ call.quality \in Int /\ call.quality > 3 /\ call.size \in Nat
           /\ call.tolerated \in Nat
    /\ call.about = "override" => call \in CallsOfOverride
    /\ call.about = "calibration" => call \in Calibrations

\* Whatever measure is asked, for any length of the evaluations, windows, histograms,
\* requests and scores, its figures mean what they say.
THEOREM MeasureAnswered ==
    ASSUME NEW Ids, NEW Methods, MeasureCall(Ids, Methods)
    PROVE  MeasureAnswers
<1>1. RaisedOncePerEpisode
  BY RaisedOnce, Zenon DEF MeasureCall
<1>2. CorruptNeverSilences
  BY CorruptStateHeard, Zenon DEF MeasureCall
<1>3. QuantileIsHonest
  BY QuantileHonest, Zenon DEF MeasureCall
<1>4. SampleKeepsBoundsApart
  BY BoundsApart, Zenon DEF MeasureCall
<1>5. WindowsAreCounted
  BY WindowsCounted, Zenon DEF MeasureCall
<1>6. IntakeTakesEachOnce
  BY TakenOnce, Zenon DEF MeasureCall
<1>7. AcknowledgedIsQueued
  BY WebhookQueues, Zenon DEF MeasureCall
<1>8. PipelineReportsWhatItStored
  BY StoredIsReported, Zenon DEF MeasureCall
<1>9. FailuresPromote
  BY WorseStillPromotes, Zenon DEF MeasureCall
<1>10. OverrideIsWhole
  BY OverrideKeptOrNot, Zenon DEF MeasureCall
<1>11. RatesAgree
  BY RatesAreShares, Zenon DEF MeasureCall
<1> QED
  BY <1>1, <1>2, <1>3, <1>4, <1>5, <1>6, <1>7, <1>8, <1>9, <1>10, <1>11 DEF MeasureAnswers

-----------------------------------------------------------------------------
(***************************************************************************)
(* The evidence of correlate: traces against the declared topology.        *)
(***************************************************************************)

\* Traces of any length between any services, some of which were asked for.
TracesOf(c) ==
    /\ c.asked \subseteq Traced
    /\ c.declared \in [Traced -> SUBSET Traced]
    /\ c.answers \in BOOLEAN

\* A call between two services that served requests is known exactly when a span shows it.
LEMMA ObservedIsSeen ==
    ASSUME TracesOf(call), NEW a \in Profiled(call), NEW b \in Profiled(call), a # b
    PROVE  <<a, b>> \in ObservedEdges(call) <=> Seen(call, a, b)
<1>1. Profiled(call) \subseteq call.asked /\ call.asked \subseteq Traced
  BY DEF Profiled, TracesOf
<1>2. <<a, b>> \in KnownCalls(call) <=> Seen(call, a, b)
  BY <1>1 DEF KnownCalls, Seen
<1>3. \A e \in TraceEdges(call) : <<e.from, e.to>> \in KnownCalls(call)
  <2> SUFFICES ASSUME NEW p \in KnownCalls(call)
               PROVE  <<CallEdge(call, p).from, CallEdge(call, p).to>> \in KnownCalls(call)
    BY DEF TraceEdges
  <2>1. p = <<p[1], p[2]>>
    BY DEF KnownCalls
  <2>2. CallEdge(call, p).from = p[1] /\ CallEdge(call, p).to = p[2]
    BY DEF CallEdge
  <2> QED
    BY <2>1, <2>2, Zenon
<1>4. <<a, b>> \in ObservedEdges(call) => <<a, b>> \in KnownCalls(call)
  <2> SUFFICES ASSUME <<a, b>> \in ObservedEdges(call) PROVE <<a, b>> \in KnownCalls(call)
    OBVIOUS
  <2>1. PICK e \in UNION {Callees(call, s) \union Callers(call, s) : s \in Profiled(call)} :
            <<a, b>> = <<e.from, e.to>>
    BY Zenon DEF ObservedEdges
  <2>2. e \in TraceEdges(call)
    BY <2>1 DEF Callees, Callers
  <2> QED
    BY <1>3, <2>1, <2>2, Zenon
<1>5. ASSUME <<a, b>> \in KnownCalls(call) PROVE <<a, b>> \in ObservedEdges(call)
  <2> DEFINE e == CallEdge(call, <<a, b>>)
  <2>1. e \in TraceEdges(call) /\ e.from = a /\ e.to = b
    BY <1>5 DEF TraceEdges, CallEdge
  <2> HIDE DEF e
  <2>2. e \in Callees(call, a)
    BY <2>1 DEF Callees
  <2>3. e \in UNION {Callees(call, s) \union Callers(call, s) : s \in Profiled(call)}
    BY <2>2
  <2> QED
    BY <2>1, <2>3, Zenon DEF ObservedEdges
<1> QED
  BY <1>2, <1>4, <1>5

\* The drift between traces and declared dependencies, for any spans and services.
THEOREM DriftReported ==
    ASSUME call.about = "traces" => TracesOf(call)
    PROVE  DriftIsExact
<1> SUFFICES ASSUME call.about = "traces" PROVE DriftIsExact
  BY DEF DriftIsExact
<1> DEFINE report == TopologyCycle(call)
           d == Divergence(call)
           held == GuaranteeMismatches(call)
<1>1. TracesOf(call)
  OBVIOUS
<1>2. /\ d.unobserved = DeclaredEdges(call) \ ObservedEdges(call)
      /\ d.undeclared = ObservedEdges(call) \ DeclaredEdges(call)
  BY DEF Divergence
<1>3. ASSUME NEW a \in Profiled(call), NEW b \in Profiled(call), a # b
      PROVE  /\ <<a, b>> \in d.undeclared <=> Seen(call, a, b) /\ b \notin call.declared[a]
             /\ <<a, b>> \in d.unobserved <=> ~Seen(call, a, b) /\ b \in call.declared[a]
  <2>1. <<a, b>> \in DeclaredEdges(call) <=> b \in call.declared[a]
    BY DEF DeclaredEdges
  <2>2. <<a, b>> \in ObservedEdges(call) <=> Seen(call, a, b)
    BY <1>1, <1>3, ObservedIsSeen
  <2> HIDE DEF d
  <2> QED
    BY <1>2, <2>1, <2>2
<1>4. d.undeclared \cap d.unobserved = {}
  <2> HIDE DEF d
  <2> QED
    BY <1>2
<1>5. ASSUME NEW m \in held
      PROVE  Seen(call, m.edge[1], m.edge[2]) /\ m.edge[2] \in call.declared[m.edge[1]]
  <2>1. PICK e \in UNION {Callees(call, s) : s \in Profiled(call)} :
            e.to \in call.declared[e.from] /\ m.edge = <<e.from, e.to>>
    BY <1>5 DEF GuaranteeMismatches
  <2>2. e \in TraceEdges(call)
    BY <2>1 DEF Callees
  <2>3. PICK p \in KnownCalls(call) : e = CallEdge(call, p)
    BY <2>2 DEF TraceEdges
  <2>4. e.from = p[1] /\ e.to = p[2]
    BY <2>3 DEF CallEdge
  <2>5. PICK i \in DOMAIN call.spans : <<call.spans[i].from, call.spans[i].to>> = p
    BY <2>3 DEF KnownCalls
  <2>6. call.spans[i].from = p[1] /\ call.spans[i].to = p[2]
    BY <2>5
  <2> QED
    BY <2>1, <2>4, <2>5, <2>6 DEF Seen
<1>6. Profiled(call) = {} => d.undeclared = {} /\ d.unobserved = {} /\ held = {}
  <2> SUFFICES ASSUME Profiled(call) = {} PROVE d.undeclared = {} /\ d.unobserved = {} /\ held = {}
    OBVIOUS
  <2>1. ObservedEdges(call) = {} /\ DeclaredEdges(call) = {}
    BY DEF ObservedEdges, DeclaredEdges
  <2>2. held = {}
    BY DEF GuaranteeMismatches
  <2> HIDE DEF d, held
  <2> QED
    BY <1>2, <2>1, <2>2
<1>7. report = << >> <=> \/ ~call.answers
                         \/ d.undeclared \union d.unobserved = {} /\ held = {}
  <2> DEFINE r == [unobserved |-> d.unobserved, undeclared |-> d.undeclared, mismatches |-> held]
  <2>1. report = IF ~call.answers \/ Profiled(call) = {} THEN << >>
                 ELSE IF \A k \in DOMAIN r : r[k] = {} THEN << >> ELSE <<r>>
    BY Zenon DEF TopologyCycle
  <2>2. (\A k \in DOMAIN r : r[k] = {}) <=> d.undeclared = {} /\ d.unobserved = {} /\ held = {}
    <3> HIDE DEF d, held
    <3> QED
      OBVIOUS
  <2>3. <<r>> # << >>
    <3> HIDE DEF r
    <3> QED
      OBVIOUS
  <2> HIDE DEF r, d, held, report
  <2> QED
    BY <1>6, <2>1, <2>2, <2>3
<1> HIDE DEF report, d, held
<1> QED
  BY <1>3, <1>4, <1>5, <1>7, Zenon DEF DriftIsExact, report, d, held

-----------------------------------------------------------------------------
(***************************************************************************)
(* The model's reading of the groups, and the gathering of events.         *)
(***************************************************************************)

\* A parent is stored after all its children, for any number of groups and puts.
LEMMA ParentsLast ==
    ASSUME call.about = "interpret" =>
               call.groups \in Nat /\ call.children \in Nat /\ call.putsOk \in Nat
    PROVE  ParentAfterChildren
<1> SUFFICES ASSUME call.about = "interpret" PROVE ParentAfterChildren
  BY DEF ParentAfterChildren
<1> DEFINE groups == call.groups
           children == call.children
           n == children + 1
           done == Interpret(groups, children, call.reply, call.putsOk)
           all == [i \in 1..n |-> IF i <= children THEN "child" ELSE "parent"]
           built == IF call.reply = "untagged" /\ children > 0 THEN children ELSE n
           kept == Min({call.putsOk, built})
<1>1. /\ children \in Nat /\ call.putsOk \in Nat /\ n \in Nat /\ children < n
      /\ built \in Nat /\ built <= n
  OBVIOUS
<1>2. kept \in 0..n
  <2> HIDE DEF built
  <2>1. kept = IF call.putsOk <= built THEN call.putsOk ELSE built
    BY <1>1, MinOfTwo
  <2> HIDE DEF kept
  <2> QED
    BY <1>1, <2>1
<1>3. all \in Seq({"child", "parent"}) /\ Len(all) = n /\ \A i \in 1..n : all[i] = "parent" => i = n
  <2> HIDE DEF children
  <2> QED
    BY <1>1
<1>4. CASE groups = 0 \/ call.reply = "fails"
  <2>1. done.stored = << >> /\ ~done.raised
    BY <1>4 DEF Interpret
  <2> HIDE DEF done
  <2>2. ~Contains(done.stored, "parent")
    BY <2>1 DEF Contains
  <2> QED
    BY <2>1, <2>2, Zenon DEF ParentAfterChildren, done, groups, children
<1>5. CASE groups # 0 /\ call.reply # "fails"
  <2>1. done.stored = SubSeq(all, 1, kept) /\ (done.raised => kept < n)
    BY <1>5 DEF Interpret
  <2> HIDE DEF done, all, kept, n
  <2>2. Len(SubSeq(all, 1, kept)) = kept /\ \A i \in 1..kept : SubSeq(all, 1, kept)[i] = all[i]
    BY <1>1, <1>2, <1>3, SubSeqProperties
  <2>3. Contains(done.stored, "parent") => kept = n /\ Len(done.stored) = n
    <3> SUFFICES ASSUME NEW i \in 1..Len(done.stored), done.stored[i] = "parent"
                 PROVE  kept = n /\ Len(done.stored) = n
      BY Zenon DEF Contains
    <3>1. i \in 1..kept /\ all[i] = "parent"
      BY <2>1, <2>2
    <3>2. i \in 1..n /\ i = n
      BY <1>1, <1>2, <1>3, <3>1
    <3> QED
      BY <1>1, <1>2, <2>1, <2>2, <3>1, <3>2
  <2>4. done.raised => kept # n
    BY <1>1, <1>2, <2>1
  <2> QED
    BY <2>3, <2>4, Zenon DEF ParentAfterChildren, done, groups, children, n
<1> QED
  BY <1>4, <1>5

\* f is the function that the blast radius goes through.
Reaching(f, deps, known, s) ==
    f = [n \in 0..Cardinality(Traced) |->
            IF n = 0 THEN {s}
            ELSE f[n - 1] \union (Dependents(deps, f[n - 1] \cap known) \cap known)]

LEMMA ReachingExists ==
    ASSUME IsFiniteSet(Traced), NEW deps, NEW known, NEW s
    PROVE  \E g : Reaching(g, deps, known, s)
<1> DEFINE n == Cardinality(Traced)
           X == SUBSET (Traced \union {s})
           next(x) == x \union (Dependents(deps, x \cap known) \cap known)
           step == [p \in X \X {s} |-> next(p[1])]
           w == [i \in 1..n |-> s]
<1>1. n \in Nat
  BY FS_CardinalityType
<1>2. {s} \in X /\ \A x \in X : next(x) \in X
  BY DEF Dependents
<1> HIDE DEF next, n, X
<1>3. step \in [X \X {s} -> X] /\ (\A x \in X : step[x, s] = next(x)) /\ w \in [1..n -> {s}]
  BY <1>2
<1>4. \A i \in 1..n : w[i] = s
  OBVIOUS
<1> HIDE DEF step, w
<1>5. PICK g \in [0..n -> X] : g[0] = {s} /\ \A i \in 1..n : g[i] = step[g[i - 1], w[i]]
  <2>1. \E g \in [0..n -> X] : Iterates(g, {s}, step, n, w)
    BY <1>1, <1>2, <1>3, IterationExists
  <2> QED
    BY <2>1, Zenon DEF Iterates
<1>6. ASSUME NEW i \in 0..n
      PROVE  g[i] = IF i = 0 THEN {s} ELSE next(g[i - 1])
  <2>1. i # 0 => i \in 1..n /\ i - 1 \in 0..n
    BY <1>1
  <2>2. i # 0 => g[i - 1] \in X
    BY <2>1
  <2> QED
    BY <1>3, <1>4, <1>5, <2>1, <2>2
<1>7. g = [i \in 0..n |-> IF i = 0 THEN {s} ELSE next(g[i - 1])]
  BY <1>6
<1> QED
  BY <1>7 DEF Reaching, n, next

\* What is gathered is about services that reach the trigger or that it calls, and no
\* source that answers is hidden by one that fails, however many services there are.
THEOREM GatheredLocally ==
    ASSUME call.about = "gather" => /\ IsFiniteSet(Traced) /\ call.trigger \in Traced
                                    /\ call.deps \in [Traced -> SUBSET Traced]
    PROVE  GatherIsLocal
<1> SUFFICES ASSUME call.about = "gather" PROVE GatherIsLocal
  BY DEF GatherIsLocal
<1> DEFINE deps == call.deps
           known == call.known
           s == call.trigger
           n == Cardinality(Traced)
           f == CHOOSE g : Reaching(g, deps, known, s)
           radius == f[n] \union (IF s \in known THEN deps[s] ELSE {})
           N == {k \in 0..n : s \in f[k] /\ f[k] \subseteq Traced
                              /\ \A a \in f[k] : Reaches(deps, a, s)}
<1>1. n \in Nat /\ s \in Traced /\ deps \in [Traced -> SUBSET Traced]
  BY FS_CardinalityType
<1>2. BlastRadius(deps, known, s) = radius
  BY Zenon DEF BlastRadius, Reaching
<1>3. Reaching(f, deps, known, s)
  BY ReachingExists, Zenon
<1> HIDE DEF f, n, deps, known, s
<1>4. f[0] = {s} /\ \A k \in 1..n : f[k] = f[k - 1] \union (Dependents(deps, f[k - 1] \cap known) \cap known)
  <2>1. 0 \in 0..n /\ \A k \in 1..n : k \in 0..n /\ k # 0
    BY <1>1
  <2> QED
    BY <1>3, <2>1 DEF Reaching, n
<1>5. 0 \in N
  BY <1>1, <1>4 DEF Reaches
<1>6. ASSUME NEW k \in 0..n, k \in N, k # n PROVE k + 1 \in N
  <2>1. k + 1 \in 1..n /\ k + 1 \in 0..n /\ (k + 1) - 1 = k
    <3> HIDE DEF N
    <3> QED
      BY <1>1, <1>6
  <2> DEFINE more == Dependents(deps, f[k] \cap known) \cap known
  <2>2. f[k + 1] = f[k] \union more
    BY <1>4, <2>1
  <2>3. ASSUME NEW a \in more PROVE Reaches(deps, a, s) /\ a \in Traced
    <3>1. PICK b \in f[k] : a \in Traced /\ b \in deps[a]
      BY <2>3 DEF Dependents
    <3>2. Reaches(deps, b, s)
      BY <1>6, <3>1
    <3>3. ASSUME NEW S \in SUBSET Traced, a \in S, \A m \in S : deps[m] \subseteq S PROVE s \in S
      <4>1. b \in S
        BY <3>1, <3>3
      <4> QED
        BY <3>2, <3>3, <4>1 DEF Reaches
    <3> QED
      BY <3>1, <3>3 DEF Reaches
  <2> HIDE DEF more
  <2> QED
    BY <1>6, <2>1, <2>2, <2>3
<1> HIDE DEF N
<1>7. n \in N
  <2>1. \A k \in 0..n : k \in N
    BY <1>1, <1>5, <1>6, IntervalInduction
  <2> QED
    BY <1>1, <2>1
<1>8. s \in f[n] /\ \A a \in f[n] : Reaches(deps, a, s)
  BY <1>7 DEF N
<1> DEFINE got == GatheredEvents(call)
<1>9. got = {e \in call.events :
                 ~call.raises /\ e.service \in radius /\ ~(e.source \in call.failing)}
  BY <1>2, Zenon DEF GatheredEvents, deps, known, s
<1> HIDE DEF got
<1>10. /\ \A e \in got : Reaches(deps, e.service, s) \/ e.service \in deps[s]
       /\ ~call.raises => \A e \in call.events :
              (e.service = s /\ e.source \notin call.failing) => e \in got
  BY <1>8, <1>9
<1> QED
  BY <1>10, Zenon DEF GatherIsLocal, got, deps, s

-----------------------------------------------------------------------------
(***************************************************************************)
(* The contracts, for any number of services and contracts of each.        *)
(***************************************************************************)

Contracted == [avail : Int, latency : Int, raisesAt : Nat,
               contracts : Seq([avail : Int, latency : Int])]
Reportable(service, contract) == ~NotARatio(contract) /\ Broken(service, contract) # {}
ReportOf(service, i) == [contract |-> i, metrics |-> Broken(service, service.contracts[i])]
\* f is the function that a service's contracts are checked with.
Reporting(f, service) ==
    f = [i \in 0..Len(service.contracts) |->
            IF i = 0 THEN << >>
            ELSE IF NotARatio(service.contracts[i]) \/ Broken(service, service.contracts[i]) = {}
                 THEN f[i - 1]
            ELSE Append(f[i - 1], [contract |-> i, metrics |-> Broken(service, service.contracts[i])])]
Reports(service) ==
    [contract : 1..Len(service.contracts), metrics : SUBSET {"availability", "latency"}]

LEMMA ReportingExists ==
    ASSUME NEW service \in Contracted
    PROVE  \E g : Reporting(g, service)
<1> DEFINE n == Len(service.contracts)
           O == Seq(Reports(service))
           take(out, i) == IF NotARatio(service.contracts[i]) \/ Broken(service, service.contracts[i]) = {}
                           THEN out ELSE Append(out, [contract |-> i, metrics |-> Broken(service, service.contracts[i])])
           step == [p \in O \X (1..n) |-> take(p[1], p[2])]
           w == [i \in 1..n |-> i]
<1>1. n \in Nat /\ << >> \in O
  BY DEF Contracted
<1>2. \A out \in O, i \in 1..n : take(out, i) \in O
  <2> SUFFICES ASSUME NEW out \in O, NEW i \in 1..n PROVE take(out, i) \in O
    OBVIOUS
  <2>1. [contract |-> i, metrics |-> Broken(service, service.contracts[i])] \in Reports(service)
    BY <1>1 DEF Reports, Broken
  <2> QED
    BY <2>1, AppendProperties
<1> HIDE DEF take, n, O
<1>3. step \in [O \X (1..n) -> O] /\ (\A out \in O, i \in 1..n : step[out, i] = take(out, i))
      /\ w \in [1..n -> 1..n]
  BY <1>2
<1>4. \A i \in 1..n : w[i] = i
  OBVIOUS
<1> HIDE DEF step, w
<1>5. PICK g \in [0..n -> O] : g[0] = << >> /\ \A i \in 1..n : g[i] = step[g[i - 1], w[i]]
  <2>1. \E g \in [0..n -> O] : Iterates(g, << >>, step, n, w)
    BY <1>1, <1>3, IterationExists
  <2> QED
    BY <2>1, Zenon DEF Iterates
<1>6. ASSUME NEW i \in 0..n
      PROVE  g[i] = IF i = 0 THEN << >> ELSE take(g[i - 1], i)
  <2>1. i # 0 => i \in 1..n /\ i - 1 \in 0..n
    BY <1>1
  <2>2. i # 0 => g[i - 1] \in O
    BY <2>1
  <2> QED
    BY <1>3, <1>4, <1>5, <2>1, <2>2
<1>7. g = [i \in 0..n |-> IF i = 0 THEN << >> ELSE take(g[i - 1], i)]
  BY <1>6
<1> QED
  BY <1>7 DEF Reporting, n, take

\* The contracts reported are those that are broken and can be checked.
ReportsUpTo(service, reports, m) ==
    /\ reports \in Seq(Reports(service))
    /\ \A i \in 1..Len(service.contracts) :
           (\E k \in 1..Len(reports) : reports[k].contract = i)
               <=> (i <= m /\ Reportable(service, service.contracts[i]))

LEMMA ReportsStep ==
    ASSUME NEW service \in Contracted, NEW m \in 0..Len(service.contracts), m # Len(service.contracts),
           NEW t, t = m + 1, NEW out, ReportsUpTo(service, out, m), NEW next,
           next = IF NotARatio(service.contracts[t]) \/ Broken(service, service.contracts[t]) = {}
                  THEN out
                  ELSE Append(out, [contract |-> t, metrics |-> Broken(service, service.contracts[t])])
    PROVE  ReportsUpTo(service, next, t)
<1> DEFINE n == Len(service.contracts)
           c == service.contracts[t]
           r == [contract |-> t, metrics |-> Broken(service, c)]
<1>1. n \in Nat /\ t \in 1..n /\ \A i \in 1..n : i <= t <=> i <= m \/ i = t
  BY DEF Contracted
<1>2. t # m /\ ~(t <= m)
  BY <1>1
<1>3. /\ out \in Seq(Reports(service))
      /\ \A i \in 1..n : (\E k \in 1..Len(out) : out[k].contract = i)
                            <=> (i <= m /\ Reportable(service, service.contracts[i]))
  BY DEF ReportsUpTo
<1>4. r \in Reports(service) /\ r.contract = t
  BY <1>1 DEF Reports, Broken
<1>5. CASE ~Reportable(service, c)
  <2>1. next = out
    BY <1>5 DEF Reportable
  <2> HIDE DEF n, r
  <2>2. \A i \in 1..n : i = t => ~Reportable(service, service.contracts[i])
    BY <1>5
  <2> HIDE DEF c
  <2> QED
    BY <1>1, <1>3, <2>1, <2>2 DEF ReportsUpTo, n
<1>6. CASE Reportable(service, c)
  <2>1. next = Append(out, r)
    BY <1>6 DEF Reportable
  <2> HIDE DEF r
  <2>2. /\ next \in Seq(Reports(service)) /\ Len(next) = Len(out) + 1 /\ next[Len(out) + 1] = r
        /\ \A k \in 1..Len(out) : next[k] = out[k]
    BY <1>3, <1>4, <2>1, AppendProperties
  <2> DEFINE l == Len(out)
  <2>3. l \in Nat /\ l + 1 \in 1..(l + 1) /\ (\A k \in 1..(l + 1) : k \in 1..l \/ k = l + 1)
        /\ \A k \in 1..l : k \in 1..(l + 1)
    BY <1>3
  <2> HIDE DEF n, l
  <2>4. ASSUME NEW i \in 1..n
        PROVE  (\E k \in 1..(l + 1) : next[k].contract = i) <=> (\E k \in 1..l : out[k].contract = i) \/ i = t
    <3>1. next[l + 1].contract = t /\ \A k \in 1..l : next[k] = out[k]
      BY <1>4, <2>2 DEF l
    <3> QED
      BY <2>3, <3>1
  <2>5. \A i \in 1..n : i = t => Reportable(service, service.contracts[i])
    BY <1>6
  <2> HIDE DEF c
  <2>6. ASSUME NEW i \in 1..n
        PROVE  (\E k \in 1..(l + 1) : next[k].contract = i)
                   <=> (i <= t /\ Reportable(service, service.contracts[i]))
    BY <1>1, <1>3, <2>4, <2>5 DEF l
  <2> QED
    BY <2>2, <2>6 DEF ReportsUpTo, n, l
<1> QED
  BY <1>5, <1>6

LEMMA ContractsReported ==
    ASSUME NEW service \in Contracted
    PROVE  ReportsUpTo(service, ContractReports(service), Len(service.contracts))
<1> DEFINE n == Len(service.contracts)
           f == CHOOSE g : Reporting(g, service)
           S == {m \in 0..n : ReportsUpTo(service, f[m], m)}
<1>1. n \in Nat /\ ContractReports(service) = f[n]
  <2>1. ContractReports(service) = f[n]
    BY Zenon DEF ContractReports, Reported, Reporting
  <2> HIDE DEF f
  <2> QED
    BY <2>1 DEF Contracted
<1>2. Reporting(f, service)
  BY ReportingExists, Zenon
<1> HIDE DEF f
<1>3. /\ f[0] = << >>
      /\ \A m \in 1..n : f[m] = IF NotARatio(service.contracts[m]) \/ Broken(service, service.contracts[m]) = {}
                                THEN f[m - 1]
                                ELSE Append(f[m - 1], [contract |-> m, metrics |-> Broken(service, service.contracts[m])])
  <2>1. 0 \in 0..n /\ \A k \in 1..n : k \in 0..n /\ k # 0
    BY <1>1
  <2> QED
    BY <1>2, <2>1 DEF Reporting
<1>4. 0 \in S
  <2>1. << >> \in Seq(Reports(service)) /\ 0 \in 0..n /\ \A i \in 1..n : ~(i <= 0)
    BY <1>1
  <2>2. \A k \in 1..Len(<< >>) : FALSE
    OBVIOUS
  <2>3. ReportsUpTo(service, << >>, 0)
    BY <2>1, <2>2, Zenon DEF ReportsUpTo, n
  <2> QED
    BY <1>3, <2>1, <2>3
<1>5. ASSUME NEW m \in 0..n, m \in S, m # n PROVE m + 1 \in S
  <2>1. m + 1 \in 1..n /\ m + 1 \in 0..n /\ (m + 1) - 1 = m
    <3> HIDE DEF S
    <3> QED
      BY <1>1, <1>5
  <2>2. PICK t : t = m + 1
    OBVIOUS
  <2>3. ReportsUpTo(service, f[m], m)
    BY <1>5
  <2>4. f[t] = IF NotARatio(service.contracts[t]) \/ Broken(service, service.contracts[t]) = {}
               THEN f[m]
               ELSE Append(f[m], [contract |-> t, metrics |-> Broken(service, service.contracts[t])])
    <3>1. t \in 1..n /\ t - 1 = m
      BY <2>1, <2>2
    <3> QED
      BY <1>3, <3>1, Zenon
  <2> HIDE DEF S
  <2>5. ReportsUpTo(service, f[t], t)
    BY <1>5, <2>2, <2>3, <2>4, ReportsStep
  <2> QED
    BY <2>1, <2>2, <2>5 DEF S
<1> HIDE DEF S
<1>6. \A m \in 0..n : m \in S
  BY <1>1, <1>4, <1>5, IntervalInduction
<1>7. n \in S
  BY <1>1, <1>6
<1> QED
  BY <1>1, <1>7 DEF S, n

\* A contract's report depends on that contract alone and a service's on the service
\* alone, for any number of either.
THEOREM ContractsApart ==
    ASSUME call.about = "contracts" => call.services \in Seq(Contracted)
    PROVE  ContractsStandAlone
<1> SUFFICES ASSUME call.about = "contracts" PROVE ContractsStandAlone
  BY DEF ContractsStandAlone
<1> DEFINE answers == ContractCycle(call.services)
           Checked(x) == IF x.raisesAt \in DOMAIN ContractReports(x)
                         THEN SubSeq(ContractReports(x), 1, x.raisesAt - 1) ELSE ContractReports(x)
           alone(service, i) == ContractReports([service EXCEPT !.contracts = <<service.contracts[i]>>])
<1> SUFFICES ASSUME NEW s \in DOMAIN call.services
             PROVE  LET service == call.services[s]
                    IN  /\ answers[s] = ContractCycle(<<service>>)[1]
                        /\ service.raisesAt = 0 => \A i \in DOMAIN service.contracts :
                               (\E k \in DOMAIN answers[s] : answers[s][k].contract = i)
                                   <=> alone(service, i) # << >>
  BY Zenon DEF ContractsStandAlone
<1> DEFINE service == call.services[s]
<1>1. service \in Contracted
  <2>1. s \in 1..Len(call.services)
    BY SequenceDomain, Zenon
  <2> QED
    BY <2>1, ElementOfSeq, Zenon
<1>2. answers[s] = Checked(service)
  <2>1. answers = [r \in DOMAIN call.services |-> Checked(call.services[r])]
    BY Zenon DEF ContractCycle
  <2> HIDE DEF answers, Checked
  <2> QED
    BY <2>1, Zenon
<1>3. ContractCycle(<<service>>)[1] = Checked(service)
  <2>1. ContractCycle(<<service>>) = [r \in DOMAIN <<service>> |-> Checked(<<service>>[r])]
    BY Zenon DEF ContractCycle
  <2> HIDE DEF service, Checked
  <2>2. 1 \in DOMAIN <<service>> /\ <<service>>[1] = service
    OBVIOUS
  <2> QED
    BY <2>1, <2>2, Zenon
<1> HIDE DEF service, answers
<1>4. ASSUME service.raisesAt = 0, NEW i \in DOMAIN service.contracts
      PROVE  (\E k \in DOMAIN answers[s] : answers[s][k].contract = i) <=> alone(service, i) # << >>
  <2> DEFINE reports == ContractReports(service)
             one == [service EXCEPT !.contracts = <<service.contracts[i]>>]
             own == ContractReports(one)
           only == <<service.contracts[i]>>
  <2>1. ReportsUpTo(service, reports, Len(service.contracts))
    BY <1>1, ContractsReported
  <2>2. service.contracts \in Seq([avail : Int, latency : Int])
    BY <1>1 DEF Contracted
  <2>3. DOMAIN service.contracts = 1..Len(service.contracts) /\ Len(service.contracts) \in Nat
    BY <2>2
  <2>4. service.contracts[i] \in [avail : Int, latency : Int]
    BY <2>2, <2>3, ElementOfSeq
  <2>13. only \in Seq([avail : Int, latency : Int])
    BY <2>4
  <2>14. one = [service EXCEPT !.contracts = only]
    OBVIOUS
  <2> HIDE DEF only, one
  <2>5. /\ one \in Contracted /\ one.contracts = only
        /\ one.avail = service.avail /\ one.latency = service.latency
    BY <1>1, <2>13, <2>14 DEF Contracted
  <2> HIDE DEF reports
  <2>6. Len(one.contracts) = 1 /\ one.contracts[1] = service.contracts[i]
    BY <2>5 DEF only
  <2>7. Reportable(one, one.contracts[1]) <=> Reportable(service, service.contracts[i])
    <3>1. Broken(one, service.contracts[i]) = Broken(service, service.contracts[i])
      BY <2>5 DEF Broken
    <3> QED
      BY <2>6, <3>1, Zenon DEF Reportable
  <2>8. ReportsUpTo(one, own, 1)
    BY <2>5, <2>6, ContractsReported
  <2> HIDE DEF own
  <2>9. own # << >> <=> Reportable(one, one.contracts[1])
    <3>1. own \in Seq(Reports(one)) /\ ((\E k \in 1..Len(own) : own[k].contract = 1) <=> Reportable(one, one.contracts[1]))
      <4>1. 1 \in 1..1 /\ 1 <= 1
        OBVIOUS
      <4> QED
        BY <2>6, <2>8, <4>1 DEF ReportsUpTo
    <3>2. own # << >> => \E k \in 1..Len(own) : own[k].contract = 1
      <4> SUFFICES ASSUME own # << >> PROVE \E k \in 1..Len(own) : own[k].contract = 1
        OBVIOUS
      <4>1. 1 \in 1..Len(own) /\ own[1] \in Reports(one)
        BY <3>1, ElementOfSeq
      <4>2. own[1].contract = 1
        BY <2>6, <4>1 DEF Reports
      <4> QED
        BY <4>1, <4>2
    <3>3. (\E k \in 1..Len(own) : own[k].contract = 1) => own # << >>
      BY <3>1
    <3> QED
      BY <3>1, <3>2, <3>3
  <2>10. answers[s] = reports
    <3>1. reports \in Seq(Reports(service))
      BY <2>1, Zenon DEF ReportsUpTo
    <3>2. DOMAIN reports = 1..Len(reports) /\ ~(0 \in 1..Len(reports))
      BY <3>1
    <3>3. ~(service.raisesAt \in DOMAIN reports)
      BY <1>4, <3>2
    <3> QED
      BY <1>2, <3>3 DEF reports
  <2>11. DOMAIN reports = 1..Len(reports)
    <3>1. reports \in Seq(Reports(service))
      BY <2>1, Zenon DEF ReportsUpTo
    <3> QED
      BY <3>1
  <2>12. (\E k \in 1..Len(reports) : reports[k].contract = i) <=> Reportable(service, service.contracts[i])
    <3>1. i \in 1..Len(service.contracts) /\ i <= Len(service.contracts)
      BY <2>3
    <3> QED
      BY <2>1, <3>1 DEF ReportsUpTo
  <2> QED
    BY <2>7, <2>9, <2>10, <2>11, <2>12 DEF own, one
<1> QED
  BY <1>2, <1>3, <1>4 DEF service

-----------------------------------------------------------------------------
(***************************************************************************)
(* The causes of the groups, for any number of groups and answers.         *)
(***************************************************************************)

Causes(c) == [group : 1..Len(c.groups), from : {"model", "change"}]
Blamed(c, g) == \E i \in LastAbout(c, g) : c.answers[i].cause
CauseFrom(c, g) == IF Blamed(c, g) THEN "model" ELSE "change"
\* f is the function that the groups' causes are put one after the other with.
Causing(f, c) ==
    f = [g \in 0..Len(c.groups) |-> IF g = 0 THEN << >> ELSE f[g - 1] \o CausesOf(c, g)]

LEMMA CausesType ==
    ASSUME NEW c, c.groups \in Seq(Nat), NEW g \in 1..Len(c.groups)
    PROVE  LET add == CausesOf(c, g)
           IN  /\ add \in Seq(Causes(c))
               /\ \A k \in 1..Len(add) : add[k].group = g /\ add[k].from = CauseFrom(c, g)
               /\ ~Blamed(c, g) => Len(add) = c.groups[g]
<1> DEFINE add == CausesOf(c, g)
<1>1. c.groups[g] \in Nat
  BY ElementOfSeq
<1>2. CASE Blamed(c, g)
  <2>1. add = <<[group |-> g, from |-> "model"]>>
    BY <1>2, Zenon DEF CausesOf, FromModel, Blamed
  <2>2. CauseFrom(c, g) = "model" /\ [group |-> g, from |-> "model"] \in Causes(c)
    BY <1>2 DEF CauseFrom, Causes
  <2> HIDE DEF add
  <2>3. Len(add) = 1 /\ add[1] = [group |-> g, from |-> "model"] /\ add \in Seq(Causes(c))
    BY <2>1, <2>2
  <2>4. \A k \in 1..Len(add) : k = 1
    BY <2>3
  <2> QED
    BY <1>2, <2>2, <2>3, <2>4 DEF add
<1>3. CASE ~Blamed(c, g)
  <2> DEFINE m == c.groups[g]
             x == [group |-> g, from |-> "change"]
  <2>1. add = [k \in 1..m |-> x]
    BY <1>3, Zenon DEF CausesOf, FromChanges, Blamed
  <2>2. CauseFrom(c, g) = "change" /\ x \in Causes(c) /\ x.group = g /\ x.from = "change"
    BY <1>3 DEF CauseFrom, Causes
  <2> HIDE DEF add, m, x
  <2>3. m \in Nat
    BY <1>1 DEF m
  <2>4. Len(add) = m /\ add \in Seq(Causes(c)) /\ \A k \in 1..m : add[k] = x
    BY <2>1, <2>2, <2>3
  <2> QED
    BY <2>2, <2>4 DEF add, m
<1> QED
  BY <1>2, <1>3

LEMMA CausingExists ==
    ASSUME NEW c, c.groups \in Seq(Nat)
    PROVE  \E g : Causing(g, c)
<1> DEFINE n == Len(c.groups)
           O == Seq(Causes(c))
           take(out, i) == out \o CausesOf(c, i)
           step == [p \in O \X (1..n) |-> take(p[1], p[2])]
           w == [i \in 1..n |-> i]
<1>1. n \in Nat /\ << >> \in O
  OBVIOUS
<1>2. \A out \in O, i \in 1..n : take(out, i) \in O
  BY CausesType, ConcatProperties
<1> HIDE DEF take, n, O
<1>3. step \in [O \X (1..n) -> O] /\ (\A out \in O, i \in 1..n : step[out, i] = take(out, i))
      /\ w \in [1..n -> 1..n]
  BY <1>2
<1>4. \A i \in 1..n : w[i] = i
  OBVIOUS
<1> HIDE DEF step, w
<1>5. PICK g \in [0..n -> O] : g[0] = << >> /\ \A i \in 1..n : g[i] = step[g[i - 1], w[i]]
  <2>1. \E g \in [0..n -> O] : Iterates(g, << >>, step, n, w)
    BY <1>1, <1>3, IterationExists
  <2> QED
    BY <2>1, Zenon DEF Iterates
<1>6. ASSUME NEW i \in 0..n
      PROVE  g[i] = IF i = 0 THEN << >> ELSE take(g[i - 1], i)
  <2>1. i # 0 => i \in 1..n /\ i - 1 \in 0..n
    BY <1>1
  <2>2. i # 0 => g[i - 1] \in O
    BY <2>1
  <2> QED
    BY <1>3, <1>4, <1>5, <2>1, <2>2
<1>7. g = [i \in 0..n |-> IF i = 0 THEN << >> ELSE take(g[i - 1], i)]
  BY <1>6
<1> QED
  BY <1>7 DEF Causing, n, take

\* What the first m groups are explained with: each by one kind of cause, and a group that
\* the model does not blame by as many changes as it has.
About(out, g) == {i \in 1..Len(out) : out[i].group = g}
Explained(c, out, m) ==
    /\ out \in Seq(Causes(c))
    /\ \A i \in 1..Len(out) : out[i].group <= m /\ out[i].from = CauseFrom(c, out[i].group)
    /\ \A g \in 1..m : ~Blamed(c, g) => Cardinality(About(out, g)) = c.groups[g]

LEMMA ExplainedStep ==
    ASSUME NEW c, c.groups \in Seq(Nat), NEW m \in 0..Len(c.groups), m # Len(c.groups),
           NEW t, t = m + 1, NEW out, Explained(c, out, m), NEW next, next = out \o CausesOf(c, t)
    PROVE  Explained(c, next, t)
<1> DEFINE n == Len(c.groups)
           add == CausesOf(c, t)
           l == Len(out)
           a == Len(add)
<1>1. n \in Nat /\ t \in 1..n /\ t \in Nat /\ ~(t <= m) /\ (\A g \in 1..t : g \in 1..m \/ g = t)
      /\ \A g \in Int : g <= m => g <= t /\ g # t
  OBVIOUS
<1>2. /\ add \in Seq(Causes(c))
      /\ \A k \in 1..a : add[k].group = t /\ add[k].from = CauseFrom(c, t)
      /\ ~Blamed(c, t) => a = c.groups[t]
  BY <1>1, CausesType
<1>3. /\ out \in Seq(Causes(c)) /\ l \in Nat
      /\ \A i \in 1..l : out[i].group <= m /\ out[i].from = CauseFrom(c, out[i].group)
      /\ \A g \in 1..m : ~Blamed(c, g) => Cardinality(About(out, g)) = c.groups[g]
  BY DEF Explained
<1>4. a \in Nat
  BY <1>2
<1> HIDE DEF add
<1>5. /\ next \in Seq(Causes(c)) /\ Len(next) = l + a
      /\ \A i \in 1..(l + a) : next[i] = IF i <= l THEN out[i] ELSE add[i - l]
  BY <1>2, <1>3, ConcatProperties DEF add
<1>6. \A i \in 1..l : out[i].group \in Int
  <2> SUFFICES ASSUME NEW i \in 1..l PROVE out[i].group \in Int
    OBVIOUS
  <2>1. out[i] \in Causes(c)
    BY <1>3, ElementOfSeq
  <2> QED
    BY <2>1 DEF Causes
<1> HIDE DEF l, a, n
<1>7. \A i \in 1..(l + a) : \/ i \in 1..l /\ next[i] = out[i]
                            \/ i \in (l + 1)..(l + a) /\ i - l \in 1..a /\ next[i] = add[i - l]
  BY <1>3, <1>4, <1>5
<1>8. /\ \A i \in 1..l : i \in 1..(l + a) /\ next[i] = out[i]
      /\ \A i \in (l + 1)..(l + a) : i \in 1..(l + a) /\ i - l \in 1..a /\ next[i] = add[i - l] /\ i \notin 1..l
  BY <1>3, <1>4, <1>5
<1>9. \A i \in 1..(l + a) : next[i].group <= t /\ next[i].from = CauseFrom(c, next[i].group)
  <2> SUFFICES ASSUME NEW i \in 1..(l + a)
               PROVE  next[i].group <= t /\ next[i].from = CauseFrom(c, next[i].group)
    OBVIOUS
  <2>1. CASE i \in 1..l /\ next[i] = out[i]
    BY <1>1, <1>3, <1>6, <2>1
  <2>2. CASE i - l \in 1..a /\ next[i] = add[i - l]
    <3>1. next[i].group = t /\ next[i].from = CauseFrom(c, t)
      BY <1>2, <2>2
    <3>2. t <= t
      BY <1>1
    <3> QED
      BY <3>1, <3>2, Zenon
  <2> QED
    BY <1>7, <2>1, <2>2
<1>10. ASSUME NEW g \in 1..t, ~Blamed(c, g)
       PROVE  Cardinality(About(next, g)) = c.groups[g]
  <2>1. CASE g \in 1..m
    <3>1. g # t
      BY <1>1, <2>1
    <3>2. \A i \in (l + 1)..(l + a) : next[i].group # g
      BY <1>2, <1>8, <3>1
    <3>3. About(next, g) = {i \in 1..(l + a) : next[i].group = g}
      BY <1>5, Zenon DEF About
    <3>4. About(out, g) = {i \in 1..l : out[i].group = g}
      BY Zenon DEF About, l
    <3>5. About(next, g) = About(out, g)
      BY <1>7, <1>8, <3>2, <3>3, <3>4
    <3> QED
      BY <1>3, <1>10, <2>1, <3>5
  <2>2. CASE g = t
    <3>1. About(next, g) = {i \in 1..(l + a) : next[i].group = t}
      BY <1>5, <2>2, Zenon DEF About
    <3>2. \A i \in 1..l : next[i].group # t
      BY <1>1, <1>3, <1>6, <1>8
    <3>3. \A i \in (l + 1)..(l + a) : next[i].group = t
      BY <1>2, <1>8
    <3>4. About(next, g) = (l + 1)..(l + a)
      BY <1>7, <1>8, <3>1, <3>2, <3>3
    <3>5. Cardinality((l + 1)..(l + a)) = IF l + 1 > l + a THEN 0 ELSE (l + a) - (l + 1) + 1
      BY <1>3, <1>4, FS_Interval
    <3>6. Cardinality(About(next, g)) = a
      BY <1>3, <1>4, <3>4, <3>5
    <3> QED
      BY <1>2, <1>10, <2>2, <3>6
  <2> QED
    BY <1>1, <2>1, <2>2
<1> QED
  BY <1>5, <1>9, <1>10 DEF Explained

LEMMA CausesExplain ==
    ASSUME NEW c, c.groups \in Seq(Nat)
    PROVE  Explained(c, RootCauses(c)[Len(c.groups)], Len(c.groups))
<1> DEFINE n == Len(c.groups)
           f == CHOOSE g : Causing(g, c)
           S == {m \in 0..n : Explained(c, f[m], m)}
<1>1. n \in Nat /\ RootCauses(c)[Len(c.groups)] = f[n]
  <2>1. RootCauses(c)[Len(c.groups)] = f[n]
    BY Zenon DEF RootCauses, Causing
  <2> HIDE DEF f
  <2> QED
    BY <2>1
<1>2. Causing(f, c)
  BY CausingExists, Zenon
<1> HIDE DEF f
<1>3. f[0] = << >> /\ \A m \in 1..n : f[m] = f[m - 1] \o CausesOf(c, m)
  <2>1. 0 \in 0..n /\ \A k \in 1..n : k \in 0..n /\ k # 0
    BY <1>1
  <2> QED
    BY <1>2, <2>1 DEF Causing
<1>4. 0 \in S
  <2>1. << >> \in Seq(Causes(c)) /\ 0 \in 0..n /\ \A i \in 1..0 : FALSE
    BY <1>1
  <2>2. \A k \in 1..Len(<< >>) : FALSE
    OBVIOUS
  <2>3. Explained(c, << >>, 0)
    BY <2>1, <2>2, Zenon DEF Explained
  <2> QED
    BY <1>3, <2>1, <2>3
<1>5. ASSUME NEW m \in 0..n, m \in S, m # n PROVE m + 1 \in S
  <2>1. m + 1 \in 1..n /\ m + 1 \in 0..n /\ (m + 1) - 1 = m
    <3> HIDE DEF S
    <3> QED
      BY <1>1, <1>5
  <2>2. PICK t : t = m + 1
    OBVIOUS
  <2>3. Explained(c, f[m], m)
    BY <1>5
  <2>4. f[t] = f[m] \o CausesOf(c, t)
    <3>1. t \in 1..n /\ t - 1 = m
      BY <2>1, <2>2
    <3> QED
      BY <1>3, <3>1, Zenon
  <2> HIDE DEF S
  <2>5. Explained(c, f[t], t)
    BY <1>5, <2>2, <2>3, <2>4, ExplainedStep
  <2> QED
    BY <2>1, <2>2, <2>5 DEF S
<1> HIDE DEF S
<1>6. \A m \in 0..n : m \in S
  BY <1>1, <1>4, <1>5, IntervalInduction
<1>7. n \in S
  BY <1>1, <1>6
<1> QED
  BY <1>1, <1>7 DEF S, n

\* What `correlate` concludes, for any number of groups, changes and answers of the model:
\* each group is explained by the model or by its changes, and only what is stored is
\* handed to a responder.
THEOREM GroupsExplained ==
    ASSUME call.about = "correlate" => call.groups \in Seq(Nat)
    PROVE  GroupsAreExplained
<1> SUFFICES ASSUME call.about = "correlate" PROVE GroupsAreExplained
  BY DEF GroupsAreExplained
<1> DEFINE n == Len(call.groups)
           done == CorrelateCommand(call)
           causes == RootCauses(call)[n]
           told(g) == \E i \in DOMAIN call.answers : call.answers[i].group = g /\ call.answers[i].cause
           one(out, g) ==
               LET own == {i \in DOMAIN out : out[i].group = g}
               IN  /\ \A i, j \in own : out[i].from = out[j].from
                   /\ ~(call.reasoning = "answers" /\ told(g)) => Cardinality(own) = call.groups[g]
<1>1. n \in Nat /\ call.groups \in Seq(Nat) /\ DOMAIN call.groups = 1..n
  OBVIOUS
<1>2. /\ done.stored => done.causes = causes
      /\ ~done.stored => done.causes = << >> /\ ~done.forwarded
  BY DEF CorrelateCommand, NoCorrelation
<1>3. Explained(call, causes, n)
  BY <1>1, CausesExplain
<1> HIDE DEF causes, done, n
<1>4. \A g : Blamed(call, g) => call.reasoning = "answers" /\ told(g)
  <2> SUFFICES ASSUME NEW g, NEW i \in LastAbout(call, g), call.answers[i].cause
               PROVE  call.reasoning = "answers" /\ told(g)
    BY DEF Blamed
  <2>1. i \in Reason(call).by /\ call.answers[i].group = g
    BY DEF LastAbout
  <2>2. call.reasoning = "answers"
    BY <2>1 DEF Reason
  <2>3. i \in DOMAIN call.answers
    BY <2>1, <2>2 DEF Reason
  <2> QED
    BY <2>1, <2>2, <2>3
<1> HIDE DEF told
<1>5. causes \in Seq(Causes(call)) /\ DOMAIN causes = 1..Len(causes)
  <2>1. causes \in Seq(Causes(call))
    BY <1>3, Zenon DEF Explained
  <2> QED
    BY <2>1
<1>6. \A i \in DOMAIN causes : causes[i].from = CauseFrom(call, causes[i].group)
  BY <1>3, <1>5, Zenon DEF Explained
<1>7. ASSUME NEW g \in 1..n
      PROVE  one(causes, g)
  <2> DEFINE own == {i \in DOMAIN causes : causes[i].group = g}
  <2>1. own = About(causes, g)
    BY <1>5, Zenon DEF About
  <2>2. \A i, j \in own : causes[i].from = causes[j].from
    BY <1>6
  <2>3. ~(call.reasoning = "answers" /\ told(g)) => Cardinality(About(causes, g)) = call.groups[g]
    BY <1>3, <1>4 DEF Explained
  <2> HIDE DEF own
  <2> QED
    BY <2>1, <2>2, <2>3 DEF own
<1>8. ASSUME call.reasoning # "answers"
      PROVE  \A i \in DOMAIN done.causes : done.causes[i].from = "change"
  <2>1. \A i \in DOMAIN causes : causes[i].from = "change"
    BY <1>4, <1>6, <1>8 DEF CauseFrom
  <2>2. \A i \in DOMAIN << >> : FALSE
    OBVIOUS
  <2>3. CASE done.stored
    BY <1>2, <2>1, <2>3, Zenon
  <2>4. CASE ~done.stored
    BY <1>2, <2>2, <2>4, Zenon
  <2> QED
    BY <2>3, <2>4
<1> HIDE DEF one
<1>9. done.stored => \A g \in DOMAIN call.groups : one(done.causes, g)
  BY <1>1, <1>2, <1>7, Zenon
<1> QED
  BY <1>2, <1>8, <1>9, Zenon DEF GroupsAreExplained, done, told, one

-----------------------------------------------------------------------------
(***************************************************************************)
(* The chain of overridden verdicts, for any verdicts and services.        *)
(***************************************************************************)

LineageVerdicts == [service : Traced, before : BOOLEAN, overridden : BOOLEAN, confidence : Int,
             context : SUBSET Nat]
\* b was cited by an overridden verdict of a, and b's verdicts did get worse.
CitedBy(vs, a, b) == \E d \in Reversed(vs, a) : \E x \in vs[d].context : vs[x].service = b
GotWorse(vs, b) ==
    \E x, y \in DOMAIN vs : /\ vs[x].service = b /\ vs[y].service = b
                            /\ vs[x].before /\ ~vs[y].before
                            /\ vs[y].confidence < vs[x].confidence
BlameLink(vs, a, b) == CitedBy(vs, a, b) /\ GotWorse(vs, b)

\* Of some numbered values one is the greatest.
LEMMA GreatestOf ==
    ASSUME NEW n \in Nat, NEW v \in [1..n -> Int], NEW S \in SUBSET (1..n), S # {}
    PROVE  \E x \in S : \A y \in S : v[y] <= v[x]
<1> DEFINE Top(k) == \/ S \cap (1..k) = {}
                     \/ \E x \in S \cap (1..k) : \A y \in S \cap (1..k) : v[y] <= v[x]
           T == {k \in 0..n : Top(k)}
<1>1. 0 \in T /\ n \in 0..n
  OBVIOUS
<1>2. ASSUME NEW k \in 0..n, k \in T, k # n PROVE k + 1 \in T
  <2>1. k + 1 \in 1..n /\ k + 1 \in 0..n /\ (\A i \in 1..(k + 1) : i \in 1..k \/ i = k + 1)
        /\ 1..k \subseteq 1..(k + 1) /\ k + 1 \in 1..(k + 1)
    <3> HIDE DEF T
    <3> QED
      BY <1>2
  <2>2. PICK t : t = k + 1
    OBVIOUS
  <2>3. Top(k)
    BY <1>2
  <2>4. t \in 1..n /\ v[t] \in Int
    BY <2>1, <2>2
  <2>5. \A i \in S \cap (1..k) : v[i] \in Int
    OBVIOUS
  <2>6. CASE t \notin S
    <3>1. S \cap (1..t) = S \cap (1..k)
      BY <2>1, <2>2, <2>6
    <3>2. Top(t)
      BY <2>3, <3>1
    <3> QED
      BY <2>1, <2>2, <3>2
  <2>7. CASE t \in S
    <3>1. S \cap (1..t) = (S \cap (1..k)) \union {t}
      BY <2>1, <2>2, <2>7
    <3> DEFINE old == S \cap (1..k)
    <3>2. CASE old = {}
      <4>1. \A y \in S \cap (1..t) : y = t
        BY <3>1, <3>2
      <4>2. Top(t)
        BY <2>4, <3>1, <4>1
      <4> QED
        BY <2>1, <2>2, <4>2
    <3>3. CASE old # {}
      <4>1. PICK x \in old : \A y \in old : v[y] <= v[x]
        BY <2>3, <3>3
      <4>2. v[x] \in Int
        BY <2>5
      <4>3. CASE v[t] <= v[x]
        <5>1. \A y \in S \cap (1..t) : v[y] <= v[x]
          BY <3>1, <4>1, <4>3
        <5>2. Top(t)
          BY <3>1, <5>1
        <5> QED
          BY <2>1, <2>2, <5>2
      <4>4. CASE ~(v[t] <= v[x])
        <5>1. \A y \in old : v[y] <= v[t]
          BY <2>4, <2>5, <4>1, <4>2, <4>4
        <5>2. \A y \in S \cap (1..t) : v[y] <= v[t]
          BY <2>4, <3>1, <5>1
        <5>3. Top(t)
          BY <3>1, <5>2
        <5> QED
          BY <2>1, <2>2, <5>3
      <4> QED
        BY <4>3, <4>4
    <3> QED
      BY <3>2, <3>3
  <2> QED
    BY <2>6, <2>7
<1>3. n \in T
  <2> HIDE DEF T
  <2>1. \A k \in 0..n : k \in T
    BY <1>1, <1>2, IntervalInduction
  <2> QED
    BY <1>1, <2>1
<1>4. S \cap (1..n) = S
  OBVIOUS
<1> QED
  BY <1>3, <1>4

\* The sum of some verdicts' confidences lies between as many times the least and the
\* greatest of them.
LEMMA ConfidencesBetween ==
    ASSUME NEW vs \in Seq(LineageVerdicts), NEW S \in SUBSET (1..Len(vs)), NEW m \in Int
    PROVE  LET sum == Confidences(vs, S)[Len(vs)]
               size == Cardinality(S)
           IN  /\ sum \in Int /\ size \in Nat
               /\ (\A i \in S : vs[i].confidence <= m) => sum <= m * size
               /\ (\A i \in S : m <= vs[i].confidence) => m * size <= sum
<1> DEFINE n == Len(vs)
           part(i) == IF i \in S THEN vs[i].confidence ELSE 0
           w == [i \in 1..n |-> part(i)]
           Summing(g) == g = [i \in 0..n |-> IF i = 0 THEN 0 ELSE g[i - 1] + part(i)]
           f == CHOOSE g : Summing(g)
           size(k) == Cardinality(S \cap (1..k))
           low == \A i \in S : m <= vs[i].confidence
           high == \A i \in S : vs[i].confidence <= m
<1>1. n \in Nat /\ 0 \in 0..n /\ n \in 0..n
  OBVIOUS
<1>2. \A i \in 1..n : vs[i].confidence \in Int
  <2> SUFFICES ASSUME NEW i \in 1..n PROVE vs[i].confidence \in Int
    OBVIOUS
  <2>1. vs[i] \in LineageVerdicts
    BY ElementOfSeq
  <2> QED
    BY <2>1 DEF LineageVerdicts
<1>3. w \in [1..n -> Int] /\ \A i \in 1..n : w[i] = part(i) /\ part(i) \in Int
  BY <1>2
<1>4. Confidences(vs, S)[n] = f[n]
  BY Zenon DEF Confidences
<1> HIDE DEF w
<1>5. Summing(f)
  <2>1. PICK g : Sums(g, n, w)
    <3> HIDE DEF n
    <3> QED
      BY <1>1, <1>3, SumsExist
  <2> HIDE DEF n, part
  <2>2. \A i \in 0..n : g[i] = IF i = 0 THEN 0 ELSE g[i - 1] + w[i]
    BY <2>1 DEF Sums
  <2>3. \A i \in 0..n : i # 0 => w[i] = part(i)
    BY <1>1, <1>3
  <2>4. g = [i \in 0..n |-> IF i = 0 THEN 0 ELSE g[i - 1] + w[i]]
    BY <2>1, Zenon DEF Sums
  <2>5. [i \in 0..n |-> IF i = 0 THEN 0 ELSE g[i - 1] + w[i]]
          = [i \in 0..n |-> IF i = 0 THEN 0 ELSE g[i - 1] + part(i)]
    BY <2>3
  <2>6. Summing(g)
    BY <2>4, <2>5, Zenon
  <2> HIDE DEF Summing
  <2> QED
    BY <2>6, Zenon
<1> HIDE DEF f, n
<1>6. f[0] = 0 /\ \A i \in 1..n : f[i] = f[i - 1] + part(i)
  <2>1. \A i \in 1..n : i \in 0..n /\ i # 0
    BY <1>1
  <2> HIDE DEF part
  <2> QED
    BY <1>1, <1>5, <2>1
<1> DEFINE Fits(sum, c) == /\ sum \in Int /\ c \in Nat
                           /\ high => sum <= m * c
                           /\ low => m * c <= sum
           T == {k \in 0..n : IsFiniteSet(S \cap (1..k)) /\ Fits(f[k], size(k))}
<1>7. 0 \in T
  <2>1. S \cap (1..0) = {}
    OBVIOUS
  <2>2. IsFiniteSet(S \cap (1..0)) /\ size(0) = 0
    BY <2>1, FS_EmptySet
  <2>3. m * 0 = 0
    OBVIOUS
  <2> HIDE DEF size, high, low
  <2> QED
    BY <1>1, <1>6, <2>2, <2>3
<1>8. ASSUME NEW k \in 0..n, k \in T, k # n PROVE k + 1 \in T
  <2>1. k + 1 \in 1..n /\ k + 1 \in 0..n /\ (k + 1) - 1 = k
        /\ (\A i \in 1..(k + 1) : i \in 1..k \/ i = k + 1)
        /\ 1..k \subseteq 1..(k + 1) /\ k + 1 \in 1..(k + 1) /\ k + 1 \notin 1..k
    <3> HIDE DEF T
    <3> QED
      BY <1>1, <1>8
  <2>2. PICK t : t = k + 1
    OBVIOUS
  <2>3. t \in 1..n /\ f[t] = f[k] + part(t) /\ part(t) \in Int
    BY <1>3, <1>6, <2>1, <2>2
  <2>4. IsFiniteSet(S \cap (1..k)) /\ Fits(f[k], size(k))
    BY <1>8
  <2>5. CASE t \notin S
    <3>1. S \cap (1..t) = S \cap (1..k)
      BY <2>1, <2>2, <2>5
    <3>2. part(t) = 0 /\ size(t) = size(k)
      BY <2>5, <3>1
    <3> HIDE DEF size, part, high, low
    <3>3. f[t] = f[k]
      BY <2>3, <2>4, <3>2
    <3> QED
      BY <2>1, <2>2, <2>4, <3>1, <3>2, <3>3
  <2>6. CASE t \in S
    <3>1. S \cap (1..t) = (S \cap (1..k)) \union {t} /\ t \notin S \cap (1..k)
      BY <2>1, <2>2, <2>6
    <3>2. IsFiniteSet(S \cap (1..t)) /\ size(t) = size(k) + 1
      <4> DEFINE some == S \cap (1..k)
      <4>1. IsFiniteSet(some) /\ t \notin some
        BY <2>4, <3>1
      <4> HIDE DEF some
      <4>2. IsFiniteSet(some \union {t}) /\ Cardinality(some \union {t}) = Cardinality(some) + 1
        BY <4>1, FS_AddElement
      <4> QED
        BY <3>1, <4>2, Zenon DEF some
    <3>3. part(t) = vs[t].confidence
      BY <2>6
    <3>4. (high => part(t) <= m) /\ (low => m <= part(t))
      BY <2>6, <3>3
    <3> HIDE DEF part, high, low
    <3>5. PICK c : c = size(k)
      OBVIOUS
    <3>6. PICK p : p = part(t)
      OBVIOUS
    <3> HIDE DEF size
    <3>10. c \in Nat
      BY <2>4, <3>5, Zenon
    <3>7. m * (c + 1) = m * c + m /\ m * c \in Int /\ c \in Nat /\ c + 1 \in Nat
      BY <3>10
    <3>8. PICK z : z = m * c
      OBVIOUS
    <3>9. Fits(f[k] + p, c + 1)
      <4>1. f[k] \in Int /\ p \in Int /\ z \in Int /\ (high => f[k] <= z) /\ (low => z <= f[k])
            /\ (high => p <= m) /\ (low => m <= p)
        BY <2>3, <2>4, <3>4, <3>5, <3>6, <3>7, <3>8
      <4>2. (high => f[k] + p <= z + m) /\ (low => z + m <= f[k] + p) /\ f[k] + p \in Int
        BY <4>1
      <4> QED
        BY <3>7, <3>8, <4>2
    <3> HIDE DEF Fits
    <3> QED
      BY <2>1, <2>2, <2>3, <3>2, <3>5, <3>6, <3>9
  <2> QED
    BY <2>5, <2>6
<1> HIDE DEF T
<1>9. n \in T
  <2>1. \A k \in 0..n : k \in T
    BY <1>1, <1>7, <1>8, IntervalInduction
  <2> QED
    BY <1>1, <2>1
<1>10. S \cap (1..n) = S
  BY DEF n
<1>11. Fits(f[n], Cardinality(S))
  BY <1>9, <1>10 DEF T
<1> QED
  BY <1>4, <1>11, Zenon DEF n

\* If the mean fell, some verdict is below one from before.
LEMMA DegradedIsWorse ==
    ASSUME NEW vs \in Seq(LineageVerdicts), NEW u, Degraded(vs, u)
    PROVE  GotWorse(vs, u)
<1> DEFINE n == Len(vs)
           old == During(vs, u, TRUE)
           new == During(vs, u, FALSE)
           a == Confidences(vs, old)[Len(vs)]
           b == Confidences(vs, new)[Len(vs)]
           v == [i \in 1..n |-> vs[i].confidence]
<1>1. n \in Nat /\ DOMAIN vs = 1..n
  OBVIOUS
<1>2. /\ old \in SUBSET (1..Len(vs)) /\ new \in SUBSET (1..Len(vs)) /\ old # {} /\ new # {}
      /\ MeanBelow(vs, new, old)
  BY <1>1 DEF Degraded, During
<1>3. v \in [1..n -> Int] /\ \A i \in 1..n : v[i] = vs[i].confidence
  <2> SUFFICES ASSUME NEW i \in 1..n PROVE vs[i].confidence \in Int
    OBVIOUS
  <2>1. vs[i] \in LineageVerdicts
    BY <1>1, ElementOfSeq
  <2> QED
    BY <2>1 DEF LineageVerdicts
<1>4. \A i \in old : vs[i].service = u /\ vs[i].before = TRUE
  BY DEF During
<1>5. \A i \in new : vs[i].service = u /\ vs[i].before = FALSE
  BY DEF During
<1> SUFFICES ASSUME \A x \in old, y \in new : v[x] <= v[y] PROVE FALSE
  <2>1. ASSUME NEW x \in old, NEW y \in new, ~(v[x] <= v[y]) PROVE GotWorse(vs, u)
    <3>1. x \in 1..n /\ y \in 1..n
      BY <1>2
    <3>2. vs[y].confidence < vs[x].confidence
      BY <1>3, <2>1, <3>1
    <3> HIDE DEF old, new
    <3> QED
      BY <1>1, <1>4, <1>5, <3>1, <3>2 DEF GotWorse
  <2> QED
    BY <2>1
<1> HIDE DEF v, old, new
<1>6. PICK x \in old : \A y \in old : v[y] <= v[x]
  <2> HIDE DEF n
  <2>1. old \in SUBSET (1..n)
    BY <1>2 DEF n
  <2> QED
    BY <1>1, <1>2, <1>3, <2>1, GreatestOf
<1>7. PICK m \in Int : m = v[x]
  BY <1>2, <1>3
<1>8. (\A i \in old : vs[i].confidence <= m) /\ (\A i \in new : m <= vs[i].confidence)
  BY <1>2, <1>3, <1>6, <1>7
<1> DEFINE p == Cardinality(old)
           q == Cardinality(new)
<1>9. a \in Int /\ p \in Nat /\ a <= m * p
  BY <1>2, <1>8, ConfidencesBetween
<1>10. b \in Int /\ q \in Nat /\ m * q <= b
  BY <1>2, <1>8, ConfidencesBetween
<1>11. b * p < (a - p) * q
  BY <1>2 DEF MeanBelow
<1> HIDE DEF a, b, p, q
<1>12. (m * q) * p <= b * p /\ (a - p) * q <= (m * p) * q
  <2>1. m * q \in Int /\ m * p \in Int /\ a - p \in Int /\ a - p <= m * p
    BY <1>9, <1>10
  <2>2. (m * q) * p <= b * p
    BY <1>9, <1>10, <2>1, ProductGrows
  <2>3. (a - p) * q <= (m * p) * q
    BY <1>9, <1>10, <2>1, ProductGrows
  <2> QED
    BY <2>2, <2>3
<1>13. (m * q) * p = (m * p) * q
  BY <1>9, <1>10
<1>14. b * p \in Int /\ (a - p) * q \in Int /\ (m * p) * q \in Int
  BY <1>9, <1>10
<1> QED
  BY <1>11, <1>12, <1>13, <1>14

\* A service that has upstreams to blame has one that is blamed first.
LEMMA PrimaryIsUpstream ==
    ASSUME IsFiniteSet(Traced), Traced \subseteq Int, NEW vs \in Seq(LineageVerdicts), NEW s,
           Upstreams(vs, s) # {}
    PROVE  Primary(vs, s) \in Upstreams(vs, s)
<1> DEFINE U == Upstreams(vs, s)
           N(u) == Cardinality(References(vs, s, u))
           all == (1..Len(vs)) \X (1..Len(vs))
           b == Cardinality(all)
           C == {N(u) : u \in U}
           best == {u \in U : N(u) = Max(C)}
           Leads(u) == \A w \in U \ {u} : N(u) > N(w) \/ (N(u) = N(w) /\ u < w)
<1>1. IsFiniteSet(all) /\ b \in Nat
  <2>1. IsFiniteSet(1..Len(vs))
    BY FS_Interval
  <2>2. IsFiniteSet((1..Len(vs)) \X (1..Len(vs)))
    BY <2>1, FS_Product
  <2> QED
    BY <2>2, FS_CardinalityType
<1>2. \A u : N(u) \in 0..b
  <2> SUFFICES ASSUME NEW u PROVE N(u) \in 0..b
    OBVIOUS
  <2>1. References(vs, s, u) \in SUBSET all
    <3>1. DOMAIN vs = 1..Len(vs)
      OBVIOUS
    <3> QED
      BY <3>1 DEF References, Reversed
  <2> DEFINE R == References(vs, s, u)
  <2> HIDE DEF all, R
  <2>2. IsFiniteSet(R) /\ Cardinality(R) <= Cardinality(all)
    BY <1>1, <2>1, FS_Subset DEF R
  <2>3. Cardinality(R) \in Nat
    BY <2>2, FS_CardinalityType
  <2> QED
    BY <1>1, <2>2, <2>3 DEF R
<1>3. U \subseteq Traced /\ U # {}
  BY DEF Upstreams
<1> HIDE DEF U, N, b
<1>4. Max(C) \in C
  <2>1. C \in SUBSET (0..b) /\ C # {}
    BY <1>2, <1>3
  <2> HIDE DEF C
  <2> QED
    BY <1>1, <2>1, MaxInSet
<1>5. \A u \in U : N(u) <= Max(C)
  <2>1. C \in SUBSET (0..b) /\ C # {} /\ \A u \in U : N(u) \in C
    BY <1>2, <1>3
  <2> HIDE DEF C
  <2>2. \A y \in C : y <= Max(C)
    BY <1>1, <2>1, MaxInSet
  <2> QED
    BY <2>1, <2>2
<1>6. PICK m : m = Max(C)
  OBVIOUS
<1>7. best = {u \in U : N(u) = m}
  BY <1>6, Zenon
<1>8. best # {} /\ best \subseteq Int /\ IsFiniteSet(best)
  <2>1. best # {}
    BY <1>4, <1>6, <1>7
  <2>2. best \in SUBSET Traced
    BY <1>3, <1>7
  <2> HIDE DEF best
  <2> QED
    BY <2>1, <2>2, FS_Subset
<1> HIDE DEF best
<1>9. PICK u \in best : \A y \in best : u <= y
  BY <1>8, FiniteEnds
<1>10. u \in U /\ N(u) = m
  BY <1>7
<1>11. Leads(u)
  <2> SUFFICES ASSUME NEW w \in U \ {u} PROVE N(u) > N(w) \/ (N(u) = N(w) /\ u < w)
    OBVIOUS
  <2>1. N(w) <= N(u) /\ N(w) \in Nat /\ N(u) \in Nat
    BY <1>2, <1>5, <1>6, <1>10
  <2>2. CASE N(w) = N(u)
    <3>1. w \in best
      BY <1>7, <1>10, <2>2
    <3>2. u <= w /\ u # w /\ u \in Int /\ w \in Int
      BY <1>8, <1>9, <3>1
    <3> QED
      BY <2>2, <3>2
  <2>3. CASE N(w) # N(u)
    BY <2>1, <2>3
  <2> QED
    BY <2>2, <2>3
<1>12. Primary(vs, s) = CHOOSE x \in U : Leads(x)
  BY Zenon DEF Primary, U, N
<1> HIDE DEF Leads
<1> QED
  BY <1>10, <1>11, <1>12, Zenon DEF U

\* Blame follows an overridden verdict to a service that did get worse.
LEMMA BlameLinks ==
    ASSUME IsFiniteSet(Traced), Traced \subseteq Int, NEW vs \in Seq(LineageVerdicts), NEW s,
           Upstreams(vs, s) # {}, Degraded(vs, Primary(vs, s))
    PROVE  Primary(vs, s) \in Traced /\ BlameLink(vs, s, Primary(vs, s))
<1>1. PICK u : u = Primary(vs, s)
  OBVIOUS
<1>2. u \in Upstreams(vs, s)
  BY <1>1, PrimaryIsUpstream
<1>3. u \in Traced /\ Cardinality(References(vs, s, u)) > 0
  BY <1>2 DEF Upstreams
<1>4. References(vs, s, u) # {}
  <2> SUFFICES ASSUME References(vs, s, u) = {} PROVE FALSE
    OBVIOUS
  <2>1. Cardinality(References(vs, s, u)) = 0
    BY FS_EmptySet
  <2> QED
    BY <1>3, <2>1
<1>5. CitedBy(vs, s, u)
  BY <1>4 DEF CitedBy, References
<1>6. GotWorse(vs, u)
  BY <1>1, DegradedIsWorse
<1> QED
  BY <1>1, <1>3, <1>5, <1>6 DEF BlameLink

ChainStep(vs, s, further, rest) ==
    IF Upstreams(vs, s) = {} \/ ~Degraded(vs, Primary(vs, s)) THEN << >>
    ELSE IF further /\ Reversed(vs, Primary(vs, s)) # {} THEN <<Primary(vs, s)>> \o rest
    ELSE <<Primary(vs, s)>>
\* t is the function of the chains, by the levels left and the service.
Traversing(t, vs) ==
    t = [left \in 0..(MaxChain - 1) |-> [s \in Traced |->
            IF Upstreams(vs, s) = {} \/ ~Degraded(vs, Primary(vs, s)) THEN << >>
            ELSE IF left > 0 /\ Reversed(vs, Primary(vs, s)) # {}
                 THEN <<Primary(vs, s)>> \o t[left - 1][Primary(vs, s)]
                 ELSE <<Primary(vs, s)>>]]

LEMMA ChainStepType ==
    ASSUME IsFiniteSet(Traced), Traced \subseteq Int, NEW vs \in Seq(LineageVerdicts), NEW s,
           NEW further, NEW h \in [Traced -> Seq(Traced)]
    PROVE  ChainStep(vs, s, further, h[Primary(vs, s)]) \in Seq(Traced)
<1> DEFINE blames == ~(Upstreams(vs, s) = {} \/ ~Degraded(vs, Primary(vs, s)))
<1>1. PICK b : b = Primary(vs, s)
  OBVIOUS
<1>2. CASE ~blames
  <2>1. ChainStep(vs, s, further, h[Primary(vs, s)]) = << >>
    BY <1>2, Zenon DEF ChainStep
  <2> QED
    BY <2>1
<1>3. CASE blames
  <2>1. b \in Traced
    BY <1>1, <1>3, BlameLinks
  <2>2. \/ ChainStep(vs, s, further, h[Primary(vs, s)]) = <<b>> \o h[b]
        \/ ChainStep(vs, s, further, h[Primary(vs, s)]) = <<b>>
    BY <1>1 , <1>3, Zenon DEF ChainStep
  <2>3. <<b>> \in Seq(Traced) /\ h[b] \in Seq(Traced)
    BY <2>1
  <2>4. <<b>> \o h[b] \in Seq(Traced)
    BY <2>3, ConcatProperties
  <2> QED
    BY <2>2, <2>3, <2>4
<1> QED
  BY <1>2, <1>3

LEMMA TraversingExists ==
    ASSUME MaxChain \in Nat \ {0}, IsFiniteSet(Traced), Traced \subseteq Int, NEW vs \in Seq(LineageVerdicts)
    PROVE  \E t : Traversing(t, vs)
<1> DEFINE K == MaxChain - 1
           X == [Traced -> Seq(Traced)]
           more(h, further) == [s \in Traced |-> ChainStep(vs, s, further, h[Primary(vs, s)])]
           none == [s \in Traced |-> << >>]
           start == more(none, FALSE)
           step == [p \in X \X (1..K) |-> more(p[1], TRUE)]
           w == [i \in 1..K |-> i]
<1>1. K \in Nat /\ none \in X
  OBVIOUS
<1>2. \A h \in X, further \in BOOLEAN : more(h, further) \in X
  <2> SUFFICES ASSUME NEW h \in X, NEW further \in BOOLEAN, NEW s \in Traced
               PROVE  ChainStep(vs, s, further, h[Primary(vs, s)]) \in Seq(Traced)
    OBVIOUS
  <2> QED
    BY ChainStepType
<1> HIDE DEF more, X, none, K
<1>3. start \in X
  BY <1>1, <1>2
<1> HIDE DEF start
<1>4. step \in [X \X (1..K) -> X] /\ (\A h \in X, i \in 1..K : step[h, i] = more(h, TRUE))
      /\ w \in [1..K -> 1..K]
  BY <1>2
<1>5. \A i \in 1..K : w[i] = i
  OBVIOUS
<1> HIDE DEF step, w
<1>6. PICK g \in [0..K -> X] : g[0] = start /\ \A i \in 1..K : g[i] = step[g[i - 1], w[i]]
  <2>1. \E g \in [0..K -> X] : Iterates(g, start, step, K, w)
    BY <1>1, <1>3, <1>4, IterationExists
  <2> QED
    BY <2>1, Zenon DEF Iterates
<1>7. ASSUME NEW i \in 0..K
      PROVE  g[i] = [s \in Traced |-> ChainStep(vs, s, i > 0, g[i - 1][Primary(vs, s)])]
  <2>1. CASE i = 0
    <3>1. g[i] = start
      BY <1>6, <2>1, Zenon
    <3>3. ~(0 > 0)
      OBVIOUS
    <3>4. ~(i > 0)
      BY <2>1, <3>3, Zenon
    <3>2. \A s \in Traced : ChainStep(vs, s, FALSE, none[Primary(vs, s)])
                                = ChainStep(vs, s, i > 0, g[i - 1][Primary(vs, s)])
      BY <3>4 DEF ChainStep
    <3> QED
      BY <3>1, <3>2 DEF start, more
  <2>2. CASE i # 0
    <3>1. i > 0 /\ i \in 1..K /\ i - 1 \in 0..K
      BY <1>1, <2>2
    <3>2. g[i - 1] \in X
      BY <3>1
    <3>3. g[i] = more(g[i - 1], TRUE)
      BY <1>4, <1>5, <1>6, <3>1, <3>2
    <3>4. \A s \in Traced : ChainStep(vs, s, TRUE, g[i - 1][Primary(vs, s)])
                                = ChainStep(vs, s, i > 0, g[i - 1][Primary(vs, s)])
      BY <3>1 DEF ChainStep
    <3> QED
      BY <3>3, <3>4 DEF more
  <2> QED
    BY <2>1, <2>2
<1> DEFINE level(i) == [s \in Traced |-> ChainStep(vs, s, i > 0, g[i - 1][Primary(vs, s)])]
<1>8. \A i \in 0..K : g[i] = level(i)
  BY <1>7
<1> HIDE DEF level
<1>9. g = [i \in 0..K |-> level(i)]
  BY <1>8
<1> QED
  BY <1>9, Zenon DEF Traversing, ChainStep, K, level

\* A chain of at most i blames, that starts from s.
ChainFrom(vs, s, chain, i) ==
    /\ chain \in Seq(Traced) /\ Len(chain) <= i
    /\ \A k \in 1..Len(chain) : BlameLink(vs, IF k = 1 THEN s ELSE chain[k - 1], chain[k])

LEMMA ChainGrows ==
    ASSUME NEW vs, NEW s, NEW b \in Traced, BlameLink(vs, s, b), NEW i \in Nat, NEW rest,
           ChainFrom(vs, b, rest, i), NEW t, t = i + 1
    PROVE  ChainFrom(vs, s, <<b>> \o rest, t)
<1> DEFINE chain == <<b>> \o rest
           n == Len(rest)
<1>1. rest \in Seq(Traced) /\ <<b>> \in Seq(Traced) /\ Len(<<b>>) = 1 /\ n \in Nat /\ n <= i
  BY DEF ChainFrom
<1>2. /\ chain \in Seq(Traced) /\ Len(chain) = 1 + n
      /\ \A k \in 1..(1 + n) : chain[k] = IF k <= 1 THEN <<b>>[k] ELSE rest[k - 1]
  BY <1>1, ConcatProperties
<1>3. \A k \in 1..n : BlameLink(vs, IF k = 1 THEN b ELSE rest[k - 1], rest[k])
  BY DEF ChainFrom
<1> HIDE DEF chain, n
<1>4. chain[1] = b
  BY <1>1, <1>2
<1>5. \A k \in 1..(1 + n) : k # 1 => k - 1 \in 1..n /\ chain[k] = rest[k - 1]
  BY <1>1, <1>2
<1>6. ASSUME NEW k \in 1..(1 + n) PROVE BlameLink(vs, IF k = 1 THEN s ELSE chain[k - 1], chain[k])
  <2>1. CASE k = 1
    BY <1>4, <2>1
  <2>2. CASE k # 1
    <3>1. PICK j : j = k - 1
      OBVIOUS
    <3>2. j \in 1..n /\ chain[k] = rest[j] /\ j \in 1..(1 + n)
      BY <1>1, <1>5, <2>2, <3>1
    <3>3. BlameLink(vs, IF j = 1 THEN b ELSE rest[j - 1], rest[j])
      BY <1>3, <3>2
    <3>4. chain[j] = IF j = 1 THEN b ELSE rest[j - 1]
      BY <1>4, <1>5, <3>2
    <3> QED
      BY <2>2, <3>1, <3>2, <3>3, <3>4
  <2> QED
    BY <2>1, <2>2
<1>7. Len(chain) <= t
  BY <1>1, <1>2
<1> QED
  BY <1>2, <1>6, <1>7 DEF ChainFrom, chain

LEMMA ChainsGrounded ==
    ASSUME MaxChain \in Nat \ {0}, IsFiniteSet(Traced), Traced \subseteq Int,
           NEW vs \in Seq(LineageVerdicts), NEW s \in Traced
    PROVE  ChainFrom(vs, s, Analyze(vs, s), MaxChain)
<1> DEFINE K == MaxChain - 1
           t == CHOOSE f : Traversing(f, vs)
           B(r) == Primary(vs, r)
           S == {i \in 0..K : \A r \in Traced : ChainFrom(vs, r, t[i][r], i + 1)}
<1>1. K \in Nat /\ 0 \in 0..K /\ K \in 0..K /\ K + 1 = MaxChain
  OBVIOUS
<1>2. Analyze(vs, s) = t[K][s]
  BY Zenon DEF Analyze, Traverse, Traversing
<1>3. Traversing(t, vs)
  BY TraversingExists, Zenon
<1> HIDE DEF t, K
<1>4. \A i \in 0..K, r \in Traced : t[i][r] = ChainStep(vs, r, i > 0, t[i - 1][B(r)])
  <2> DEFINE level(i) == [r \in Traced |-> ChainStep(vs, r, i > 0, t[i - 1][B(r)])]
  <2>1. t = [i \in 0..K |-> level(i)]
    BY <1>3, Zenon DEF Traversing, ChainStep, K
  <2> HIDE DEF level
  <2>2. \A i \in 0..K : t[i] = level(i)
    BY <2>1
  <2> HIDE DEF B
  <2> QED
    BY <2>2 DEF level
<1>5. ASSUME NEW r \in Traced, Upstreams(vs, r) # {}, Degraded(vs, B(r))
      PROVE  B(r) \in Traced /\ BlameLink(vs, r, B(r))
  BY <1>5, BlameLinks
<1>6. ASSUME NEW i \in Nat, NEW r
      PROVE  ChainFrom(vs, r, << >>, i)
  <2>1. << >> \in Seq(Traced) /\ Len(<< >>) <= i /\ \A k \in 1..Len(<< >>) : FALSE
    OBVIOUS
  <2> QED
    BY <2>1, Zenon DEF ChainFrom
<1>7. ASSUME NEW i \in Nat \ {0}, NEW r \in Traced, Upstreams(vs, r) # {}, Degraded(vs, B(r))
      PROVE  ChainFrom(vs, r, <<B(r)>>, i)
  <2>1. B(r) \in Traced /\ BlameLink(vs, r, B(r))
    BY <1>5, <1>7
  <2> HIDE DEF B
  <2>2. PICK c : c = <<B(r)>>
    OBVIOUS
  <2>3. c \in Seq(Traced) /\ Len(c) = 1 /\ c[1] = B(r) /\ Len(c) <= i
    BY <2>1, <2>2
  <2>4. \A k \in 1..Len(c) : k = 1
    BY <2>3
  <2>5. ChainFrom(vs, r, c, i)
    BY <2>1, <2>3, <2>4 DEF ChainFrom
  <2> QED
    BY <2>2, <2>5
<1> HIDE DEF B
<1>8. 0 \in S
  <2> SUFFICES ASSUME NEW r \in Traced PROVE ChainFrom(vs, r, t[0][r], 0 + 1)
    BY <1>1
  <2>1. ~(0 > 0) /\ 0 + 1 = 1
    OBVIOUS
  <2>6. t[0][r] = ChainStep(vs, r, 0 > 0, t[0 - 1][B(r)])
    BY <1>1, <1>4, Zenon
  <2>2. \/ t[0][r] = << >>
        \/ t[0][r] = <<B(r)>> /\ Upstreams(vs, r) # {} /\ Degraded(vs, B(r))
    BY <2>1, <2>6, Zenon DEF ChainStep, B
  <2>3. 1 \in Nat \ {0} /\ 1 \in Nat
    OBVIOUS
  <2>4. CASE t[0][r] = << >>
    BY <1>6, <2>1, <2>3, <2>4, Zenon
  <2>5. CASE t[0][r] = <<B(r)>> /\ Upstreams(vs, r) # {} /\ Degraded(vs, B(r))
    BY <1>7, <2>1, <2>3, <2>5, Zenon
  <2> QED
    BY <2>2, <2>4, <2>5
<1>9. ASSUME NEW i \in 0..K, i \in S, i # K PROVE i + 1 \in S
  <2>1. \A r \in Traced : ChainFrom(vs, r, t[i][r], i + 1)
    BY <1>9
  <2>2. PICK j : j = i + 1
    OBVIOUS
  <2>3. PICK m : m = j + 1
    OBVIOUS
  <2> HIDE DEF S
  <2>4. j \in 0..K /\ j - 1 = i /\ i \in Nat /\ j \in Nat /\ m \in Nat /\ m \in Nat \ {0}
    BY <1>1, <1>9, <2>2, <2>3
  <2>5. ASSUME NEW r \in Traced PROVE ChainFrom(vs, r, t[j][r], m)
    <3>1. t[j][r] = ChainStep(vs, r, j > 0, t[i][B(r)])
      BY <1>4, <2>4
    <3>2. \/ t[j][r] = << >>
          \/ t[j][r] = <<B(r)>> /\ Upstreams(vs, r) # {} /\ Degraded(vs, B(r))
          \/ t[j][r] = <<B(r)>> \o t[i][B(r)] /\ Upstreams(vs, r) # {} /\ Degraded(vs, B(r))
      BY <3>1, Zenon DEF ChainStep, B
    <3>3. CASE t[j][r] = << >>
      BY <1>6, <2>4, <3>3
    <3>4. CASE t[j][r] = <<B(r)>> /\ Upstreams(vs, r) # {} /\ Degraded(vs, B(r))
      BY <1>7, <2>4, <3>4
    <3>5. CASE t[j][r] = <<B(r)>> \o t[i][B(r)] /\ Upstreams(vs, r) # {} /\ Degraded(vs, B(r))
      <4>1. B(r) \in Traced /\ BlameLink(vs, r, B(r))
        BY <1>5, <3>5
      <4>2. ChainFrom(vs, B(r), t[i][B(r)], j)
        BY <2>1, <2>2, <4>1
      <4>3. ChainFrom(vs, r, <<B(r)>> \o t[i][B(r)], m)
        BY <2>3, <2>4, <4>1, <4>2, ChainGrows
      <4> QED
        BY <3>5, <4>3
    <3> QED
      BY <3>2, <3>3, <3>4, <3>5
  <2> QED
    BY <2>2, <2>3, <2>4, <2>5 DEF S
<1> HIDE DEF S
<1>10. K \in S
  <2>1. \A i \in 0..K : i \in S
    BY <1>1, <1>8, <1>9, IntervalInduction
  <2> QED
    BY <1>1, <2>1
<1>11. ChainFrom(vs, s, t[K][s], K + 1)
  BY <1>10 DEF S
<1> QED
  BY <1>1, <1>2, <1>11

\* Blame is grounded, for any verdicts of any number of services and any depth: every
\* service in a chain was cited by an overridden verdict of the one before it and did get
\* worse, and a lineage in a circle ends at the depth allowed.
THEOREM BlameGrounded ==
    ASSUME call.about = "lineage" =>
               /\ MaxChain \in Nat \ {0} /\ IsFiniteSet(Traced) /\ Traced \subseteq Int
               /\ call.verdicts \in Seq(LineageVerdicts)
    PROVE  BlameIsGrounded
<1> SUFFICES ASSUME call.about = "lineage", NEW s \in Traced
             PROVE  LET chain == Analyze(call.verdicts, s)
                        before(k) == IF k = 1 THEN s ELSE chain[k - 1]
                    IN  /\ Len(chain) <= MaxChain
                        /\ \A k \in DOMAIN chain :
                               /\ \E d \in Reversed(call.verdicts, before(k)) :
                                      \E x \in call.verdicts[d].context : call.verdicts[x].service = chain[k]
                               /\ GotWorse(call.verdicts, chain[k])
  BY Zenon DEF BlameIsGrounded, GotWorse
<1>1. ChainFrom(call.verdicts, s, Analyze(call.verdicts, s), MaxChain)
  BY ChainsGrounded
<1>2. PICK chain : chain = Analyze(call.verdicts, s)
  OBVIOUS
<1>3. DOMAIN chain = 1..Len(chain)
  <2>1. chain \in Seq(Traced)
    BY <1>1, <1>2, Zenon DEF ChainFrom
  <2> QED
    BY <2>1
<1> QED
  BY <1>1, <1>2, <1>3, Zenon DEF ChainFrom, BlameLink, CitedBy

-----------------------------------------------------------------------------
(***************************************************************************)
(* Everything that is asked of correlation.                                *)
(***************************************************************************)

\* A phase of correlate serve is a number of cycles with the same groups.
PhasesOf(C) == /\ \A c \in C : c.groups \in GroupCounts /\ c.failed \in Nat /\ c.times \in Nat
               /\ call.phases \in Seq(C)

\* The situation follows what is elevated, for any phases of any length.
LEMMA PhasesServed ==
    ASSUME NEW C, call.about = "serve" => PhasesOf(C)
    PROVE  ServeFollowsSituation
<1> SUFFICES ASSUME call.about = "serve" PROVE ServeFollowsSituation
  BY DEF ServeFollowsSituation
<1> DEFINE ph == call.phases
           n == Len(ph)
           q == [p \in 1..n |-> [i \in 1..ph[p].times |-> ph[p]]]
<1>1. /\ ph \in Seq(C) /\ n \in Nat /\ DOMAIN ph = 1..n
      /\ \A c \in C : c.groups \in GroupCounts /\ c.failed \in Nat /\ c.times \in Nat
  BY SequenceDomain DEF PhasesOf
<1> HIDE DEF ph
<1>2. ASSUME NEW p \in 1..n PROVE [i \in 1..ph[p].times |-> ph[p]] \in Seq(C)
  <2>1. ph[p] \in C /\ ph[p].times \in Nat
    BY <1>1
  <2> QED
    BY <2>1
<1> HIDE DEF n
<1>3. q \in [1..n -> Seq(C)]
  BY <1>2
<1>4. CyclesOf(ph) = FlattenSeq(q)
  BY <1>1, Zenon DEF CyclesOf
<1> HIDE DEF q
<1>5. CyclesOf(ph) \in Seq(C)
  BY <1>1, <1>3, <1>4, FlattenHas
<1>6. SituationFollowed(CyclesOf(ph))
  BY <1>1, <1>5, SituationServed
<1> QED
  BY <1>6 DEF ServeFollowsSituation, ph

\* The calls of correlate serve, of the evidence, the model's answers, the command and
\* the gathering.
CorrelateCall(C) ==
    /\ call.about = "serve" => PhasesOf(C)
    /\ call.about = "traces" => TracesOf(call)
    /\ call.about = "contracts" => call.services \in Seq(Contracted)
    /\ call.about = "lineage" =>
           /\ MaxChain \in Nat \ {0} /\ IsFiniteSet(Traced) /\ Traced \subseteq Int
           /\ call.verdicts \in Seq(LineageVerdicts)
    /\ call.about = "interpret" =>
           call.groups \in Nat /\ call.children \in Nat /\ call.putsOk \in Nat
    /\ call.about = "correlate" => call.groups \in Seq(Nat)
    /\ call.about = "gather" => /\ IsFiniteSet(Traced) /\ call.trigger \in Traced
                                /\ call.deps \in [Traced -> SUBSET Traced]

\* Whatever correlation is asked, for any number of cycles, services, groups, contracts
\* and verdicts, what it answers is as it should be.
THEOREM CorrelateAnswered ==
    ASSUME NEW C, CorrelateCall(C)
    PROVE  CorrelateAnswers
<1>1. ServeFollowsSituation
  BY PhasesServed, Zenon DEF CorrelateCall
<1>2. DriftIsExact
  BY DriftReported, Zenon DEF CorrelateCall
<1>3. ContractsStandAlone
  BY ContractsApart, Zenon DEF CorrelateCall
<1>4. BlameIsGrounded
  BY BlameGrounded, Zenon DEF CorrelateCall
<1>5. ParentAfterChildren
  BY ParentsLast, Zenon DEF CorrelateCall
<1>6. GroupsAreExplained
  BY GroupsExplained, Zenon DEF CorrelateCall
<1>7. GatherIsLocal
  BY GatheredLocally, Zenon DEF CorrelateCall
<1> QED
  BY <1>1, <1>2, <1>3, <1>4, <1>5, <1>6, <1>7, Zenon DEF CorrelateAnswers
=============================================================================
