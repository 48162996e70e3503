------------------------------- MODULE SlaProofs -------------------------------
(***************************************************************************)
(* The uptime below the bars, the SLA of a month and its reasons, for      *)
(* every set of incidents, days and months: they are sums over the same    *)
(* incidents, and agree.                                                   *)
(***************************************************************************)
EXTENDS Listings, StatusPageProofs

-----------------------------------------------------------------------------
(* Sums over finite sets.  An argument by induction over the members takes *)
(* a smallest set for which the claim fails.                               *)

LEMMA SmallestSet ==
    ASSUME NEW S, IsFiniteSet(S), NEW Bad \in SUBSET (SUBSET S), Bad # {}
    PROVE  \E T \in Bad : \A U \in Bad : U \subseteq T => U = T
<1> DEFINE sizes == {Cardinality(T) : T \in Bad}
<1>1. \A T \in Bad : IsFiniteSet(T) /\ Cardinality(T) \in Nat
  BY FS_Subset, FS_CardinalityType
<1>2. sizes \in SUBSET Nat /\ sizes # {}
  BY <1>1
<1> HIDE DEF sizes
<1>3. PICK k \in sizes : \A l \in sizes : k <= l
  BY <1>2, Smallest
<1>4. PICK T \in Bad : Cardinality(T) = k
  BY DEF sizes
<1>5. ASSUME NEW U \in Bad, U \subseteq T
      PROVE  U = T
  <2>1. Cardinality(T) <= Cardinality(U)
    BY <1>3, <1>4 DEF sizes
  <2>2. IsFiniteSet(T) /\ IsFiniteSet(U) /\ Cardinality(T) \in Nat /\ Cardinality(U) \in Nat
    BY <1>1
  <2>3. Cardinality(U) <= Cardinality(T) /\ (Cardinality(T) = Cardinality(U) => T = U)
    BY <2>2, <1>5, FS_Subset
  <2>4. QED
    BY <2>1, <2>2, <2>3
<1>6. QED
  BY <1>5

One(s) == CHOOSE x \in s : TRUE

\* How the library computes a sum: the members are taken one after the other.
TakesAny(g, w, S) == g = [s \in SUBSET S |-> IF s = {} THEN 0 ELSE w[One(s)] + g[s \ {One(s)}]]
Sums(w, S) == CHOOSE g : g = [s \in SUBSET S |-> IF s = {} THEN 0 ELSE w[One(s)] + g[s \ {One(s)}]]
Total(w, S) == Sums(w, S)[S]

LEMMA AnyIsMember == \A s : s # {} => One(s) \in s
  BY DEF One

\* There is such a function: it is known for small sets, and from them for
\* larger ones.
LEMMA SumsExist ==
    ASSUME NEW S, IsFiniteSet(S), NEW w \in [S -> Int]
    PROVE  TakesAny(Sums(w, S), w, S) /\ Sums(w, S) \in [SUBSET S -> Int]
<1> DEFINE Upto(n) == {s \in SUBSET S : Cardinality(s) <= n}
           Good(n, g) == /\ g \in [Upto(n) -> Int]
                         /\ \A s \in Upto(n) : g[s] = IF s = {} THEN 0 ELSE w[One(s)] + g[s \ {One(s)}]
           Has(n) == \E g : Good(n, g)
           Bad == {n \in Nat : ~Has(n)}
<1>1. \A s \in SUBSET S : /\ Cardinality(s) \in Nat /\ (Cardinality(s) = 0 <=> s = {})
                          /\ s # {} => /\ One(s) \in s /\ w[One(s)] \in Int /\ s \ {One(s)} \in SUBSET S
                                       /\ Cardinality(s \ {One(s)}) = Cardinality(s) - 1
  BY FS_Subset, FS_CardinalityType, FS_EmptySet, FS_RemoveElement, AnyIsMember
<1>2. Bad = {}
  <2>1. SUFFICES ASSUME Bad # {} PROVE FALSE
    OBVIOUS
  <2>2. PICK n \in Bad : \A k \in Bad : n <= k
    <3>1. Bad \in SUBSET Nat
      OBVIOUS
    <3> HIDE DEF Bad
    <3>2. QED
      BY <2>1, <3>1, Smallest
  <2>3. n # 0
    <3>1. SUFFICES ASSUME n = 0 PROVE FALSE
      OBVIOUS
    <3>2. Good(0, [s \in Upto(0) |-> 0])
      BY <1>1
    <3>3. QED
      BY <2>2, <3>1, <3>2
  <2>4. n \in Nat /\ n - 1 \in Nat /\ n - 1 \notin Bad
    <3> HIDE DEF Has
    <3>1. n \in Nat
      BY <2>2
    <3> HIDE DEF Bad
    <3>2. n - 1 \in Nat
      BY <2>3, <3>1
    <3>3. QED
      BY <2>2, <3>1, <3>2
  <2>5. PICK g : Good(n - 1, g)
    BY <2>4
  <2> DEFINE h == [s \in Upto(n) |-> IF s = {} THEN 0 ELSE w[One(s)] + g[s \ {One(s)}]]
  <2>6. \A s \in Upto(n) : s # {} => s \ {One(s)} \in Upto(n - 1)
    BY <1>1, <2>4
  <2>7. \A s \in Upto(n - 1) : s \in Upto(n) /\ h[s] = g[s]
    BY <1>1, <2>4, <2>5
  <2>8. h \in [Upto(n) -> Int]
    BY <1>1, <2>5, <2>6
  <2>9. ASSUME NEW s \in Upto(n)
        PROVE  h[s] = IF s = {} THEN 0 ELSE w[One(s)] + h[s \ {One(s)}]
    <3>1. h[s] = IF s = {} THEN 0 ELSE w[One(s)] + g[s \ {One(s)}]
      OBVIOUS
    <3>2. s # {} => h[s \ {One(s)}] = g[s \ {One(s)}]
      BY <2>6, <2>7
    <3>3. QED
      BY <3>1, <3>2
  <2>10. Good(n, h)
    BY <2>8, <2>9
  <2>11. QED
    BY <2>2, <2>10
<1>3. Cardinality(S) \in Nat
  BY FS_CardinalityType
<1>4. PICK g : Good(Cardinality(S), g)
  BY <1>2, <1>3
<1>5. Upto(Cardinality(S)) = SUBSET S
  BY FS_Subset
<1>6. g = [s \in SUBSET S |-> IF s = {} THEN 0 ELSE w[One(s)] + g[s \ {One(s)}]]
  BY <1>4, <1>5
<1>7. TakesAny(Sums(w, S), w, S)
  BY <1>6 DEF Sums, TakesAny
\* And no function takes other values than integers.
<1> DEFINE f == Sums(w, S) Odd == {s \in SUBSET S : f[s] \notin Int}
<1>8. DOMAIN f = SUBSET S /\ \A s \in SUBSET S : f[s] = IF s = {} THEN 0 ELSE w[One(s)] + f[s \ {One(s)}]
  BY <1>7 DEF TakesAny
<1>9. Odd = {}
  <2>1. SUFFICES ASSUME Odd # {} PROVE FALSE
    OBVIOUS
  <2>2. Odd \in SUBSET (SUBSET S)
    OBVIOUS
  <2>3. PICK T \in Odd : \A U \in Odd : U \subseteq T => U = T
    <3> HIDE DEF Odd
    <3>1. QED
      BY <2>1, <2>2, SmallestSet
  <2>4. T # {} /\ T \in SUBSET S
    BY <1>8
  <2>5. One(T) \in T /\ T \ {One(T)} \in SUBSET S /\ w[One(T)] \in Int
    BY <1>1, <2>4
  <2>6. T \ {One(T)} \notin Odd
    BY <2>3, <2>5
  <2>7. f[T] = w[One(T)] + f[T \ {One(T)}] /\ f[T \ {One(T)}] \in Int
    BY <1>8, <2>4, <2>5, <2>6
  <2>8. QED
    BY <2>5, <2>7
<1>10. f = [s \in SUBSET S |-> f[s]]
  BY <1>7 DEF TakesAny
<1> HIDE DEF f
<1>11. f \in [SUBSET S -> Int]
  BY <1>9, <1>10
<1>12. QED
  BY <1>7, <1>11 DEF f

\* The same sum, whichever member is taken first.
Adds(f, w, S) ==
    /\ f \in [SUBSET S -> Int] /\ f[{}] = 0
    /\ \A T \in SUBSET S : \A x \in T : w[x] \in Int /\ f[T] = w[x] + f[T \ {x}]

LEMMA AnyOrder ==
    ASSUME NEW S, IsFiniteSet(S), NEW w \in [S -> Int]
    PROVE  Adds(Sums(w, S), w, S)
<1> DEFINE f == Sums(w, S)
           Odd == {T \in SUBSET S : \E x \in T : f[T] # w[x] + f[T \ {x}]}
<1>1. f \in [SUBSET S -> Int] /\ \A s \in SUBSET S : f[s] = IF s = {} THEN 0 ELSE w[One(s)] + f[s \ {One(s)}]
  <2>1. TakesAny(f, w, S) /\ f \in [SUBSET S -> Int]
    BY SumsExist
  <2> HIDE DEF f
  <2>2. f = [s \in SUBSET S |-> IF s = {} THEN 0 ELSE w[One(s)] + f[s \ {One(s)}]]
    BY <2>1 DEF TakesAny
  <2>3. ASSUME NEW s \in SUBSET S
        PROVE  f[s] = IF s = {} THEN 0 ELSE w[One(s)] + f[s \ {One(s)}]
    BY <2>2
  <2>4. QED
    BY <2>1, <2>3
<1> HIDE DEF f
<1>2. Odd = {}
  <2>1. SUFFICES ASSUME Odd # {} PROVE FALSE
    OBVIOUS
  <2>2. PICK T \in Odd : \A U \in Odd : U \subseteq T => U = T
    <3>1. Odd \in SUBSET (SUBSET S)
      OBVIOUS
    <3> HIDE DEF Odd
    <3>2. QED
      BY <2>1, <3>1, SmallestSet
  <2>3. PICK x \in T : f[T] # w[x] + f[T \ {x}]
    BY <2>2
  <2> DEFINE a == One(T)
  <2>4. a \in T /\ T \in SUBSET S /\ f[T] = w[a] + f[T \ {a}]
    BY <1>1, <2>2, <2>3, AnyIsMember
  <2> HIDE DEF a
  <2>5. a # x
    BY <2>3, <2>4
  <2>6. T \ {a} \in SUBSET S /\ T \ {x} \in SUBSET S /\ T \ {a} \notin Odd /\ T \ {x} \notin Odd
    BY <2>2, <2>3, <2>4
  <2>7. f[T \ {a}] = w[x] + f[(T \ {a}) \ {x}] /\ f[T \ {x}] = w[a] + f[(T \ {x}) \ {a}]
    BY <2>3, <2>4, <2>5, <2>6
  <2> DEFINE rest == (T \ {x}) \ {a}
  <2>8. (T \ {a}) \ {x} = rest /\ rest \in SUBSET S
    BY <2>4
  <2>9. f[T \ {a}] = w[x] + f[rest] /\ f[T \ {x}] = w[a] + f[rest]
    BY <2>7, <2>8
  <2> HIDE DEF rest
  <2>10. w[a] \in Int /\ w[x] \in Int /\ f[rest] \in Int
    BY <1>1, <2>3, <2>4, <2>8
  <2>11. QED
    BY <2>3, <2>4, <2>9, <2>10
<1>3. ASSUME NEW T \in SUBSET S, NEW x \in T
      PROVE  w[x] \in Int /\ f[T] = w[x] + f[T \ {x}]
  BY <1>2
<1>4. f[{}] = 0
  BY <1>1
<1>5. QED
  BY <1>1, <1>3, <1>4 DEF Adds, f

\* A claim that holds for the empty set, and for a set if for the set without one
\* of its members.
LEMMA SumsAgree ==
    ASSUME NEW S, IsFiniteSet(S), NEW w, NEW f, Adds(f, w, S),
           NEW U, NEW v, NEW g, Adds(g, v, U),
           NEW A \in SUBSET S, A \subseteq U, \A x \in A : w[x] = v[x]
    PROVE  f[A] = g[A]
<1> DEFINE Odd == {T \in SUBSET A : f[T] # g[T]}
<1>1. SUFFICES ASSUME Odd # {} PROVE FALSE
  OBVIOUS
<1>2. PICK T \in Odd : \A V \in Odd : V \subseteq T => V = T
  <2>1. Odd \in SUBSET (SUBSET S)
    OBVIOUS
  <2> HIDE DEF Odd
  <2>2. QED
    BY <1>1, <2>1, SmallestSet
<1>3. T \in SUBSET S /\ T \in SUBSET U /\ T \in SUBSET A /\ f[T] # g[T]
  BY <1>2
<1>4. PICK x \in T : TRUE
  BY <1>3 DEF Adds
<1>5. T \ {x} \in SUBSET A /\ T \ {x} \notin Odd
  BY <1>2, <1>3, <1>4
<1>6. f[T \ {x}] = g[T \ {x}] /\ w[x] = v[x]
  BY <1>3, <1>4, <1>5
<1>7. f[T] = w[x] + f[T \ {x}] /\ g[T] = v[x] + g[T \ {x}]
  BY <1>3, <1>4 DEF Adds
<1>8. QED
  BY <1>3, <1>6, <1>7

LEMMA SumOfSums ==
    ASSUME NEW S, IsFiniteSet(S), NEW w, NEW f, Adds(f, w, S), NEW v, NEW g, Adds(g, v, S),
           NEW u, NEW h, Adds(h, u, S), \A x \in S : u[x] = w[x] + v[x]
    PROVE  \A A \in SUBSET S : h[A] = f[A] + g[A]
<1> DEFINE Odd == {T \in SUBSET S : h[T] # f[T] + g[T]}
<1>1. SUFFICES ASSUME Odd # {} PROVE FALSE
  OBVIOUS
<1>2. PICK T \in Odd : \A V \in Odd : V \subseteq T => V = T
  <2>1. Odd \in SUBSET (SUBSET S)
    OBVIOUS
  <2> HIDE DEF Odd
  <2>2. QED
    BY <1>1, <2>1, SmallestSet
<1>3. T \in SUBSET S /\ h[T] # f[T] + g[T]
  BY <1>2
<1>4. PICK x \in T : TRUE
  <2>1. f[{}] = 0 /\ g[{}] = 0 /\ h[{}] = 0
    BY DEF Adds
  <2>2. QED
    BY <1>3, <2>1
<1>5. T \ {x} \in SUBSET S /\ T \ {x} \notin Odd
  BY <1>2, <1>3, <1>4
<1>6. h[T \ {x}] = f[T \ {x}] + g[T \ {x}] /\ u[x] = w[x] + v[x]
  BY <1>3, <1>4, <1>5
<1>7. /\ f[T] = w[x] + f[T \ {x}] /\ g[T] = v[x] + g[T \ {x}] /\ h[T] = u[x] + h[T \ {x}]
      /\ w[x] \in Int /\ v[x] \in Int /\ f[T \ {x}] \in Int /\ g[T \ {x}] \in Int
  BY <1>3, <1>4, <1>5 DEF Adds
<1>8. QED
  BY <1>3, <1>6, <1>7

LEMMA SumOfParts ==
    ASSUME NEW S, IsFiniteSet(S), NEW w, NEW f, Adds(f, w, S),
           NEW A \in SUBSET S, NEW B \in SUBSET S, A \cap B = {}
    PROVE  f[A \cup B] = f[A] + f[B]
<1> DEFINE Odd == {T \in SUBSET B : f[A \cup T] # f[A] + f[T]}
<1>1. SUFFICES ASSUME Odd # {} PROVE FALSE
  OBVIOUS
<1>2. PICK T \in Odd : \A V \in Odd : V \subseteq T => V = T
  <2>1. Odd \in SUBSET (SUBSET S)
    OBVIOUS
  <2> HIDE DEF Odd
  <2>2. QED
    BY <1>1, <2>1, SmallestSet
<1>3. T \in SUBSET B /\ T \in SUBSET S /\ f[A \cup T] # f[A] + f[T]
  BY <1>2
<1>4. PICK x \in T : TRUE
  <2>1. ASSUME T = {} PROVE FALSE
    <3>1. A \cup T = A
      BY <2>1
    <3>2. f[T] = 0 /\ f[A] \in Int
      BY <2>1 DEF Adds
    <3>3. f[A \cup T] = f[A]
      BY <3>1
    <3>4. f[A \cup T] # f[A] + f[T]
      BY <1>3
    <3>5. QED
      BY ONLY <3>2, <3>3, <3>4
  <2>2. QED
    BY <2>1
<1>5. T \ {x} \in SUBSET B /\ T \ {x} \in SUBSET S /\ T \ {x} \notin Odd
  BY <1>2, <1>3, <1>4
<1>6. f[A \cup (T \ {x})] = f[A] + f[T \ {x}]
  BY <1>5
<1>7. A \cup T \in SUBSET S /\ x \in A \cup T /\ (A \cup T) \ {x} = A \cup (T \ {x})
  BY <1>3, <1>4
<1>8. /\ f[T] = w[x] + f[T \ {x}] /\ f[A \cup T] = w[x] + f[A \cup (T \ {x})]
      /\ w[x] \in Int /\ f[T \ {x}] \in Int /\ f[A] \in Int
  <2>1. f[A \cup T] = w[x] + f[(A \cup T) \ {x}]
    BY <1>7 DEF Adds
  <2>2. f[T] = w[x] + f[T \ {x}] /\ w[x] \in Int /\ f[T \ {x}] \in Int /\ f[A] \in Int
    BY <1>3, <1>4, <1>5 DEF Adds
  <2>3. QED
    BY <1>7, <2>1, <2>2
<1>9. QED
  BY <1>3, <1>6, <1>8

LEMMA SumAtLeast ==
    ASSUME NEW S, IsFiniteSet(S), NEW w, NEW f, Adds(f, w, S),
           NEW A \in SUBSET S, NEW k \in Nat, \A x \in A : k <= w[x]
    PROVE  k * Cardinality(A) <= f[A]
<1> DEFINE Odd == {T \in SUBSET A : ~(k * Cardinality(T) <= f[T])}
<1>1. SUFFICES ASSUME Odd # {} PROVE FALSE
  BY DEF Adds
<1>2. PICK T \in Odd : \A V \in Odd : V \subseteq T => V = T
  <2>1. Odd \in SUBSET (SUBSET S)
    OBVIOUS
  <2> HIDE DEF Odd
  <2>2. QED
    BY <1>1, <2>1, SmallestSet
<1>3. T \in SUBSET A /\ T \in SUBSET S /\ ~(k * Cardinality(T) <= f[T])
  BY <1>2
<1>4. PICK x \in T : TRUE
  <2>1. ASSUME T = {} PROVE FALSE
    <3>1. Cardinality(T) = 0 /\ f[T] = 0
      BY <2>1, FS_EmptySet DEF Adds
    <3>2. QED
      BY <1>3, <3>1
  <2>2. QED
    BY <2>1
<1>5. T \ {x} \in SUBSET A /\ T \ {x} \in SUBSET S /\ T \ {x} \notin Odd
  BY <1>2, <1>3, <1>4
<1>6. k * Cardinality(T \ {x}) <= f[T \ {x}] /\ k <= w[x]
  BY <1>3, <1>4, <1>5
<1>7. Cardinality(T) \in Nat /\ Cardinality(T \ {x}) = Cardinality(T) - 1
  BY <1>3, <1>4, FS_Subset, FS_CardinalityType, FS_RemoveElement
<1>8. f[T] = w[x] + f[T \ {x}] /\ w[x] \in Int /\ f[T \ {x}] \in Int
  BY <1>3, <1>4, <1>5 DEF Adds
<1> DEFINE c == Cardinality(T)
<1>9. c \in Nat /\ k * (c - 1) <= f[T \ {x}] /\ ~(k * c <= w[x] + f[T \ {x}])
  BY <1>3, <1>6, <1>7, <1>8
<1> HIDE DEF c
<1>10. k * c = k * (c - 1) + k
  BY <1>9
<1>11. k * c \in Int /\ k * (c - 1) \in Int
  BY <1>9
<1>12. QED
  BY <1>6, <1>8, <1>9, <1>10, <1>11

\* Equal weights give equal sums.
LEMMA EqualWeights ==
    ASSUME NEW S, NEW w, NEW v, \A x \in S : w[x] = v[x]
    PROVE  Total(w, S) = Total(v, S)
<1>1. ASSUME NEW g
      PROVE  [s \in SUBSET S |-> IF s = {} THEN 0 ELSE w[One(s)] + g[s \ {One(s)}]]
             = [s \in SUBSET S |-> IF s = {} THEN 0 ELSE v[One(s)] + g[s \ {One(s)}]]
  <2>1. \A s \in SUBSET S : s # {} => w[One(s)] = v[One(s)]
    BY AnyIsMember
  <2>2. QED
    BY <2>1
<1>2. Sums(w, S) = Sums(v, S)
  BY <1>1 DEF Sums
<1>3. QED
  BY <1>2 DEF Total

-----------------------------------------------------------------------------
(* The sums of the page.                                                   *)

Loss(m) == [i \in incs |-> DaysDown(i, m) * Weight(i)]
Claim(m) == [i \in incs |-> ReasonWeight(i, m)]

LEMMA DowntimeIsSum == \A n, m : Downtime(n, m) = Total(Loss(m), Reasons(n, m))
<1> SUFFICES ASSUME NEW n, NEW m PROVE Downtime(n, m) = Total(Loss(m), Reasons(n, m))
  OBVIOUS
<1> DEFINE R == Reasons(n, m)
<1>1. R \subseteq incs
  BY DEF Reasons, Counted
<1>2. Downtime(n, m) = (CHOOSE g : g = [s \in SUBSET R |-> IF s = {} THEN 0
          ELSE DaysDown(One(s), m) * Weight(One(s)) + g[s \ {One(s)}]])[R]
  BY DEF Downtime, Reasons, MapThenSumSet, MapThenFoldSet, One
<1> HIDE DEF R
<1>3. ASSUME NEW g
      PROVE  [s \in SUBSET R |-> IF s = {} THEN 0 ELSE DaysDown(One(s), m) * Weight(One(s)) + g[s \ {One(s)}]]
             = [s \in SUBSET R |-> IF s = {} THEN 0 ELSE Loss(m)[One(s)] + g[s \ {One(s)}]]
  <2>1. \A s \in SUBSET R : s # {} => Loss(m)[One(s)] = DaysDown(One(s), m) * Weight(One(s))
    BY <1>1, AnyIsMember DEF Loss
  <2>2. QED
    BY <2>1
<1> DEFINE w == Loss(m)
<1>4. Total(w, R) = (CHOOSE g : g = [s \in SUBSET R |-> IF s = {} THEN 0 ELSE w[One(s)] + g[s \ {One(s)}]])[R]
  BY DEF Total, Sums
<1>5. \A g : [s \in SUBSET R |-> IF s = {} THEN 0 ELSE DaysDown(One(s), m) * Weight(One(s)) + g[s \ {One(s)}]]
             = [s \in SUBSET R |-> IF s = {} THEN 0 ELSE w[One(s)] + g[s \ {One(s)}]]
  BY <1>3
<1> HIDE DEF w
<1>6. (CHOOSE g : g = [s \in SUBSET R |-> IF s = {} THEN 0 ELSE DaysDown(One(s), m) * Weight(One(s)) + g[s \ {One(s)}]])
      = (CHOOSE g : g = [s \in SUBSET R |-> IF s = {} THEN 0 ELSE w[One(s)] + g[s \ {One(s)}]])
  BY ONLY <1>5
<1>7. QED
  BY <1>2, <1>4, <1>6 DEF R, w

LEMMA ClaimIsSum ==
    \A n, m : LET Owed(i) == ReasonWeight(i, m) IN
              MapThenSumSet(Owed, Reasons(n, m)) = Total(Claim(m), Reasons(n, m))
<1> SUFFICES ASSUME NEW n, NEW m
             PROVE  LET Owed(i) == ReasonWeight(i, m) IN
                    MapThenSumSet(Owed, Reasons(n, m)) = Total(Claim(m), Reasons(n, m))
  OBVIOUS
<1> DEFINE Owed(i) == ReasonWeight(i, m)
           R == Reasons(n, m)
<1>1. R \subseteq incs
  BY DEF Reasons, Counted
<1> HIDE DEF R
<1>2. MapThenSumSet(Owed, R) = (CHOOSE g : g = [s \in SUBSET R |-> IF s = {} THEN 0
          ELSE ReasonWeight(One(s), m) + g[s \ {One(s)}]])[R]
  BY DEF MapThenSumSet, MapThenFoldSet, One
<1>3. ASSUME NEW g
      PROVE  [s \in SUBSET R |-> IF s = {} THEN 0 ELSE ReasonWeight(One(s), m) + g[s \ {One(s)}]]
             = [s \in SUBSET R |-> IF s = {} THEN 0 ELSE Claim(m)[One(s)] + g[s \ {One(s)}]]
  <2>1. \A s \in SUBSET R : s # {} => Claim(m)[One(s)] = ReasonWeight(One(s), m)
    BY <1>1, AnyIsMember DEF Claim
  <2>2. QED
    BY <2>1
<1> DEFINE w == Claim(m)
<1>4. Total(w, R) = (CHOOSE g : g = [s \in SUBSET R |-> IF s = {} THEN 0 ELSE w[One(s)] + g[s \ {One(s)}]])[R]
  BY DEF Total, Sums
<1>5. \A g : [s \in SUBSET R |-> IF s = {} THEN 0 ELSE ReasonWeight(One(s), m) + g[s \ {One(s)}]]
             = [s \in SUBSET R |-> IF s = {} THEN 0 ELSE w[One(s)] + g[s \ {One(s)}]]
  BY <1>3
<1> HIDE DEF w
<1>6. (CHOOSE g : g = [s \in SUBSET R |-> IF s = {} THEN 0 ELSE ReasonWeight(One(s), m) + g[s \ {One(s)}]])
      = (CHOOSE g : g = [s \in SUBSET R |-> IF s = {} THEN 0 ELSE w[One(s)] + g[s \ {One(s)}]])
  BY ONLY <1>5
<1>7. QED
  BY <1>2, <1>4, <1>6 DEF R, w

\* The reasons of a breach and the downtime they explain come from two copies of
\* one computation (crud.py get_sla_breach_reasons and get_sla_for_month), and
\* give the same sum for every set of incidents of the two higher severities.
LEMMA ReasonsAddUp == ReasonsAccount
<1> SUFFICES ASSUME NEW n \in Affected, NEW m \in Months,
                    \A i \in Reasons(n, m) : i.kind.severity \in {"critical", "high"}
             PROVE  LET Owed(i) == ReasonWeight(i, m) IN
                    MapThenSumSet(Owed, Reasons(n, m)) = Downtime(n, m)
  BY DEF ReasonsAccount
<1>1. Reasons(n, m) \subseteq incs
  BY DEF Reasons, Counted
<1>2. \A i \in Reasons(n, m) : Claim(m)[i] = Loss(m)[i]
  BY <1>1 DEF Claim, Loss, ReasonWeight
<1>3. Total(Claim(m), Reasons(n, m)) = Total(Loss(m), Reasons(n, m))
  BY <1>2, EqualWeights
<1>4. QED
  BY <1>3, ClaimIsSum, DowntimeIsSum

\* The reasons an operator is shown for a breach account for the whole downtime of
\* the month, whatever the incidents, unless one of lower severity caused some of
\* it.
THEOREM ReasonsAccountAlways == Spec => []ReasonsAccount
  BY ReasonsAddUp, PTL

-----------------------------------------------------------------------------
(* Days and months.                                                        *)

LEMMA TotalIn ==
    ASSUME NEW U, IsFiniteSet(U), NEW w \in [U -> Int], NEW S \in SUBSET U
    PROVE  Total(w, S) = Sums(w, U)[S] /\ Total(w, S) \in Int
<1> DEFINE v == [x \in S |-> w[x]]
<1>1. v \in [S -> Int] /\ (\A x \in S : w[x] = v[x]) /\ IsFiniteSet(S)
  BY FS_Subset
<1> HIDE DEF v
<1>2. Adds(Sums(v, S), v, S) /\ Adds(Sums(w, U), w, U)
  BY <1>1, AnyOrder
<1>3. Sums(v, S)[S] = Sums(w, U)[S]
  BY <1>1, <1>2, SumsAgree
<1>4. Total(w, S) = Total(v, S)
  BY <1>1, EqualWeights
<1>5. Sums(v, S)[S] \in Int
  BY <1>2 DEF Adds
<1>6. QED
  BY <1>3, <1>4, <1>5 DEF Total

LEMMA EarliestOfTwo ==
    ASSUME NEW a \in Int, NEW b \in Int
    PROVE  Earliest({a, b}) = (IF a <= b THEN a ELSE b)
<1>1. \E d \in {a, b} : \A e \in {a, b} : d <= e
  OBVIOUS
<1>2. Earliest({a, b}) \in {a, b} /\ \A e \in {a, b} : Earliest({a, b}) <= e
  BY <1>1 DEF Earliest
<1>3. QED
  BY <1>2

LEMMA LatestOfTwo ==
    ASSUME NEW a \in Int, NEW b \in Int
    PROVE  Latest({a, b}) = (IF a <= b THEN b ELSE a)
<1>1. \E d \in {a, b} : \A e \in {a, b} : e <= d
  OBVIOUS
<1>2. Latest({a, b}) \in {a, b} /\ \A e \in {a, b} : e <= Latest({a, b})
  BY <1>1 DEF Latest
<1>3. QED
  BY <1>2

\* Incidents are counted, and what they lose is.
Month == [first: Nat, last: Nat]
First(i, m) == IF i.from <= m.first THEN m.first ELSE i.from
Final(i, m) == IF i.to = NoEnd \/ m.last <= i.to THEN m.last ELSE i.to

LEMMA IncFacts ==
    ASSUME IncsInv, NEW i \in incs
    PROVE  i.from \in Nat /\ (i.to = NoEnd \/ i.to \in Nat) /\ i.changed \in Nat
  BY EventsAssumption DEF IncsInv, IncType, Days

LEMMA DaysDownIs ==
    ASSUME IncsInv, NEW i \in incs, NEW m \in Month
    PROVE  /\ First(i, m) \in Nat /\ Final(i, m) \in Nat
           /\ DaysDown(i, m) = Final(i, m) - First(i, m) + 1
<1>1. i.from \in Nat /\ (i.to = NoEnd \/ i.to \in Nat) /\ m.first \in Nat /\ m.last \in Nat
  BY IncFacts DEF Month
<1>2. SlaEnd(i, m) \in Nat
  BY <1>1 DEF SlaEnd
<1>3. /\ Earliest({SlaEnd(i, m), m.last}) = IF SlaEnd(i, m) <= m.last THEN SlaEnd(i, m) ELSE m.last
      /\ Latest({i.from, m.first}) = IF i.from <= m.first THEN m.first ELSE i.from
  BY <1>1, <1>2, EarliestOfTwo, LatestOfTwo
<1>4. Earliest({SlaEnd(i, m), m.last}) = Final(i, m)
  BY <1>1, <1>3 DEF SlaEnd, Final
<1>5. QED
  BY <1>1, <1>3, <1>4 DEF DaysDown, First, Final

LEMMA WeightIs == \A i : Weight(i) \in {1, 2}
  BY DEF Weight

LEMMA LossType ==
    ASSUME IncsInv, NEW m \in Month
    PROVE  Loss(m) \in [incs -> Int]
<1>1. ASSUME NEW i \in incs
      PROVE  DaysDown(i, m) * Weight(i) \in Int
  <2>1. DaysDown(i, m) \in Int /\ Weight(i) \in {1, 2}
    BY DaysDownIs, WeightIs
  <2>2. QED
    BY <2>1
<1>2. QED
  BY <1>1 DEF Loss

\* A counted incident lasts a day of the month at least.
LEMMA CountedLasts ==
    ASSUME IncsInv, NEW n, NEW m \in Month, m.first <= m.last, Forward(n), NEW i \in Reasons(n, m)
    PROVE  i \in incs /\ DaysDown(i, m) \in Nat \ {0} /\ Loss(m)[i] \in Nat
<1>1. i \in incs /\ i.of = n /\ (i.to = NoEnd \/ i.to >= m.first) /\ i.from <= m.last
  BY DEF Reasons, Counted
<1>2. /\ i.from \in Nat /\ (i.to = NoEnd \/ i.to \in Nat) /\ m.first \in Nat /\ m.last \in Nat
      /\ i.to = NoEnd \/ i.from <= i.to
  BY <1>1, IncFacts DEF Month, Forward
<1>3. DaysDown(i, m) \in Nat \ {0}
  BY <1>1, <1>2, DaysDownIs DEF First, Final
<1>4. Loss(m)[i] = DaysDown(i, m) * Weight(i) /\ Weight(i) \in {1, 2}
  BY <1>1, WeightIs DEF Loss
<1>5. QED
  BY <1>1, <1>3, <1>4

LEMMA DowntimeType ==
    ASSUME IncsInv, IsFiniteSet(incs), NEW n, NEW m \in Month
    PROVE  /\ Downtime(n, m) \in Int
           /\ Downtime(n, m) = Sums(Loss(m), incs)[Reasons(n, m)]
           /\ Adds(Sums(Loss(m), incs), Loss(m), incs)
           /\ (Forward(n) /\ m.first <= m.last) => Downtime(n, m) >= 0
<1> DEFINE w == Loss(m) R == Reasons(n, m) f == Sums(w, incs)
<1>1. w \in [incs -> Int] /\ R \in SUBSET incs
  BY LossType DEF Reasons, Counted
<1>2. Downtime(n, m) = Total(w, R)
  BY DowntimeIsSum
<1>3. (Forward(n) /\ m.first <= m.last) => \A i \in R : 0 <= w[i]
  BY CountedLasts
<1> HIDE DEF w, R
<1>4. Adds(f, w, incs) /\ Total(w, R) = f[R] /\ f[R] \in Int
  BY <1>1, AnyOrder, TotalIn
<1> HIDE DEF f
<1>5. (Forward(n) /\ m.first <= m.last) => 0 * Cardinality(R) <= f[R]
  BY <1>1, <1>3, <1>4, SumAtLeast
<1>6. Cardinality(R) \in Nat
  BY <1>1, FS_Subset, FS_CardinalityType
<1>7. (Forward(n) /\ m.first <= m.last) => Downtime(n, m) >= 0
  BY <1>2, <1>4, <1>5, <1>6
<1>8. QED
  BY <1>2, <1>4, <1>7 DEF w, R, f

\* There are finitely many incidents.
LEMMA FiniteStart == Init => IsFiniteSet(incs)
<1> SUFFICES ASSUME Init PROVE IsFiniteSet(incs)
  OBVIOUS
<1>1. incs = {} \/ \E i : incs = {i}
  BY DEF Init
<1>2. QED
  BY <1>1, FS_EmptySet, FS_Singleton

LEMMA FiniteStep == IsFiniteSet(incs) /\ [Next]_pageVars => IsFiniteSet(incs')
<1> SUFFICES ASSUME IsFiniteSet(incs), [Next]_pageVars
             PROVE  IsFiniteSet(incs')
  OBVIOUS
<1>1. \E new : incs' \subseteq incs \cup {new}
  BY DEF Next, pageVars, Report, CreateMaintenance, Added, Resolve, Reopen, Suppress, Change1
<1>2. PICK new : incs' \subseteq incs \cup {new}
  BY <1>1
<1>3. IsFiniteSet(incs \cup {new})
  BY FS_AddElement
<1>4. QED
  BY <1>2, <1>3, FS_Subset

-----------------------------------------------------------------------------
(* The SLA of a month and its bars.                                        *)

\* Each day that is short of its score is charged to an incident that allows for
\* it, and no incident is charged more than it loses.
Charges(P, c, score, w, W, R) ==
    /\ \A i \in R : P[i] \in SUBSET W /\ c[i] \in {1, 2} /\ c[i] * Cardinality(P[i]) <= w[i]
    /\ \A i \in R : \A d \in P[i] : score[d] >= 2 - c[i]
    /\ \A d \in W : score[d] >= 2 \/ \E i \in R : d \in P[i]

LEMMA AtMostCharged ==
    ASSUME NEW W, IsFiniteSet(W), NEW score, NEW f, Adds(f, score, W),
           NEW R, IsFiniteSet(R), NEW w, NEW h, Adds(h, w, R),
           NEW P, NEW c, Charges(P, c, score, w, W, R)
    PROVE  2 * Cardinality(W) - f[W] <= h[R]
<1> DEFINE Covered(D, X) == \A d \in D : score[d] >= 2 \/ \E i \in X : d \in P[i]
           Fits(D, X) == 2 * Cardinality(D) - f[D] <= h[X]
           Odd == {X \in SUBSET R : \E D \in SUBSET W : Covered(D, X) /\ ~Fits(D, X)}
<1>1. \A D \in SUBSET W : IsFiniteSet(D) /\ Cardinality(D) \in Nat /\ f[D] \in Int
  BY FS_Subset, FS_CardinalityType DEF Adds
<1>2. \A X \in SUBSET R : h[X] \in Int
  BY DEF Adds
<1>3. Odd = {}
  <2>1. SUFFICES ASSUME Odd # {} PROVE FALSE
    OBVIOUS
  <2>2. PICK X \in Odd : \A Y \in Odd : Y \subseteq X => Y = X
    <3>1. Odd \in SUBSET (SUBSET R)
      OBVIOUS
    <3> HIDE DEF Odd
    <3>2. QED
      BY <2>1, <3>1, SmallestSet
  <2>3. X \in SUBSET R /\ \E D \in SUBSET W : Covered(D, X) /\ ~Fits(D, X)
    BY <2>2
  <2>4. PICK D \in SUBSET W : Covered(D, X) /\ ~Fits(D, X)
    BY <2>3
  <2>5. X # {}
    <3>1. SUFFICES ASSUME X = {} PROVE Fits(D, X)
      BY <2>4
    <3>2. \A d \in D : 2 <= score[d]
      <4>1. ASSUME NEW d \in D PROVE 2 <= score[d]
        <5>1. score[d] >= 2
          BY <2>4, <3>1
        <5>2. score[d] \in Int
          BY <2>4 DEF Adds
        <5>3. QED
          BY <5>1, <5>2
      <4>2. QED
        BY <4>1
    <3>3. 2 * Cardinality(D) <= f[D]
      BY <3>2, SumAtLeast
    <3>4. h[X] = 0
      BY <3>1 DEF Adds
    <3>5. QED
      BY <1>1, <3>3, <3>4
  <2>6. PICK i \in X : TRUE
    BY <2>5
  <2>7. i \in R /\ X \ {i} \in SUBSET R /\ X \ {i} \notin Odd
    BY <2>2, <2>3, <2>6
  <2> DEFINE own == D \cap P[i]
             rest == D \ P[i]
  <2>8. own \in SUBSET W /\ rest \in SUBSET W /\ own \cap rest = {} /\ own \cup rest = D /\ own \subseteq P[i]
    BY <2>4
  <2>9. Covered(rest, X \ {i})
    BY <2>4, <2>6
  <2>10. Fits(rest, X \ {i})
    BY <2>7, <2>8, <2>9
  <2>11. h[X] = w[i] + h[X \ {i}] /\ w[i] \in Int
    BY <2>3, <2>6 DEF Adds
  <2>12. f[D] = f[own] + f[rest]
    <3> HIDE DEF own, rest
    <3>1. f[own \cup rest] = f[own] + f[rest]
      BY <2>8, SumOfParts
    <3>2. QED
      BY <2>8, <3>1
  <2>13. Cardinality(D) = Cardinality(own) + Cardinality(rest)
    <3> HIDE DEF own, rest
    <3>1. IsFiniteSet(own) /\ IsFiniteSet(rest) /\ Cardinality(own) \in Nat /\ Cardinality(rest) \in Nat
      BY <1>1, <2>8
    <3>2. Cardinality(own \cup rest) = Cardinality(own) + Cardinality(rest) - Cardinality(own \cap rest)
      BY <3>1, FS_Union
    <3>3. Cardinality(own \cap rest) = 0
      BY <2>8, FS_EmptySet
    <3>4. own \cup rest = D
      BY <2>8
    <3>5. Cardinality(D) = Cardinality(own) + Cardinality(rest) - 0
      BY ONLY <3>2, <3>3, <3>4
    <3>6. QED
      BY ONLY <3>1, <3>5
  <2>14. 2 * Cardinality(own) - f[own] <= w[i]
    <3>1. /\ c[i] \in {1, 2} /\ c[i] * Cardinality(P[i]) <= w[i] /\ P[i] \in SUBSET W
          /\ \A d \in P[i] : score[d] >= 2 - c[i]
      BY <2>7 DEF Charges
    <3>2. Cardinality(own) <= Cardinality(P[i]) /\ Cardinality(P[i]) \in Nat
      BY <1>1, <2>8, <3>1, FS_Subset
    <3>3. (2 - c[i]) * Cardinality(own) <= f[own]
      <4>1. 2 - c[i] \in Nat
        BY <3>1
      <4>2. \A d \in own : 2 - c[i] <= score[d]
        <5>1. ASSUME NEW d \in own PROVE 2 - c[i] <= score[d]
          <6>1. score[d] >= 2 - c[i]
            BY <2>8, <3>1
          <6>2. score[d] \in Int
            BY <2>4, <2>8 DEF Adds
          <6>3. QED
            BY <3>1, <6>1, <6>2
        <5>2. QED
          BY <5>1
      <4> HIDE DEF own
      <4>3. QED
        BY <2>8, <4>1, <4>2, SumAtLeast
    <3>4. Cardinality(own) \in Nat /\ f[own] \in Int /\ w[i] \in Int
      BY <1>1, <2>8, <2>11
    <3> HIDE DEF own
    <3>5. CASE c[i] = 1
      BY <3>1, <3>2, <3>3, <3>4, <3>5
    <3>6. CASE c[i] = 2
      BY <3>1, <3>2, <3>3, <3>4, <3>6
    <3>7. QED
      BY <3>1, <3>5, <3>6
  <2>15. Fits(D, X)
    <3>1. Cardinality(own) \in Nat /\ Cardinality(rest) \in Nat /\ f[own] \in Int /\ f[rest] \in Int
      BY <1>1, <2>8
    <3>2. h[X \ {i}] \in Int
      BY <1>2, <2>7
    <3> HIDE DEF own, rest
    <3>3. QED
      BY <2>10, <2>11, <2>12, <2>13, <2>14, <3>1, <3>2
  <2>16. QED
    BY <2>4, <2>15
<1>4. Covered(W, R)
  BY DEF Charges
<1>5. Fits(W, R)
  BY <1>3, <1>4
<1>6. QED
  BY <1>5

Painting(n, d) ==
    {i \in incs : /\ i.of = n /\ i.kind.class = "incident" /\ ~i.suppressed
                  /\ i.from <= d /\ d <= BarEnd(i)}

LEMMA CleanBar ==
    ASSUME NEW n, NEW d, status[n][d] \in {"operational", Silent}
    PROVE  Bar(n, d) = IF Painting(n, d) = {} THEN "operational"
                       ELSE IF \E i \in Painting(n, d) : i.kind.severity = "critical" THEN "interrupted"
                       ELSE "degraded"
<1> DEFINE row == IF status[n][d] = Silent THEN "operational" ELSE status[n][d]
           worst == IF \E i \in Painting(n, d) : BarStatus(i) = "interrupted" THEN "interrupted" ELSE "degraded"
<1>1. row = "operational"
  OBVIOUS
<1>2. Bar(n, d) = IF Painting(n, d) = {} THEN row ELSE Worse(row, worst)
  BY DEF Bar, Painting
<1>3. worst = IF \E i \in Painting(n, d) : i.kind.severity = "critical" THEN "interrupted" ELSE "degraded"
  BY DEF BarStatus
<1>4. worst \in {"interrupted", "degraded"}
  OBVIOUS
<1> HIDE DEF row, worst
<1>5. Worse(row, worst) = worst
  BY <1>1, <1>4 DEF Worse, Rank
<1>6. QED
  BY <1>1, <1>2, <1>3, <1>5

\* An incident with bars in a month is counted in it, at least for their days.
LEMMA PaintedIsCounted ==
    ASSUME IncsInv, NEW n, NEW m \in Month, Forward(n), day \in Nat,
           NEW d \in Nat, m.first <= d, d <= m.last, d <= day, NEW i \in Painting(n, d)
    PROVE  i \in Reasons(n, m) /\ First(i, m) <= d /\ d <= Final(i, m)
<1>1. i \in incs /\ i.of = n /\ i.kind.class = "incident" /\ ~i.suppressed /\ i.from <= d /\ d <= BarEnd(i)
  BY DEF Painting
<1>2. /\ i.from \in Nat /\ (i.to = NoEnd \/ i.to \in Nat) /\ i.changed \in Nat
      /\ m.first \in Nat /\ m.last \in Nat /\ (i.to = NoEnd \/ i.from <= i.to)
  BY <1>1, IncFacts DEF Month, Forward
<1> DEFINE last == IF i.to # NoEnd THEN i.to ELSE IF i.resolved THEN i.changed ELSE day
<1>3. last \in Nat /\ (i.to # NoEnd => last = i.to)
  BY <1>2
<1>4. BarEnd(i) = Latest({i.from, last})
  BY DEF BarEnd
<1> HIDE DEF last
<1>5. BarEnd(i) = IF i.from <= last THEN last ELSE i.from
  BY <1>2, <1>3, <1>4, LatestOfTwo
<1>6. i.to # NoEnd => d <= i.to
  BY <1>1, <1>2, <1>3, <1>5
<1>7. "incident" \notin Excluded
  BY PageAssumption
<1>8. i \in Reasons(n, m)
  BY <1>1, <1>2, <1>6, <1>7 DEF Reasons, Counted
<1>9. First(i, m) <= d /\ d <= Final(i, m)
  BY <1>1, <1>2, <1>6 DEF First, Final
<1>10. QED
  BY <1>8, <1>9

Scores(n, D) ==
    [d \in D |-> CASE Bar(n, d) = "operational" -> 2 [] Bar(n, d) = "degraded" -> 1 [] OTHER -> 0]

\* Clean days all have a weight.
LEMMA UptimeOfClean ==
    ASSUME NEW n, NEW D, \A d \in D : status[n][d] \in {"operational", Silent}
    PROVE  Uptime(n, D).total = Cardinality(D) /\ Uptime(n, D).score = Total(Scores(n, D), D)
<1> DEFINE bar == [d \in D |-> Bar(n, d)]
           weighted == {d \in D : bar[d] \in {"operational", "degraded", "interrupted"}}
           Score(d) == CASE bar[d] = "operational" -> 2 [] bar[d] = "degraded" -> 1 [] OTHER -> 0
           w == Scores(n, D)
<1>1. \A d \in D : bar[d] = Bar(n, d) /\ Bar(n, d) \in {"operational", "degraded", "interrupted"}
  BY CleanBar
<1>2. weighted = D
  BY <1>1
<1>3. Uptime(n, D) = [total |-> Cardinality(weighted), score |-> MapThenSumSet(Score, weighted)]
  BY DEF Uptime
<1>4. \A d \in D : w[d] = Score(d)
  BY <1>1 DEF Scores
<1>5. \A s \in SUBSET D : s # {} => w[One(s)] = Score(One(s))
  BY <1>4, AnyIsMember
<1> HIDE DEF bar, weighted
<1>6. MapThenSumSet(Score, D) = (CHOOSE g : g = [s \in SUBSET D |-> IF s = {} THEN 0
          ELSE Score(One(s)) + g[s \ {One(s)}]])[D]
  BY DEF MapThenSumSet, MapThenFoldSet, One
<1>7. Total(w, D) = (CHOOSE g : g = [s \in SUBSET D |-> IF s = {} THEN 0 ELSE w[One(s)] + g[s \ {One(s)}]])[D]
  BY DEF Total, Sums
<1> HIDE DEF w, Score
<1>8. \A g : [s \in SUBSET D |-> IF s = {} THEN 0 ELSE Score(One(s)) + g[s \ {One(s)}]]
             = [s \in SUBSET D |-> IF s = {} THEN 0 ELSE w[One(s)] + g[s \ {One(s)}]]
  BY <1>5
<1>9. (CHOOSE g : g = [s \in SUBSET D |-> IF s = {} THEN 0 ELSE Score(One(s)) + g[s \ {One(s)}]])
      = (CHOOSE g : g = [s \in SUBSET D |-> IF s = {} THEN 0 ELSE w[One(s)] + g[s \ {One(s)}]])
  BY ONLY <1>8
<1>10. MapThenSumSet(Score, D) = Total(w, D)
  BY <1>6, <1>7, <1>9
<1>11. Uptime(n, D).total = Cardinality(weighted) /\ Uptime(n, D).score = MapThenSumSet(Score, weighted)
  BY <1>3
<1>12. QED
  BY <1>2, <1>10, <1>11 DEF w

LEMMA ChargedToIncidents ==
    ASSUME IncsInv, day \in Nat, NEW n, NEW m \in Month, m.first <= m.last, Forward(n),
           NEW D \in SUBSET Nat, IsFiniteSet(D),
           \A d \in D : /\ m.first <= d /\ d <= m.last /\ d <= day
                        /\ status[n][d] \in {"operational", Silent}
    PROVE  \E P, c : Charges(P, c, Scores(n, D), Loss(m), D, Reasons(n, m))
<1> DEFINE R == Reasons(n, m)
           score == Scores(n, D)
           c == [i \in R |-> Weight(i)]
           P == [i \in R |-> {d \in D : i \in Painting(n, d) /\ score[d] >= 2 - Weight(i)}]
<1>1. ASSUME NEW i \in R
      PROVE  P[i] \in SUBSET D /\ c[i] \in {1, 2} /\ c[i] * Cardinality(P[i]) <= Loss(m)[i]
  <2> DEFINE days == P[i] a == First(i, m) b == Final(i, m)
  <2>1. i \in incs
    BY DEF Reasons, Counted
  <2>2. a \in Nat /\ b \in Nat /\ DaysDown(i, m) = b - a + 1 /\ Loss(m)[i] = DaysDown(i, m) * Weight(i)
    BY <2>1, DaysDownIs DEF Loss
  <2>3. days \in SUBSET D /\ \A d \in days : i \in Painting(n, d)
    OBVIOUS
  <2> HIDE DEF days, a, b
  <2>4. \A d \in days : d \in Nat /\ a <= d /\ d <= b
    <3>1. ASSUME NEW d \in days
          PROVE  a <= d /\ d <= b
      <4>1. d \in Nat /\ m.first <= d /\ d <= m.last /\ d <= day /\ i \in Painting(n, d)
        BY <2>3
      <4>2. QED
        BY <4>1, PaintedIsCounted DEF a, b
    <3>2. QED
      BY <2>3, <3>1
  <2>5. days \in SUBSET (a..b)
    BY <2>2, <2>4
  <2>6. IsFiniteSet(a..b) /\ Cardinality(a..b) = IF a > b THEN 0 ELSE b - a + 1
    BY <2>2, FS_Interval
  <2>7. Cardinality(days) \in Nat /\ Cardinality(days) <= Cardinality(a..b)
    BY <2>5, <2>6, FS_Subset, FS_CardinalityType
  <2>8. Weight(i) \in {1, 2} /\ c[i] = Weight(i)
    BY WeightIs
  <2>9. DaysDown(i, m) \in Nat
    BY CountedLasts
  <2>10. Cardinality(days) <= DaysDown(i, m)
    BY <2>2, <2>6, <2>7, <2>9
  <2>11. Weight(i) * Cardinality(days) <= DaysDown(i, m) * Weight(i)
    BY <2>7, <2>8, <2>9, <2>10
  <2>12. QED
    BY <2>2, <2>3, <2>8, <2>11 DEF days
<1>2. \A i \in R : \A d \in P[i] : score[d] >= 2 - c[i]
  OBVIOUS
<1>3. ASSUME NEW d \in D
      PROVE  score[d] >= 2 \/ \E i \in R : d \in P[i]
  <2>1. score[d] = CASE Bar(n, d) = "operational" -> 2 [] Bar(n, d) = "degraded" -> 1 [] OTHER -> 0
    BY DEF Scores
  <2>2. Bar(n, d) = IF Painting(n, d) = {} THEN "operational"
                    ELSE IF \E i \in Painting(n, d) : i.kind.severity = "critical" THEN "interrupted"
                    ELSE "degraded"
    BY CleanBar
  <2>3. \A i \in Painting(n, d) : i \in R
    BY PaintedIsCounted
  <2>4. CASE Painting(n, d) = {}
    BY <2>1, <2>2, <2>4
  <2>5. ASSUME NEW i \in Painting(n, d), i.kind.severity = "critical"
        PROVE  \E j \in R : d \in P[j]
    <3>1. score[d] = 0 /\ Weight(i) = 2
      BY <2>1, <2>2, <2>5 DEF Weight
    <3>2. d \in P[i]
      BY <2>3, <3>1
    <3>3. QED
      BY <2>3, <3>2
  <2>6. ASSUME NEW i \in Painting(n, d), ~\E j \in Painting(n, d) : j.kind.severity = "critical"
        PROVE  \E j \in R : d \in P[j]
    <3>1. score[d] = 1 /\ Weight(i) \in {1, 2}
      BY <2>1, <2>2, <2>6, WeightIs
    <3>2. d \in P[i]
      BY <2>3, <3>1
    <3>3. QED
      BY <2>3, <3>2
  <2>7. QED
    BY <2>4, <2>5, <2>6
<1> HIDE DEF R, score, c, P
<1>4. Charges(P, c, score, Loss(m), D, R)
  BY <1>1, <1>2, <1>3 DEF Charges
<1>5. QED
  BY <1>4 DEF R, score

LEMMA BarsCovered ==
    ASSUME IncsInv, day \in Nat, IsFiniteSet(incs)
    PROVE  SlaCoversBars
<1> SUFFICES ASSUME NEW n \in Affected, NEW m \in Months, Forward(n)
             PROVE  LET shown == Uptime(n, CleanDays(n, m)) IN
                    /\ Downtime(n, m) >= 2 * shown.total - shown.score
                    /\ Available(n, m) <= 2 * Length(m)
  BY DEF SlaCoversBars
<1> DEFINE D == CleanDays(n, m)
           R == Reasons(n, m)
           w == Loss(m)
           score == Scores(n, D)
<1>1. m \in Month /\ m.first \in Nat /\ m.last \in Nat /\ m.first <= m.last
  BY PageAssumption DEF Month
<1>2. /\ D \in SUBSET Nat /\ D \subseteq 0..LastDay
      /\ \A d \in D : /\ m.first <= d /\ d <= m.last /\ d <= day
                      /\ status[n][d] \in {"operational", Silent}
  BY EventsAssumption DEF CleanDays, Days
<1> HIDE DEF D
<1>3. IsFiniteSet(D)
  <2>1. IsFiniteSet(0..LastDay)
    BY EventsAssumption, FS_Interval
  <2>2. QED
    BY <1>2, <2>1, FS_Subset
<1>4. PICK P, c : Charges(P, c, score, w, D, R)
  BY <1>1, <1>2, <1>3, ChargedToIncidents
<1>5. Uptime(n, D).total = Cardinality(D) /\ Uptime(n, D).score = Total(score, D)
  BY <1>2, UptimeOfClean
<1>6. Adds(Sums(score, D), score, D)
  <2>1. score \in [D -> Int]
    BY DEF Scores
  <2> HIDE DEF score
  <2>2. QED
    BY <1>3, <2>1, AnyOrder
<1>7. w \in [incs -> Int] /\ R \in SUBSET incs
  BY <1>1, LossType DEF Reasons, Counted
<1>8. Downtime(n, m) = Total(w, R) /\ Downtime(n, m) >= 0 /\ Downtime(n, m) \in Int
  BY <1>1, DowntimeIsSum, DowntimeType
<1> DEFINE v == [i \in R |-> w[i]]
<1> HIDE DEF score, w, R
<1>9. v \in [R -> Int] /\ (\A i \in R : w[i] = v[i]) /\ IsFiniteSet(R)
  BY <1>7, FS_Subset
<1>10. Charges(P, c, score, v, D, R)
  BY <1>4, <1>9 DEF Charges
<1> HIDE DEF v
<1>11. Adds(Sums(v, R), v, R)
  BY <1>9, AnyOrder
<1>12. 2 * Cardinality(D) - Sums(score, D)[D] <= Sums(v, R)[R]
  BY <1>3, <1>6, <1>9, <1>10, <1>11, AtMostCharged
<1>13. Total(w, R) = Total(v, R)
  BY <1>9, EqualWeights
<1>14. 2 * Cardinality(D) - Total(score, D) <= Downtime(n, m)
  BY <1>8, <1>12, <1>13 DEF Total
<1>15. Total(score, D) \in Int /\ Cardinality(D) \in Nat
  <2>1. Sums(score, D)[D] \in Int
    BY <1>6 DEF Adds
  <2>2. QED
    BY <1>3, <2>1, FS_CardinalityType DEF Total
<1>16. Downtime(n, m) >= 2 * Uptime(n, D).total - Uptime(n, D).score
  BY <1>5, <1>8, <1>14, <1>15
<1>17. Available(n, m) <= 2 * Length(m)
  <2>1. Length(m) \in Nat /\ 2 * Length(m) - Downtime(n, m) \in Int
    BY <1>1, <1>8 DEF Length
  <2> DEFINE left == 2 * Length(m) - Downtime(n, m)
  <2>2. Available(n, m) = Latest({0, left})
    BY DEF Available
  <2>3. Available(n, m) = IF 0 <= left THEN left ELSE 0
    BY <2>1, <2>2, LatestOfTwo
  <2>4. QED
    BY <1>8, <2>1, <2>3
<1>18. QED
  BY <1>16, <1>17 DEF D

SlaInv == IncsInv /\ IsFiniteSet(incs)

LEMMA SlaHolds == Spec => []SlaInv
<1>1. Init => SlaInv
  BY IncsStart, FiniteStart DEF SlaInv
<1>2. TypesInv /\ SlaInv /\ [Next]_pageVars => SlaInv'
  BY IncsStep, FiniteStep DEF SlaInv
<1>3. QED
  BY <1>1, <1>2, TypesHold, PTL DEF Spec

\* Whatever the incidents, the SLA of a month never promises more than the uptime
\* that the bars of its clean days show, and stays a percentage (crud.py
\* get_sla_for_month, get_uptime_percentage and get_daily_timeline): but for an
\* incident reopened after its end.
THEOREM SlaCoversBarsAlways == Spec => []SlaCoversBars
<1>1. TypesInv /\ SlaInv => SlaCoversBars
  BY BarsCovered, TypesOf DEF SlaInv
<1>2. QED
  BY <1>1, SlaHolds, TypesHold, PTL

-----------------------------------------------------------------------------
(* Months that follow each other.                                          *)

\* What each incident loses in a month, of all incidents.
Part(n, m) == [i \in incs |-> IF i \in Reasons(n, m) THEN Loss(m)[i] ELSE 0]

LEMMA PartType ==
    ASSUME IncsInv, NEW n, NEW m \in Month
    PROVE  Part(n, m) \in [incs -> Int]
  BY LossType DEF Part

LEMMA DowntimeOfAll ==
    ASSUME IncsInv, IsFiniteSet(incs), NEW n, NEW m \in Month
    PROVE  Downtime(n, m) = Sums(Part(n, m), incs)[incs] /\ Adds(Sums(Part(n, m), incs), Part(n, m), incs)
<1> DEFINE R == Reasons(n, m)
           v == Part(n, m)
           w == Loss(m)
           none == [i \in incs |-> 0]
           f == Sums(v, incs)
           z == Sums(none, incs)
           h == Sums(w, incs)
<1>1. R \in SUBSET incs /\ incs \ R \in SUBSET incs /\ R \cap (incs \ R) = {} /\ R \cup (incs \ R) = incs
  BY DEF Reasons, Counted
<1>2. v \in [incs -> Int] /\ none \in [incs -> Int] /\ w \in [incs -> Int]
  BY PartType, LossType
<1>3. (\A i \in R : v[i] = w[i]) /\ (\A i \in incs \ R : v[i] = none[i]) /\ (\A i \in incs : none[i] = none[i] + none[i])
  BY <1>1 DEF Part
<1>4. Downtime(n, m) = h[R]
  BY DowntimeType
<1> HIDE DEF R, v, w, none
<1>5. Adds(f, v, incs) /\ Adds(z, none, incs) /\ Adds(h, w, incs)
  BY <1>2, AnyOrder
<1> HIDE DEF f, z, h
<1>6. f[R \cup (incs \ R)] = f[R] + f[incs \ R]
  BY <1>1, <1>5, SumOfParts
<1>7. f[R] = h[R]
  BY <1>1, <1>3, <1>5, SumsAgree
<1>8. f[incs \ R] = z[incs \ R]
  BY <1>1, <1>3, <1>5, SumsAgree
<1>9. z[incs \ R] = z[incs \ R] + z[incs \ R] /\ z[incs \ R] \in Int
  <2>1. \A A \in SUBSET incs : z[A] = z[A] + z[A]
    BY <1>3, <1>5, SumOfSums
  <2>2. QED
    BY <1>1, <1>5, <2>1 DEF Adds
<1>10. z[incs \ R] = 0
  BY <1>9
<1>11. f[R] \in Int
  BY <1>1, <1>5 DEF Adds
<1>12. f[incs] = f[R] + 0
  BY <1>1, <1>6, <1>8, <1>10
<1>13. QED
  BY <1>4, <1>5, <1>7, <1>11, <1>12 DEF f, v

LEMMA AdjacentParts ==
    ASSUME IncsInv, NEW n, Forward(n), NEW A \in Month, NEW B \in Month, NEW S \in Month,
           A.first <= A.last, A.last + 1 = B.first, B.first <= B.last,
           S.first = A.first, S.last = B.last, NEW i \in incs
    PROVE  Part(n, S)[i] = Part(n, A)[i] + Part(n, B)[i]
<1>1. /\ i.from \in Nat /\ (i.to = NoEnd \/ i.to \in Nat)
      /\ A.first \in Nat /\ A.last \in Nat /\ B.first \in Nat /\ B.last \in Nat
  BY IncFacts DEF Month
<1> DEFINE mine == i.of = n /\ ~i.suppressed /\ i.kind.class \notin Excluded
           Days1(m) == IF i \in Reasons(n, m) THEN DaysDown(i, m) ELSE 0
           Down(m) == (i.to = NoEnd \/ i.to >= m.first) /\ i.from <= m.last
<1>2. \A m \in Month : i \in Reasons(n, m) <=> mine /\ Down(m)
  BY DEF Reasons, Counted
<1>3. \A m \in Month : DaysDown(i, m) = Final(i, m) - First(i, m) + 1 /\ First(i, m) \in Nat /\ Final(i, m) \in Nat
  BY DaysDownIs
<1>4. Days1(S) = Days1(A) + Days1(B) /\ Days1(A) \in Int /\ Days1(B) \in Int
  <2>1. CASE ~mine
    BY <1>2, <2>1
  <2>2. CASE mine
    <3>1. i.to = NoEnd \/ i.from <= i.to
      BY <2>2 DEF Forward
    <3>2. \A m \in {A, B, S} : Days1(m) = IF Down(m) THEN Final(i, m) - First(i, m) + 1 ELSE 0
      BY <1>2, <1>3, <2>2
    <3>3. /\ First(i, A) = IF i.from <= A.first THEN A.first ELSE i.from
          /\ First(i, B) = IF i.from <= B.first THEN B.first ELSE i.from
          /\ First(i, S) = IF i.from <= A.first THEN A.first ELSE i.from
          /\ Final(i, A) = IF i.to = NoEnd \/ A.last <= i.to THEN A.last ELSE i.to
          /\ Final(i, B) = IF i.to = NoEnd \/ B.last <= i.to THEN B.last ELSE i.to
          /\ Final(i, S) = IF i.to = NoEnd \/ B.last <= i.to THEN B.last ELSE i.to
      BY DEF First, Final
    <3>4. /\ Down(A) <=> (i.to = NoEnd \/ i.to >= A.first) /\ i.from <= A.last
          /\ Down(B) <=> (i.to = NoEnd \/ i.to >= B.first) /\ i.from <= B.last
          /\ Down(S) <=> (i.to = NoEnd \/ i.to >= A.first) /\ i.from <= B.last
      OBVIOUS
    <3> HIDE DEF Days1, Down, mine
    <3>5. CASE i.to = NoEnd
      BY <1>1, <3>1, <3>2, <3>3, <3>4, <3>5
    <3>6. CASE i.to # NoEnd
      BY <1>1, <3>1, <3>2, <3>3, <3>4, <3>6
    <3>7. QED
      BY <3>5, <3>6
  <2>3. QED
    BY <2>1, <2>2
<1>5. \A m \in Month : Part(n, m)[i] = Days1(m) * Weight(i)
  <2>1. \A m : 0 * Weight(i) = 0
    BY WeightIs
  <2>2. QED
    BY <2>1 DEF Part, Loss
<1> HIDE DEF Days1
<1>6. Weight(i) = 1 \/ Weight(i) = 2
  BY WeightIs
<1>7. QED
  BY <1>4, <1>5, <1>6

LEMMA AdjacentMonths ==
    ASSUME IncsInv, IsFiniteSet(incs), NEW n, Forward(n), NEW A \in Month, NEW B \in Month, NEW S \in Month,
           A.first <= A.last, A.last + 1 = B.first, B.first <= B.last,
           S.first = A.first, S.last = B.last
    PROVE  Downtime(n, S) = Downtime(n, A) + Downtime(n, B)
<1> DEFINE a == Part(n, A) b == Part(n, B) s == Part(n, S)
<1>1. \A i \in incs : s[i] = a[i] + b[i]
  BY AdjacentParts
<1>2. /\ Downtime(n, A) = Sums(a, incs)[incs] /\ Adds(Sums(a, incs), a, incs)
      /\ Downtime(n, B) = Sums(b, incs)[incs] /\ Adds(Sums(b, incs), b, incs)
      /\ Downtime(n, S) = Sums(s, incs)[incs] /\ Adds(Sums(s, incs), s, incs)
  BY DowntimeOfAll
<1> HIDE DEF a, b, s
<1>3. \A T \in SUBSET incs : Sums(s, incs)[T] = Sums(a, incs)[T] + Sums(b, incs)[T]
  BY <1>1, <1>2, SumOfSums
<1>4. QED
  BY <1>2, <1>3

Span(T) == [first |-> Earliest({m.first : m \in T}), last |-> Latest({m.last : m \in T})]

LEMMA SpanIs ==
    ASSUME NEW T \in SUBSET Months, T # {}
    PROVE  /\ Span(T) \in Month
           /\ \E m \in T : Span(T).first = m.first
           /\ \E m \in T : Span(T).last = m.last
           /\ \A m \in T : Span(T).first <= m.first /\ m.last <= Span(T).last
<1> DEFINE starts == {m.first : m \in T} ends == {m.last : m \in T}
<1>1. T \subseteq Month /\ IsFiniteSet(T)
  BY PageAssumption, FS_Subset DEF Month
<1>2. starts \in SUBSET Nat /\ starts # {} /\ ends \in SUBSET Nat /\ ends # {}
  BY <1>1 DEF Month
<1>3. IsFiniteSet(ends)
  <2> DEFINE end == [m \in T |-> m.last]
  <2>1. end \in Surjection(T, ends)
    BY DEF Surjection
  <2> HIDE DEF end, ends
  <2>2. QED
    BY <1>1, <2>1, FS_Surjection
<1>4. Span(T).first = Earliest(starts) /\ Span(T).last = Latest(ends)
  BY DEF Span
<1>5. Earliest(starts) \in starts /\ \A e \in starts : Earliest(starts) <= e
  <2> HIDE DEF starts
  <2>1. \E d \in starts : \A e \in starts : d <= e
    BY <1>2, Smallest
  <2>2. QED
    BY <2>1 DEF Earliest
<1>6. Latest(ends) \in ends /\ \A e \in ends : e <= Latest(ends)
  <2> HIDE DEF ends
  <2>1. QED
    BY <1>2, <1>3, LatestOf
<1>7. Span(T) \in Month
  BY <1>2, <1>5, <1>6 DEF Span, Month
<1>8. QED
  BY <1>4, <1>5, <1>6, <1>7

\* A set of months with all those before them.
Closed(T) == \A a \in T, b \in Months : b.last < a.first => b \in T

\* Without its last month such a set ends the day before.
LEMMA WithoutLast ==
    ASSUME NEW T \in SUBSET Months, Closed(T), NEW l \in T, l.last = Span(T).last, T \ {l} # {}
    PROVE  /\ Closed(T \ {l})
           /\ Span(T \ {l}).first = Span(T).first
           /\ Span(T \ {l}).last + 1 = l.first
           /\ Span(T \ {l}).first <= Span(T \ {l}).last
<1> DEFINE rest == T \ {l} S == Span(T) Q == Span(rest)
<1>1. rest \in SUBSET Months /\ rest # {} /\ rest \subseteq T /\ l \in Months /\ T # {} /\ l \notin rest
  OBVIOUS
<1>2. \A m \in Months : m.first \in Nat /\ m.last \in Nat /\ m.first <= m.last
  BY PageAssumption
<1>3. /\ S \in Month /\ \E m \in T : S.first = m.first
      /\ \A m \in T : S.first <= m.first /\ m.last <= S.last
  BY <1>1, SpanIs
<1> HIDE DEF rest
<1>4. /\ Q \in Month /\ (\E m \in rest : Q.first = m.first) /\ (\E m \in rest : Q.last = m.last)
      /\ \A m \in rest : Q.first <= m.first /\ m.last <= Q.last
  BY <1>1, SpanIs
<1>5. S.first \in Nat /\ S.last \in Nat /\ Q.first \in Nat /\ Q.last \in Nat /\ l.last = S.last
  BY <1>3, <1>4 DEF Month
<1> HIDE DEF S, Q
<1>6. ASSUME NEW b \in rest
      PROVE  b.last < l.first
  <2>1. b.last <= l.last /\ b # l /\ b \in Months
    BY <1>1, <1>3, <1>5, <1>6
  <2>2. b.last < l.first \/ l.last < b.first
    BY <1>1, <2>1, PageAssumption
  <2>3. b.first <= b.last /\ b.first \in Nat /\ b.last \in Nat /\ l.last \in Nat
    BY <1>1, <1>2, <2>1
  <2>4. QED
    BY <2>1, <2>2, <2>3
<1>7. PICK b \in rest : TRUE
  BY <1>1
<1>8. PICK c \in Months : c.last + 1 = l.first
  <2>1. b \in Months /\ b.last < l.first
    BY <1>1, <1>6
  <2>2. QED
    BY <1>1, <2>1, PageAssumption
<1>9. c \in rest
  <2>1. c.last < l.first /\ c.last < l.last
    BY <1>1, <1>2, <1>8
  <2>2. c \in T
    BY <2>1 DEF Closed
  <2>3. c # l
    BY <1>1, <1>2, <2>1
  <2>4. QED
    BY <2>2, <2>3 DEF rest
<1>10. Q.last = c.last
  <2>1. c.last <= Q.last
    BY <1>4, <1>9
  <2>2. PICK m \in rest : Q.last = m.last
    BY <1>4
  <2>3. Q.last < l.first
    BY <1>6, <2>2
  <2>4. c.last \in Nat /\ l.first \in Nat
    BY <1>1, <1>2
  <2>5. QED
    BY <1>5, <1>8, <2>1, <2>3, <2>4
<1>11. Q.first <= Q.last
  <2>1. Q.first <= c.first /\ c.first <= c.last /\ c.first \in Nat
    BY <1>2, <1>4, <1>9
  <2>2. QED
    BY <1>5, <1>10, <2>1
<1>12. Q.first = S.first
  <2>1. S.first <= Q.first
    <3>1. PICK m \in rest : Q.first = m.first
      BY <1>4
    <3>2. QED
      BY <1>1, <1>3, <3>1
  <2>2. PICK m \in T : S.first = m.first
    BY <1>3
  <2>3. CASE m \in rest
    BY <1>4, <1>5, <2>1, <2>2, <2>3
  <2>4. CASE m = l
    <3>1. Q.last < l.first /\ l.first \in Nat
      BY <1>1, <1>2, <1>8, <1>10
    <3>2. QED
      BY <1>5, <1>11, <2>1, <2>2, <2>4, <3>1
  <2>5. QED
    BY <2>2, <2>3, <2>4 DEF rest
<1>13. Closed(rest)
  <2>1. SUFFICES ASSUME NEW a \in rest, NEW d \in Months, d.last < a.first
                 PROVE  d \in rest
    BY DEF Closed
  <2>2. d \in T
    BY <1>1, <2>1 DEF Closed
  <2>3. d # l
    <3>1. a.last < l.first /\ a.first <= a.last /\ a.first \in Nat /\ a.last \in Nat /\ l.first <= l.last
      BY <1>1, <1>2, <1>6
    <3>2. l.first \in Nat /\ l.last \in Nat
      BY <1>1, <1>2
    <3>3. QED
      BY <2>1, <3>1, <3>2
  <2>4. QED
    BY <2>2, <2>3 DEF rest
<1>14. QED
  BY <1>8, <1>10, <1>11, <1>12, <1>13 DEF rest, S, Q

Downs(n) == [m \in Months |-> Downtime(n, m)]

LEMMA MonthsSum ==
    ASSUME IncsInv, IsFiniteSet(incs), NEW n, Forward(n)
    PROVE  Sums(Downs(n), Months)[Months] = Downtime(n, Span(Months))
<1> DEFINE w == Downs(n)
           g == Sums(w, Months)
           Odd == {T \in SUBSET Months : T # {} /\ Closed(T) /\ g[T] # Downtime(n, Span(T))}
<1>1. IsFiniteSet(Months) /\ Months # {} /\ Months \subseteq Month /\ \A m \in Months : m.first <= m.last
  BY PageAssumption DEF Month
<1>2. Adds(g, w, Months)
  <2>1. w \in [Months -> Int]
    BY <1>1, DowntimeType DEF Downs
  <2> HIDE DEF w
  <2>2. QED
    BY <1>1, <2>1, AnyOrder
<1> HIDE DEF g
<1>3. Odd = {}
  <2>1. SUFFICES ASSUME Odd # {} PROVE FALSE
    OBVIOUS
  <2>2. PICK T \in Odd : \A U \in Odd : U \subseteq T => U = T
    <3>1. Odd \in SUBSET (SUBSET Months)
      OBVIOUS
    <3> HIDE DEF Odd
    <3>2. QED
      BY <1>1, <2>1, <3>1, SmallestSet
  <2>3. T \in SUBSET Months /\ T # {} /\ Closed(T) /\ g[T] # Downtime(n, Span(T))
    BY <2>2
  <2>4. /\ Span(T) \in Month /\ \E m \in T : Span(T).last = m.last
        /\ \A m \in T : Span(T).first <= m.first /\ m.last <= Span(T).last
        /\ \E m \in T : Span(T).first = m.first
    BY <2>3, SpanIs
  <2>5. PICK l \in T : Span(T).last = l.last
    BY <2>4
  <2> DEFINE rest == T \ {l}
  <2>6. l \in Month /\ l \in Months /\ l.first <= l.last /\ rest \in SUBSET Months
    BY <1>1, <2>3
  <2>7. g[T] = Downtime(n, l) + g[rest] /\ g[rest] \in Int /\ Downtime(n, l) \in Int
    <3>1. g[T] = w[l] + g[rest] /\ g[rest] \in Int
      BY <1>2, <2>3, <2>6 DEF Adds
    <3>2. w[l] = Downtime(n, l)
      BY <2>6 DEF Downs
    <3>3. Downtime(n, l) \in Int
      BY <2>6, DowntimeType
    <3>4. QED
      BY <3>1, <3>2, <3>3
  <2>8. CASE rest = {}
    <3>1. T = {l}
      BY <2>8
    <3>2. Span(T).first = l.first
      BY <2>4, <3>1
    <3>3. Span(T) = l
      BY <2>4, <2>5, <2>6, <3>2 DEF Month
    <3>4. g[rest] = 0
      BY <1>2, <2>8 DEF Adds
    <3>5. QED
      BY <2>3, <2>7, <3>3, <3>4
  <2>9. CASE rest # {}
    <3>1. /\ Closed(rest) /\ Span(rest).first = Span(T).first /\ Span(rest).last + 1 = l.first
          /\ Span(rest).first <= Span(rest).last
      BY <2>3, <2>5, <2>9, WithoutLast
    <3>2. rest \notin Odd
      BY <2>2
    <3>3. g[rest] = Downtime(n, Span(rest))
      BY <2>6, <2>9, <3>1, <3>2
    <3>4. Span(rest) \in Month
      BY <2>6, <2>9, SpanIs
    <3> HIDE DEF rest
    <3>5. Downtime(n, Span(T)) = Downtime(n, Span(rest)) + Downtime(n, l)
      BY <2>4, <2>5, <2>6, <3>1, <3>4, AdjacentMonths
    <3>6. QED
      BY <2>3, <2>7, <3>3, <3>5
  <2>10. QED
    BY <2>8, <2>9
<1>4. Closed(Months)
  BY DEF Closed
<1>5. QED
  BY <1>1, <1>3, <1>4 DEF g

\* The rows of the export stand for the months one by one.
LEMMA TableMeetsExport ==
    ASSUME IncsInv, IsFiniteSet(incs), NEW n, NEW target \in Nat
    PROVE  SlaTable(n, target).met = Cardinality({r \in SlaExport(n, target) : r.met})
<1> DEFINE cells == [m \in Months |-> 100 * Available(n, m) < target * 2 * Length(m)]
           row == [m \in Months |-> [month |-> m, met |-> 100 * Available(n, m) >= target * 2 * Length(m),
                                     down |-> Downtime(n, m)]]
           good == {m \in Months : ~cells[m]}
           rows == {r \in SlaExport(n, target) : r.met}
           toRow == [m \in good |-> row[m]]
<1>1. ASSUME NEW m \in Months
      PROVE  ~cells[m] <=> row[m].met
  <2>1. Available(n, m) \in Int /\ Length(m) \in Int
    <3>1. m \in Month /\ m.first \in Nat /\ m.last \in Nat
      BY PageAssumption DEF Month
    <3>2. Downtime(n, m) \in Int /\ Length(m) \in Int
      BY <3>1, DowntimeType DEF Length
    <3> DEFINE left == 2 * Length(m) - Downtime(n, m)
    <3>3. left \in Int
      BY <3>2
    <3>4. Available(n, m) = Latest({0, left})
      BY DEF Available
    <3> HIDE DEF left
    <3>5. QED
      BY <3>2, <3>3, <3>4, LatestOfTwo
  <2> DEFINE a == 100 * Available(n, m) b == target * 2 * Length(m)
  <2>2. a \in Int /\ b \in Int
    BY <2>1
  <2>3. (cells[m] <=> a < b) /\ (row[m].met <=> a >= b)
    OBVIOUS
  <2> HIDE DEF a, b, cells, row
  <2>4. QED
    BY <2>2, <2>3
<1>2. \A m \in Months : row[m].month = m
  OBVIOUS
<1>3. SlaExport(n, target) = {row[m] : m \in Months}
  BY DEF SlaExport
<1>4. SlaTable(n, target).met = Cardinality(good)
  BY DEF SlaTable
<1> HIDE DEF cells, row
<1>5. rows = {row[m] : m \in good}
  BY <1>1, <1>3
<1> HIDE DEF rows
<1>6. toRow \in Bijection(good, rows)
  BY <1>2, <1>5 DEF Bijection, Injection, Surjection, IsInjective
<1>7. IsFiniteSet(good)
  BY PageAssumption, FS_Subset
<1>8. ExistsBijection(good, rows)
  BY <1>6 DEF ExistsBijection
<1> HIDE DEF good
<1>9. Cardinality(rows) = Cardinality(good)
  BY <1>7, <1>8, FS_Bijection
<1>10. QED
  BY <1>4, <1>9 DEF rows

LEMMA DownsIsSum ==
    \A n : LET DownIn(m) == Downtime(n, m) IN MapThenSumSet(DownIn, Months) = Sums(Downs(n), Months)[Months]
<1> SUFFICES ASSUME NEW n
             PROVE  LET DownIn(m) == Downtime(n, m) IN MapThenSumSet(DownIn, Months) = Sums(Downs(n), Months)[Months]
  OBVIOUS
<1> DEFINE DownIn(m) == Downtime(n, m)
           w == Downs(n)
<1>1. MapThenSumSet(DownIn, Months) = (CHOOSE g : g = [s \in SUBSET Months |-> IF s = {} THEN 0
          ELSE Downtime(n, One(s)) + g[s \ {One(s)}]])[Months]
  BY DEF MapThenSumSet, MapThenFoldSet, One
<1>2. \A s \in SUBSET Months : s # {} => w[One(s)] = Downtime(n, One(s))
  BY AnyIsMember DEF Downs
<1>3. Sums(w, Months) = (CHOOSE g : g = [s \in SUBSET Months |-> IF s = {} THEN 0
          ELSE w[One(s)] + g[s \ {One(s)}]])
  BY DEF Sums
<1> HIDE DEF w
<1>4. \A g : [s \in SUBSET Months |-> IF s = {} THEN 0 ELSE Downtime(n, One(s)) + g[s \ {One(s)}]]
             = [s \in SUBSET Months |-> IF s = {} THEN 0 ELSE w[One(s)] + g[s \ {One(s)}]]
  BY <1>2
<1>5. (CHOOSE g : g = [s \in SUBSET Months |-> IF s = {} THEN 0 ELSE Downtime(n, One(s)) + g[s \ {One(s)}]])
      = (CHOOSE g : g = [s \in SUBSET Months |-> IF s = {} THEN 0 ELSE w[One(s)] + g[s \ {One(s)}]])
  BY ONLY <1>4
<1>6. QED
  BY <1>1, <1>3, <1>5 DEF w

\* The downtime of the months adds up to that of the whole time, for any months
\* that leave no gap and any incidents that end after they begin, and the table and
\* the export of the SLA count the same months as met (crud.py get_sla_for_month,
\* routers/admin.py admin_sla and export_sla_csv).
THEOREM MonthsAddUpAlways == Spec => []MonthsAddUp
<1>1. SlaInv => MonthsAddUp
  <2>1. SUFFICES ASSUME SlaInv, NEW n \in Affected
                 PROVE  LET DownIn(m) == Downtime(n, m) IN
                        /\ Forward(n) => MapThenSumSet(DownIn, Months) = Downtime(n, Span(Months))
                        /\ SlaTable(n, 99).met = Cardinality({r \in SlaExport(n, 99) : r.met})
    BY DEF MonthsAddUp, Span
  <2>2. Forward(n) => Sums(Downs(n), Months)[Months] = Downtime(n, Span(Months))
    BY <2>1, MonthsSum DEF SlaInv
  <2>3. SlaTable(n, 99).met = Cardinality({r \in SlaExport(n, 99) : r.met})
    BY <2>1, TableMeetsExport DEF SlaInv
  <2>4. QED
    BY <2>2, <2>3, DownsIsSum
<1>2. QED
  BY <1>1, SlaHolds, PTL

-----------------------------------------------------------------------------
(* Lists and pages.                                                        *)

LastFirst(s) == \A a, b \in DOMAIN s : a < b => s[b].changed <= s[a].changed

\* Incidents can be listed with those changed last first.
LEMMA SomeListing ==
    ASSUME IncsInv, NEW S \in SUBSET incs, IsFiniteSet(S)
    PROVE  \E s \in SetToSeqs(S) : LastFirst(s)
<1> DEFINE Listed1(T) == \E s \in SetToSeqs(T) : LastFirst(s)
           Odd == {T \in SUBSET S : ~Listed1(T)}
<1>1. SUFFICES ASSUME Odd # {} PROVE FALSE
  OBVIOUS
<1>2. PICK T \in Odd : \A U \in Odd : U \subseteq T => U = T
  <2>1. Odd \in SUBSET (SUBSET S)
    OBVIOUS
  <2> HIDE DEF Odd
  <2>2. QED
    BY <1>1, <2>1, SmallestSet
<1>3. T \in SUBSET S /\ T \in SUBSET incs /\ IsFiniteSet(T) /\ Cardinality(T) \in Nat /\ ~Listed1(T)
  <2> HIDE DEF Listed1
  <2>1. T \in SUBSET S /\ ~Listed1(T)
    BY <1>2
  <2>2. QED
    BY <2>1, FS_Subset, FS_CardinalityType
<1>4. T # {}
  <2>1. SUFFICES ASSUME T = {} PROVE Listed1(T)
    BY <1>3
  <2>2. Cardinality(T) = 0
    BY <2>1, FS_EmptySet
  <2> DEFINE s == [k \in 1..0 |-> 0]
  <2>3. 1..Cardinality(T) = {} /\ 1..0 = {}
    BY <2>2
  <2>4. s \in SetToSeqs(T) /\ LastFirst(s)
    BY <2>1, <2>3 DEF SetToSeqs, LastFirst
  <2>5. QED
    BY <2>4
<1> DEFINE times == {i.changed : i \in T}
<1>5. PICK x \in T : \A i \in T : x.changed <= i.changed
  <2>1. times \in SUBSET Nat /\ times # {}
    BY <1>3, <1>4, IncFacts
  <2> HIDE DEF times
  <2>2. PICK t \in times : \A u \in times : t <= u
    BY <2>1, Smallest
  <2>3. QED
    BY <2>2 DEF times
<1> DEFINE rest == T \ {x} n == Cardinality(T)
<1>6. rest \in SUBSET S /\ rest \subseteq T /\ x \notin rest /\ Listed1(rest)
  <2> HIDE DEF Listed1
  <2>1. rest \in SUBSET S /\ rest \notin Odd
    BY <1>2, <1>3, <1>5
  <2>2. QED
    BY <2>1
<1>7. n \in Nat /\ n # 0 /\ Cardinality(rest) = n - 1
  BY <1>3, <1>4, <1>5, FS_RemoveElement, FS_EmptySet
<1>8. PICK s \in SetToSeqs(rest) : LastFirst(s)
  BY <1>6
<1> HIDE DEF rest, n
<1>9. s \in [1..(n - 1) -> rest] /\ \A a, b \in 1..(n - 1) : a # b => s[a] # s[b]
  BY <1>7 DEF SetToSeqs
<1> DEFINE longer == [k \in 1..n |-> IF k = n THEN x ELSE s[k]]
<1>10. \A k \in 1..n : k = n \/ k \in 1..(n - 1)
  BY <1>7
<1>11. \A k \in 1..n : longer[k] \in T /\ (k # n => longer[k] = s[k] /\ s[k] \in rest) /\ (k = n => longer[k] = x)
  BY <1>5, <1>6, <1>9, <1>10
<1>12. longer \in [1..n -> T]
  BY <1>11
<1> HIDE DEF longer
<1>13. ASSUME NEW a \in 1..n, NEW b \in 1..n, a < b
       PROVE  longer[a] # longer[b] /\ longer[b].changed <= longer[a].changed
  <2>1. a # n /\ a \in 1..(n - 1) /\ longer[a] = s[a] /\ s[a] \in rest
    BY <1>7, <1>10, <1>11, <1>13
  <2>2. CASE b = n
    BY <1>5, <1>6, <1>11, <2>1, <2>2
  <2>3. CASE b # n
    BY <1>8, <1>9, <1>10, <1>11, <1>13, <2>1, <2>3 DEF LastFirst
  <2>4. QED
    BY <2>2, <2>3
<1>14. \A a, b \in 1..n : a # b => longer[a] # longer[b]
  <2>1. SUFFICES ASSUME NEW a \in 1..n, NEW b \in 1..n, a # b
                 PROVE  longer[a] # longer[b]
    OBVIOUS
  <2>2. a < b \/ b < a
    BY <1>7, <2>1
  <2>3. QED
    BY <1>13, <2>2
<1>15. longer \in SetToSeqs(T)
  BY <1>12, <1>14 DEF SetToSeqs, n
<1>16. LastFirst(longer)
  <2>1. DOMAIN longer = 1..n
    BY <1>12
  <2>2. QED
    BY <1>13, <2>1 DEF LastFirst
<1>17. QED
  BY <1>3, <1>15, <1>16

LEMMA BeginningOf ==
    ASSUME NEW S, NEW s \in Seq(S), NEW k \in Nat, k <= Len(s)
    PROVE  /\ SubSeq(s, 1, k) \in Seq(S) /\ Len(SubSeq(s, 1, k)) = k
           /\ k # 0 => SubSeq(s, 1, k)[1] = s[1]
  OBVIOUS

\* The search begins with the incident of a service that changed last.
LEMMA LastChangedIsFound ==
    ASSUME IncsInv, IsFiniteSet(incs), NEW i \in incs, ~IsMaintenance(i),
           \A j \in incs : j.of = i.of /\ j # i => j.changed < i.changed
    PROVE  i \in ToSet(Found(i.of).incidents)
<1> DEFINE found == {j \in incs : ~IsMaintenance(j) /\ j.of = i.of}
           s == CHOOSE t \in SetToSeqs(found) : \A a, b \in DOMAIN t : a < b => t[b].changed <= t[a].changed
           c == Cardinality(found)
<1>1. found \in SUBSET incs /\ i \in found
  OBVIOUS
<1>2. IsFiniteSet(found) /\ c \in Nat /\ c # 0
  <2>1. IsFiniteSet(found)
    BY <1>1, FS_Subset
  <2> HIDE DEF found
  <2>2. QED
    BY <1>1, <2>1, FS_CardinalityType, FS_EmptySet
<1>3. s \in SetToSeqs(found) /\ LastFirst(s)
  <2>1. \E t \in SetToSeqs(found) : LastFirst(t)
    BY <1>1, <1>2, SomeListing
  <2> HIDE DEF found
  <2>2. QED
    BY <2>1 DEF LastFirst
<1>4. Hits(i.of) = SubSeq(s, 1, Earliest({PerGroup, Len(s)}))
  BY DEF Hits
<1>5. \A j \in found : j # i => j.changed < i.changed
  OBVIOUS
<1> HIDE DEF s, found, c
<1>6. s \in [1..c -> found] /\ \A a, b \in 1..c : a # b => s[a] # s[b]
  BY <1>3 DEF SetToSeqs, c
<1>7. s \in Injection(1..c, found)
  BY <1>6 DEF Injection, IsInjective
<1>8. Cardinality(1..c) = c
  BY <1>2, FS_Interval
<1>9. s \in Surjection(1..c, found)
  BY <1>2, <1>7, <1>8, FS_Injection DEF c
<1>10. PICK k \in 1..c : s[k] = i
  BY <1>1, <1>9 DEF Surjection
<1>11. s[1] = i
  <2>1. SUFFICES ASSUME s[1] # i PROVE FALSE
    OBVIOUS
  <2>2. 1 \in 1..c /\ k # 1 /\ 1 < k
    BY <1>2, <1>10, <2>1
  <2>3. s[k].changed <= s[1].changed
    BY <1>3, <1>6, <1>10, <2>2 DEF LastFirst
  <2>4. s[1].changed < i.changed
    BY <1>5, <1>6, <2>1, <2>2
  <2>5. s[1].changed \in Nat /\ i.changed \in Nat
    BY <1>1, <1>6, <2>2, IncFacts
  <2>6. QED
    BY <1>10, <2>3, <2>4, <2>5
<1>12. s \in Seq(found) /\ Len(s) = c
  BY <1>2, <1>6
<1> DEFINE k1 == Earliest({PerGroup, Len(s)})
           hits == Hits(i.of)
           k2 == Earliest({Len(hits), TotalCap - 0})
<1>13. k1 \in Nat /\ k1 # 0 /\ k1 <= Len(s)
  BY <1>2, <1>12, ListingsAssumption, EarliestOfTwo
<1> HIDE DEF k1
<1>14. hits \in Seq(found) /\ Len(hits) = k1 /\ hits[1] = i
  <2>1. hits = SubSeq(s, 1, k1)
    BY <1>4 DEF k1
  <2>2. QED
    BY <1>11, <1>12, <1>13, <2>1, BeginningOf
<1> HIDE DEF hits
<1>15. k2 \in Nat /\ k2 # 0 /\ k2 <= Len(hits)
  BY <1>13, <1>14, ListingsAssumption, EarliestOfTwo
<1> DEFINE kept == Found(i.of).incidents
<1>16. kept = SubSeq(hits, 1, k2)
  BY DEF Found, Kept, hits
<1> HIDE DEF kept, k2
<1>17. kept \in Seq(found) /\ Len(kept) # 0 /\ kept[1] = i
  BY <1>14, <1>15, <1>16, BeginningOf
<1>18. 1 \in DOMAIN kept
  BY <1>17
<1>19. QED
  BY <1>17, <1>18 DEF ToSet, kept

\* The unfiltered page of incidents.
LEMMA Desk ==
    /\ IncidentsPage("none").incidents = {i \in incs : ~IsMaintenance(i) /\ i.kind.class = "incident" /\ ~i.suppressed}
    /\ IncidentsPage("none").advisories = {i \in incs : ~IsMaintenance(i) /\ i.kind.class = "advisory" /\ ~i.suppressed}
    /\ IncidentsPage("none").suppressed
       = {i \in incs : ~IsMaintenance(i) /\ i.kind.class \in {"incident", "advisory"} /\ i.suppressed}
  BY DEF IncidentsPage, AllIncidents

LEMMA ClassOf ==
    ASSUME IncsInv, NEW i \in incs
    PROVE  i.kind.class \in {"incident", "advisory", "maintenance"}
  BY PageAssumption DEF IncsInv, IncType

LEMMA InOneList ==
    ASSUME IncsInv, NEW i \in incs
    PROVE  LET desk == IncidentsPage("none")
               lists == <<desk.incidents, desk.advisories, desk.suppressed, MaintenancesPage>>
           IN Cardinality({k \in DOMAIN lists : i \in lists[k]}) = 1
<1> DEFINE desk == IncidentsPage("none")
           lists == <<desk.incidents, desk.advisories, desk.suppressed, MaintenancesPage>>
           places == {k \in DOMAIN lists : i \in lists[k]}
<1>1. /\ i \in desk.incidents <=> i.kind.class = "incident" /\ ~i.suppressed
      /\ i \in desk.advisories <=> i.kind.class = "advisory" /\ ~i.suppressed
      /\ i \in desk.suppressed <=> i.kind.class \in {"incident", "advisory"} /\ i.suppressed
      /\ i \in MaintenancesPage <=> i.kind.class = "maintenance"
  BY Desk DEF IsMaintenance, MaintenancesPage, AllMaintenances
<1> HIDE DEF desk
<1>2. places = {1} \/ places = {2} \/ places = {3} \/ places = {4}
  <2>1. DOMAIN lists = 1..4
    OBVIOUS
  <2>2. \A k \in 1..4 : k = 1 \/ k = 2 \/ k = 3 \/ k = 4
    OBVIOUS
  <2>3. /\ 1 \in places <=> i.kind.class = "incident" /\ ~i.suppressed
        /\ 2 \in places <=> i.kind.class = "advisory" /\ ~i.suppressed
        /\ 3 \in places <=> i.kind.class \in {"incident", "advisory"} /\ i.suppressed
        /\ 4 \in places <=> i.kind.class = "maintenance"
    BY <1>1, <2>1
  <2>4. \A k \in places : k \in 1..4
    BY <2>1
  <2> HIDE DEF places
  <2>5. QED
    BY <2>2, <2>3, <2>4, ClassOf
<1> HIDE DEF places
<1>3. Cardinality(places) = 1
  BY <1>2, FS_Singleton
<1>4. QED
  BY <1>3 DEF places, desk

LEMMA ServiceIsFound ==
    ASSUME IncsInv, IsFiniteSet(incs), NEW n, svc[n].known
    PROVE  Found(n).services = <<n>>
<1> DEFINE S == {i \in incs : ~IsMaintenance(i) /\ i.of = n}
           s == CHOOSE t \in SetToSeqs(S) : \A a, b \in DOMAIN t : a < b => t[b].changed <= t[a].changed
           c == Cardinality(S)
           k1 == Earliest({PerGroup, Len(s)})
           hits == Hits(n)
           k2 == Earliest({Len(hits), TotalCap - 0})
           kept == Found(n).incidents
<1>1. S \in SUBSET incs /\ IsFiniteSet(S) /\ c \in Nat
  BY FS_Subset, FS_CardinalityType
<1>2. s \in SetToSeqs(S)
  <2>1. \E t \in SetToSeqs(S) : LastFirst(t)
    BY <1>1, SomeListing
  <2> HIDE DEF S
  <2>2. QED
    BY <2>1 DEF LastFirst
<1>3. hits = SubSeq(s, 1, k1)
  BY DEF Hits
<1> HIDE DEF s, S, c
<1>4. s \in [1..c -> S]
  BY <1>2 DEF SetToSeqs, c
<1>5. s \in Seq(S) /\ Len(s) = c
  BY <1>1, <1>4
<1>6. k1 \in Nat /\ k1 <= Len(s) /\ k1 <= PerGroup
  BY <1>1, <1>5, ListingsAssumption, EarliestOfTwo
<1> HIDE DEF k1, hits
<1>7. hits \in Seq(S) /\ Len(hits) = k1
  BY <1>3, <1>5, <1>6, BeginningOf
<1>8. k2 \in Nat /\ k2 <= Len(hits)
  BY <1>6, <1>7, ListingsAssumption, EarliestOfTwo
<1>9. kept = SubSeq(hits, 1, k2)
  BY DEF Found, Kept, hits
<1> HIDE DEF k2, kept
<1>10. Len(kept) \in Nat /\ Len(kept) <= PerGroup
  BY <1>6, <1>7, <1>8, <1>9, BeginningOf, ListingsAssumption
<1>11. Found(n).services = SubSeq(<<n>>, 1, Earliest({1, TotalCap - Len(kept)}))
  BY DEF Found, Kept, ServiceHits, kept
<1>12. Earliest({1, TotalCap - Len(kept)}) = 1
  BY <1>10, ListingsAssumption, EarliestOfTwo
<1>13. SubSeq(<<n>>, 1, 1) = <<n>>
  <2>1. <<n>> \in Seq({n}) /\ Len(<<n>>) = 1 /\ <<n>>[1] = n
    OBVIOUS
  <2> DEFINE one == <<n>> part == SubSeq(one, 1, 1)
  <2>2. part \in Seq({n}) /\ Len(part) = 1 /\ part[1] = one[1]
    <3> HIDE DEF one
    <3>1. QED
      BY <2>1, BeginningOf DEF one
  <2> HIDE DEF part
  <2>3. part = <<n>>
    BY <2>1, <2>2
  <2>4. QED
    BY <2>3 DEF part
<1>14. QED
  BY <1>11, <1>12, <1>13

LEMMA PagesDoAgree ==
    ASSUME CatalogueTypeOK, IncsInv, IsFiniteSet(incs)
    PROVE  PagesAgree
<1>1. \A n \in Enabled : OnDashboard(n) = Badge(n)
  BY DEF OnDashboard, Badge
<1>2. \A n \in Shown : Badge(n) = "degraded" => \E i \in Active(n) : i.kind.class = "incident"
  BY DEF Badge, Active, IsMaintenance
<1>3. NavIncidents = Cardinality({i \in IncidentsPage("none").incidents : ~i.resolved})
  <2>1. {i \in incs : ~i.resolved /\ i.kind.class = "incident" /\ ~i.suppressed}
        = {i \in IncidentsPage("none").incidents : ~i.resolved}
    BY Desk DEF IsMaintenance
  <2>2. QED
    BY <2>1 DEF NavIncidents
<1> DEFINE open == UNION {Active(n) : n \in Shown}
<1>4. ASSUME NEW i
      PROVE  i \in open <=> \E n \in Shown : i \in Active(n)
  OBVIOUS
<1>5. OnStatusPage = open \cup Scheduled \cup RecentlyResolved
  BY DEF OnStatusPage
<1> HIDE DEF open
<1>6. ASSUME NEW i
      PROVE  i \in OnStatusPage <=> i \in open \/ i \in Scheduled \/ i \in RecentlyResolved
  BY <1>5
<1>7. ASSUME NEW i
      PROVE  i \in OnStatusPage <=> (\E n \in Shown : i \in Active(n)) \/ i \in Scheduled \/ i \in RecentlyResolved
  BY <1>4, <1>6
<1>8. \A i \in OnStatusPage : IsMaintenance(i) => i \in incs /\ ~i.resolved
  BY <1>7 DEF Active, Scheduled, RecentlyResolved
<1>9. \A i \in incs : IsMaintenance(i) /\ ~i.resolved => i \in OnStatusPage
  BY <1>7 DEF Scheduled
<1>10. NavMaintenances = Cardinality({i \in OnStatusPage : IsMaintenance(i)})
  <2>1. {i \in incs : IsMaintenance(i) /\ ~i.resolved} = {i \in OnStatusPage : IsMaintenance(i)}
    BY <1>8, <1>9
  <2>2. QED
    BY <2>1 DEF NavMaintenances
<1>11. \A class \in {"incident", "advisory"} :
          LET filtered == IncidentsPage(class) IN
          AllIncidents(class) = filtered.incidents \cup filtered.advisories \cup filtered.suppressed
  BY DEF IncidentsPage, AllIncidents
<1>12. \A i \in incs : (i.of \in Shown /\ ~i.resolved /\ ~i.suppressed) => i \in OnStatusPage
  BY <1>7 DEF Active, Scheduled
<1>13. \A i \in incs \ AllMaintenances :
          (\A j \in incs : (j.of = i.of /\ j # i) => j.changed < i.changed) => i \in ToSet(Found(i.of).incidents)
  BY LastChangedIsFound DEF AllMaintenances
<1>14. \A n \in Enabled : Found(n).services = <<n>>
  BY ServiceIsFound DEF CatalogueTypeOK, Enabled
<1>15. QED
  BY <1>1, <1>2, <1>3, <1>10, <1>11, <1>12, <1>13, <1>14, InOneList DEF PagesAgree

\* Whatever the tables hold, the pages that read them by queries of their own agree
\* (crud.py, routers/status.py, routers/admin.py, dependencies.py): dashboard and
\* badge, badge and incident, counters and lists, and the search finds what changed
\* last.
THEOREM PagesAgreeAlways == Spec => []PagesAgree
<1>1. TypesInv /\ SlaInv => PagesAgree
  BY PagesDoAgree DEF TypesInv, EventsTypeOK, SlaInv
<1>2. QED
  BY <1>1, SlaHolds, TypesHold, PTL
=============================================================================
