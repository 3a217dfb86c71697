---------------------------- MODULE RangerProofs ----------------------------
(* What the ranges of BuildRange are for every content length and every     *)
(* number of hunks, and what sums over finite sets are: the arithmetic the  *)
(* proofs about Downloader rest on.                                         *)
EXTENDS Ranger, Functions, FiniteSetTheorems, TLAPS

\* Division of natural numbers, in the terms the SMT solver reasons best in.
LEMMA DivisionFacts ==
  ASSUME NEW a \in Nat, NEW d \in Nat \ {0}
  PROVE  /\ a \div d \in Nat
         /\ Quot(a, d) = a \div d
         /\ Rem(a, d) \in 0 .. d - 1
         /\ a = d * Quot(a, d) + Rem(a, d)
<1>1. a \div d \in Nat /\ a = d * (a \div d) + (a % d) /\ a % d \in 0 .. d - 1
  OBVIOUS
<1>2. Quot(a, d) = a \div d
  BY DEF Quot, Magnitude
<1>3. Rem(a, d) = a % d
  BY <1>1, <1>2 DEF Rem
<1> QED
  BY <1>1, <1>2, <1>3

\* The quotient in the loop bound of ranger.go:45 and the remainder of :46.
LEMMA HunkFacts ==
  ASSUME NEW L \in Nat \ {0}, NEW N \in Nat \ {0}
  PROVE  /\ HunkSize(L, N) \in Nat \ {0}
         /\ Iterations(L, N) \in Nat
         /\ Remainder(L, N) \in 0 .. HunkSize(L, N) - 1
         /\ L = HunkSize(L, N) * Iterations(L, N) + Remainder(L, N)
<1>1. HunkSize(L, N) \in Nat \ {0}
  <2>1. Quot(L, N) \in Nat
    BY DivisionFacts
  <2> QED
    BY <2>1 DEF HunkSize
<1> QED
  BY <1>1, DivisionFacts DEF Iterations, Remainder

\* A file of two bytes or more is cut into at least one range.
LEMMA SomeRange ==
  ASSUME NEW L \in Nat, L >= 2, NEW N \in Nat \ {0}
  PROVE  Iterations(L, N) >= 1
<1> DEFINE H == HunkSize(L, N)
<1> DEFINE I == Iterations(L, N)
<1>1. H \in Nat \ {0} /\ I \in Nat /\ Remainder(L, N) \in 0 .. H - 1
      /\ L = H * I + Remainder(L, N)
  <2>1. L \in Nat \ {0}
    OBVIOUS
  <2> QED
    BY <2>1, HunkFacts
<1>2. H <= L
  <2>1. L \div N \in Nat /\ L \div N <= L
    BY DivisionFacts
  <2> QED
    BY <2>1, DivisionFacts DEF HunkSize
<1>3. ASSUME I = 0 PROVE FALSE
  <2>1. H * I = 0
    BY <1>1, <1>3
  <2> QED
    BY <2>1, <1>1, <1>2
<1> QED
  BY <1>1, <1>3

-----------------------------------------------------------------------------

\* Every range of the slice lies within the file and is not empty.
LEMMA RangeWithinFile ==
  ASSUME NEW L \in Nat \ {0}, NEW N \in Nat \ {0}, NEW w \in 1 .. Iterations(L, N)
  PROVE  /\ Lower(L, N, w) \in Nat
         /\ Upper(L, N, w) \in Nat
         /\ Lower(L, N, w) <= Upper(L, N, w)
         /\ Upper(L, N, w) < L
<1> DEFINE H == HunkSize(L, N)
<1> DEFINE I == Iterations(L, N)
<1> DEFINE R == Remainder(L, N)
<1>1. H \in Nat \ {0} /\ I \in Nat /\ R \in 0 .. H - 1 /\ L = H * I + R
  BY HunkFacts
<1>2. w \in Nat \ {0} /\ w <= I
  BY <1>1
<1>3. (w - 1) * H \in Nat /\ w * H = (w - 1) * H + H
  BY <1>1, <1>2
<1>4. w * H <= H * I
  BY <1>1, <1>2
<1>5. CASE w = I
  <2>1. Lower(L, N, w) = (w - 1) * H /\ Upper(L, N, w) = w * H - 1 + R
    BY <1>5 DEF Lower, Upper
  <2>2. w * H = H * I
    BY <1>1, <1>2, <1>5
  <2> HIDE DEF H, I, R
  <2> QED
    BY <2>1, <2>2, <1>1, <1>3
<1>6. CASE w # I
  <2>1. Lower(L, N, w) = (w - 1) * H /\ Upper(L, N, w) = w * H - 1 + 0
    BY <1>6 DEF Lower, Upper
  <2> HIDE DEF H, I, R
  <2> QED
    BY <2>1, <1>1, <1>3, <1>4
<1> QED
  BY <1>5, <1>6

\* An earlier range ends before a later one begins.
LEMMA RangesInOrder ==
  ASSUME NEW L \in Nat \ {0}, NEW N \in Nat \ {0},
         NEW v \in 1 .. Iterations(L, N), NEW w \in 1 .. Iterations(L, N), v < w
  PROVE  Upper(L, N, v) < Lower(L, N, w)
<1> DEFINE H == HunkSize(L, N)
<1> DEFINE I == Iterations(L, N)
<1>1. H \in Nat \ {0} /\ I \in Nat
  BY HunkFacts
<1>2. v \in Nat /\ w \in Nat /\ v <= w - 1 /\ v # I
  BY <1>1
<1>3. Upper(L, N, v) = v * H - 1 /\ Lower(L, N, w) = (w - 1) * H
  BY <1>1, <1>2 DEF Upper, Lower
<1>4. v * H <= (w - 1) * H
  BY <1>1, <1>2
<1>5. v * H \in Int /\ (w - 1) * H \in Int
  BY <1>1, <1>2
<1> QED
  BY <1>3, <1>4, <1>5

\* Every byte of the file lies in one of the ranges.
LEMMA EveryByteInSomeRange ==
  ASSUME NEW L \in Nat, L >= 2, NEW N \in Nat \ {0}, NEW b \in 0 .. L - 1
  PROVE  \E w \in 1 .. Iterations(L, N) : b \in Lower(L, N, w) .. Upper(L, N, w)
<1> DEFINE H == HunkSize(L, N)
<1> DEFINE I == Iterations(L, N)
<1> DEFINE R == Remainder(L, N)
<1>1. H \in Nat \ {0} /\ I \in Nat /\ I >= 1 /\ R \in 0 .. H - 1 /\ L = H * I + R
  <2>1. L \in Nat \ {0}
    OBVIOUS
  <2> QED
    BY <2>1, HunkFacts, SomeRange
<1> DEFINE q == b \div H
<1>2. q \in Nat /\ b = H * q + (b % H) /\ b % H \in 0 .. H - 1 /\ b \in Nat
  <2> HIDE DEF H
  <2> QED
    BY <1>1
<1>3. H * q \in Nat /\ H * I \in Nat
  BY <1>1, <1>2
<1>4. CASE q + 1 < I
  <2>1. q + 1 \in 1 .. I
    BY <1>1, <1>2, <1>4
  <2>2. Lower(L, N, q + 1) = H * q /\ Upper(L, N, q + 1) = H * q + H - 1
    BY <1>1, <1>2, <1>4 DEF Lower, Upper
  <2>3. b \in H * q .. H * q + H - 1
    <3> HIDE DEF H, q
    <3> QED
      BY <1>1, <1>2, <1>3
  <2> QED
    BY <2>1, <2>2, <2>3
<1>5. CASE q + 1 >= I
  <2>1. I \in 1 .. I
    BY <1>1
  <2>2. Lower(L, N, I) = H * I - H /\ Upper(L, N, I) = H * I - 1 + R
    BY <1>1 DEF Lower, Upper
  <2>3. H * I - H <= H * q
    <3>1. H * (I - 1) <= H * q
      BY <1>1, <1>2, <1>5
    <3>2. H * (I - 1) = H * I - H
      BY <1>1
    <3> QED
      BY <3>1, <3>2
  <2>4. b \in H * I - H .. H * I - 1 + R
    <3> HIDE DEF H, I, R, q
    <3> QED
      BY <1>1, <1>2, <1>3, <2>3
  <2> QED
    BY <2>1, <2>2, <2>4
<1> QED
  BY <1>1, <1>2, <1>4, <1>5

\* There are never twice as many ranges, and so concurrent GETs, as hunks
\* (ranger.go:40-45): the workers of Downloader suffice for every range.
THEOREM FewerRangesThanWorkers ==
  ASSUME NEW L \in Nat \ {0}, NEW N \in Nat \ {0}
  PROVE  Iterations(L, N) <= 2 * N - 1
<1> DEFINE H == HunkSize(L, N)
<1> DEFINE I == Iterations(L, N)
<1> DEFINE q == L \div N
<1>1. H \in Nat \ {0} /\ I \in Nat /\ H * I <= L
  BY HunkFacts
<1>2. q \in Nat /\ L = N * q + (L % N) /\ L % N \in 0 .. N - 1 /\ Quot(L, N) = q
  BY DivisionFacts
<1>3. CASE q = 0
  <2>1. H = 2
    BY <1>2, <1>3 DEF HunkSize
  <2>2. L <= N - 1
    BY <1>2, <1>3
  <2>3. 2 * I <= N - 1
    <3> HIDE DEF H, I
    <3> QED
      BY <2>1, <2>2, <1>1
  <2> QED
    BY <2>3, <1>1
<1>4. CASE q # 0
  <2>1. H = q
    BY <1>2, <1>4 DEF HunkSize
  <2>2. L < N * q + N
    BY <1>2
  <2>3. N <= N * q
    BY <1>2, <1>4
  <2>4. q * I < q * (2 * N)
    <3>1. q * (2 * N) = N * q + N * q
      BY <1>2
    <3>2. N * q \in Int /\ q * I \in Int
      BY <1>1, <1>2
    <3> HIDE DEF q, I, H
    <3> QED
      BY <2>1, <2>2, <2>3, <3>1, <3>2, <1>1
  <2>5. ASSUME I >= 2 * N PROVE FALSE
    <3>1. q * I >= q * (2 * N)
      BY <1>1, <1>2, <2>5
    <3> QED
      BY <3>1, <2>4, <1>1, <1>2
  <2> QED
    BY <2>5, <1>1
<1> QED
  BY <1>3, <1>4

-----------------------------------------------------------------------------
(* Sums.  No induction theorem with an operator parameter is needed: each    *)
(* induction is the search for a smallest counterexample, which exists       *)
(* because the strict subset relation and < are well-founded.                *)

\* The recursion of SumFunction, which picks the next element as it likes.
Pick(s) == CHOOSE x \in s : TRUE

Adds(f, h, s) == h[s] = IF s = {} THEN 0 ELSE f[Pick(s)] + h[s \ {Pick(s)}]

AddsUp(f, h, t) == \A s \in SUBSET t : Adds(f, h, s)

SumsOf(f, S) == CHOOSE h : h = [s \in SUBSET S |-> IF s = {} THEN 0 ELSE f[Pick(s)] + h[s \ {Pick(s)}]]

LEMMA SumIsRecursive ==
  ASSUME NEW f, NEW S
  PROVE  SumFunctionOnSet(f, S) = SumsOf(f, S)[S]
BY DEF SumFunctionOnSet, FoldFunctionOnSet, MapThenFoldSet, SumsOf, Pick

\* Induction over the subsets of a finite set, as the search for a smallest
\* counterexample.
LEMMA SmallestSubset ==
  ASSUME NEW S, IsFiniteSet(S), NEW T, T \subseteq SUBSET S, T # {}
  PROVE  \E t \in T : \A u \in T : u \subseteq t => u = t
<1>1. IsWellFoundedOn(StrictSubsetOrdering(S), SUBSET S)
  BY FS_StrictSubsetOrderingWellFounded, FS_FiniteSubsetsOfFinite
<1>2. PICK t \in T : \A u \in T : ~(<<u, t>> \in StrictSubsetOrdering(S))
  BY <1>1, WFMin
<1> QED
  BY <1>2 DEF StrictSubsetOrdering

LEMMA PickIsIn ==
  ASSUME NEW s, s # {}
  PROVE  Pick(s) \in s
BY DEF Pick

Agree(f, g, t) == \A x \in t : f[x] = g[x]

\* Two functions that agree on t have the same sum over t.
LEMMA SameSums ==
  ASSUME NEW S, IsFiniteSet(S), NEW f, NEW g, NEW h, NEW k, NEW t \in SUBSET S,
         Agree(f, g, t), AddsUp(f, h, t), AddsUp(g, k, t)
  PROVE  h[t] = k[t]
<1> DEFINE T == {u \in SUBSET t : h[u] # k[u]}
<1> SUFFICES ASSUME T # {} PROVE FALSE
  OBVIOUS
<1>1. PICK u \in T : \A v \in T : v \subseteq u => v = u
  <2>1. T \subseteq SUBSET S /\ T # {}
    OBVIOUS
  <2> HIDE DEF T
  <2> QED
    BY <2>1, SmallestSubset
<1>2. u # {}
  BY DEF Adds, AddsUp
<1>3. Pick(u) \in u
  BY <1>2, PickIsIn
<1>4. h[u \ {Pick(u)}] = k[u \ {Pick(u)}]
  BY <1>1, <1>3
<1>5. Adds(f, h, u) /\ Adds(g, k, u) /\ f[Pick(u)] = g[Pick(u)]
  BY <1>1, <1>3 DEF AddsUp, Agree
<1> QED
  BY <1>1, <1>2, <1>4, <1>5 DEF Adds

\* A finite sum exists, and is a number.
LEMMA SumsExist ==
  ASSUME NEW S, IsFiniteSet(S), NEW f \in [S -> Int]
  PROVE  /\ SumsOf(f, S) \in [SUBSET S -> Int]
         /\ AddsUp(f, SumsOf(f, S), S)
<1> DEFINE G == [SUBSET S -> Int]
           Good(g, t) == AddsUp(f, g, t)
           v(t) == (CHOOSE g \in G : Good(g, t))[t]
           Bad == {t \in SUBSET S : ~\E g \in G : Good(g, t)}
<1>1. ASSUME NEW t \in SUBSET S, NEW g \in G, Good(g, t)
      PROVE  \A u \in SUBSET t : v(u) = g[u]
  <2> SUFFICES ASSUME NEW u \in SUBSET t PROVE v(u) = g[u]
    OBVIOUS
  <2>1. Good(g, u)
    BY <1>1 DEF AddsUp
  <2>2. PICK h \in G : h = (CHOOSE hh \in G : Good(hh, u)) /\ Good(h, u)
    BY <2>1
  <2>3. h[u] = g[u]
    <3>1. u \in SUBSET S /\ AddsUp(f, h, u) /\ AddsUp(f, g, u)
      BY <2>1, <2>2
    <3> QED
      BY <3>1, SameSums DEF Agree
  <2> QED
    BY <2>2, <2>3
<1>2. Bad = {}
  <2> SUFFICES ASSUME Bad # {} PROVE FALSE
    OBVIOUS
  <2>1. PICK t \in Bad : \A u \in Bad : u \subseteq t => u = t
    <3>1. Bad \subseteq SUBSET S /\ Bad # {}
      OBVIOUS
    <3> HIDE DEF Bad
    <3> QED
      BY <3>1, SmallestSubset
  <2>2. ASSUME NEW u \in SUBSET t, u # t
        PROVE  v(u) \in Int /\ v(u) = IF u = {} THEN 0 ELSE f[Pick(u)] + v(u \ {Pick(u)})
    <3>1. PICK g \in G : Good(g, u)
      BY <2>1, <2>2
    <3>2. v(u) = g[u] /\ v(u \ {Pick(u)}) = g[u \ {Pick(u)}] /\ u \in SUBSET S
      <4>1. \A w \in SUBSET u : v(w) = g[w]
        BY <1>1, <3>1
      <4> HIDE DEF v
      <4> QED
        BY <4>1
    <3> HIDE DEF v
    <3>3. Adds(f, g, u)
      BY <3>1 DEF AddsUp
    <3> QED
      BY <3>2, <3>3 DEF Adds
  <2> HIDE DEF v
  <2> DEFINE last == IF t = {} THEN 0 ELSE f[Pick(t)] + v(t \ {Pick(t)})
             g == [u \in SUBSET S |-> IF u \subseteq t /\ u # t THEN v(u) ELSE IF u = t THEN last ELSE 0]
  <2>3. t # {} => Pick(t) \in t /\ Pick(t) \in S /\ t \ {Pick(t)} # t
    BY PickIsIn
  <2>4. last \in Int
    <3>1. t # {} => v(t \ {Pick(t)}) \in Int
      BY <2>2, <2>3
    <3>2. t # {} => f[Pick(t)] \in Int
      BY <2>3
    <3> QED
      BY <3>1, <3>2
  <2>5. g \in G
    BY <2>2, <2>4
  <2>6. ASSUME NEW u \in SUBSET t
        PROVE  Adds(f, g, u)
    <3>1. CASE u = t
      <4>1. t # {} => g[t \ {Pick(t)}] = v(t \ {Pick(t)})
        BY <2>3
      <4> QED
        BY <3>1, <4>1 DEF Adds
    <3>2. CASE u # t
      <4>1. g[u] = v(u)
        BY <3>2
      <4>2. u # {} => Pick(u) \in u
        BY PickIsIn
      <4>3. u # {} => g[u \ {Pick(u)}] = v(u \ {Pick(u)})
        BY <3>2, <4>2
      <4> QED
        BY <2>2, <3>2, <4>1, <4>3 DEF Adds
    <3> QED
      BY <3>1, <3>2
  <2> QED
    BY <2>1, <2>5, <2>6 DEF AddsUp
<1> HIDE DEF v
<1> DEFINE V == [t \in SUBSET S |-> v(t)]
<1>3. ASSUME NEW t \in SUBSET S
      PROVE  v(t) \in Int /\ v(t) = IF t = {} THEN 0 ELSE f[Pick(t)] + v(t \ {Pick(t)})
  <2>1. PICK g \in G : Good(g, t)
    BY <1>2
  <2>2. v(t) = g[t] /\ v(t \ {Pick(t)}) = g[t \ {Pick(t)}]
    BY <1>1, <2>1
  <2>3. Adds(f, g, t)
    BY <2>1 DEF AddsUp
  <2> QED
    BY <2>2, <2>3 DEF Adds
<1>4. V = [s \in SUBSET S |-> IF s = {} THEN 0 ELSE f[Pick(s)] + V[s \ {Pick(s)}]]
  BY <1>3
<1>5. SumsOf(f, S) = [s \in SUBSET S |-> IF s = {} THEN 0 ELSE f[Pick(s)] + SumsOf(f, S)[s \ {Pick(s)}]]
  <2> HIDE DEF V
  <2> QED
    BY <1>4 DEF SumsOf
<1> DEFINE h == SumsOf(f, S)
<1>6. ASSUME NEW s \in SUBSET S
      PROVE  Adds(f, h, s)
  <2> HIDE DEF h
  <2>1. h = [t \in SUBSET S |-> IF t = {} THEN 0 ELSE f[Pick(t)] + h[t \ {Pick(t)}]]
    BY <1>5 DEF h
  <2> QED
    BY <2>1 DEF Adds
<1>7. ASSUME NEW s \in SUBSET S
      PROVE  h[s] \in Int
  <2>1. AddsUp(f, h, s) /\ AddsUp(f, V, s)
    BY <1>3, <1>6 DEF Adds, AddsUp
  <2>2. h[s] = V[s]
    <3> HIDE DEF h, V
    <3> QED
      BY <2>1, SameSums DEF Agree
  <2> QED
    BY <1>3, <2>2
<1> QED
  BY <1>5, <1>6, <1>7 DEF AddsUp

\* In whatever order the elements are picked, any of them may come first.
LEMMA SumSplits ==
  ASSUME NEW S, IsFiniteSet(S), NEW f \in [S -> Int], NEW t \in SUBSET S, NEW x \in t
  PROVE  SumsOf(f, S)[t] = f[x] + SumsOf(f, S)[t \ {x}]
<1> DEFINE h == SumsOf(f, S)
           T == {u \in SUBSET S : \E y \in u : h[u] # f[y] + h[u \ {y}]}
<1> SUFFICES ASSUME T # {} PROVE FALSE
  OBVIOUS
<1>1. h \in [SUBSET S -> Int] /\ \A s \in SUBSET S : Adds(f, h, s)
  BY SumsExist DEF AddsUp
<1> HIDE DEF h
<1>2. PICK u \in T : \A v \in T : v \subseteq u => v = u
  <2>1. T \subseteq SUBSET S /\ T # {}
    OBVIOUS
  <2> HIDE DEF T
  <2> QED
    BY <2>1, SmallestSubset
<1>3. PICK y \in u : h[u] # f[y] + h[u \ {y}]
  BY <1>2
<1> DEFINE z == Pick(u)
<1>4. z \in u
  BY <1>2, PickIsIn
<1>5. h[u] = f[z] + h[u \ {z}]
  BY <1>1, <1>4 DEF Adds
<1> HIDE DEF z
<1>6. y # z
  BY <1>3, <1>5
<1>7. ASSUME NEW v \in SUBSET u, v # u, NEW w \in v
      PROVE  h[v] = f[w] + h[v \ {w}]
  <2>1. v \in SUBSET S /\ v \notin T
    BY <1>2, <1>7
  <2> QED
    BY <2>1
<1> DEFINE rest == u \ {y, z}
<1>8. /\ (u \ {z}) \ {y} = rest /\ (u \ {y}) \ {z} = rest
      /\ y \in u \ {z} /\ z \in u \ {y}
      /\ u \ {y} # u /\ u \ {z} # u
  BY <1>4, <1>6
<1>9. h[u \ {z}] = f[y] + h[rest] /\ h[u \ {y}] = f[z] + h[rest]
  <2> HIDE DEF T
  <2>1. h[u \ {z}] = f[y] + h[(u \ {z}) \ {y}]
    BY <1>7, <1>8
  <2>2. h[u \ {y}] = f[z] + h[(u \ {y}) \ {z}]
    BY <1>7, <1>8
  <2> QED
    BY <2>1, <2>2, <1>8
<1>10. f[y] \in Int /\ f[z] \in Int /\ h[rest] \in Int
  BY <1>1, <1>4
<1> HIDE DEF rest, T
<1> QED
  BY <1>3, <1>5, <1>9, <1>10

\* A sum over S, as the last of sums over its subsets, to which any element
\* may be added last.
SumsOneByOne(f, S, h) ==
  /\ SumFunctionOnSet(f, S) = h[S]
  /\ h[{}] = 0
  /\ \A t \in SUBSET S : \A x \in t : h[t] = f[x] + h[t \ {x}]

LEMMA SumOneByOne ==
  ASSUME NEW S, IsFiniteSet(S), NEW f \in [S -> Int]
  PROVE  \E h \in [SUBSET S -> Int] : SumsOneByOne(f, S, h)
<1> DEFINE h == SumsOf(f, S)
<1>1. h \in [SUBSET S -> Int] /\ Adds(f, h, {})
  BY SumsExist DEF AddsUp
<1>2. ASSUME NEW t \in SUBSET S, NEW x \in t
      PROVE  h[t] = f[x] + h[t \ {x}]
  BY SumSplits
<1>3. SumFunctionOnSet(f, S) = h[S]
  BY SumIsRecursive
<1> HIDE DEF h
<1>4. h[{}] = 0
  BY <1>1 DEF Adds
<1> QED
  BY <1>1, <1>2, <1>3, <1>4 DEF SumsOneByOne

\* A sum changes as the one element that differs.
LEMMA SumChanges ==
  ASSUME NEW S, IsFiniteSet(S), NEW f \in [S -> Int], NEW g \in [S -> Int], NEW x \in S,
         Agree(f, g, S \ {x})
  PROVE  SumFunctionOnSet(g, S) = SumFunctionOnSet(f, S) - f[x] + g[x]
<1>1. PICK h \in [SUBSET S -> Int] : h = SumsOf(f, S) /\ AddsUp(f, h, S)
  BY SumsExist
<1>2. PICK k \in [SUBSET S -> Int] : k = SumsOf(g, S) /\ AddsUp(g, k, S)
  BY SumsExist
<1>3. h[S] = f[x] + h[S \ {x}] /\ k[S] = g[x] + k[S \ {x}]
  BY <1>1, <1>2, SumSplits
<1>4. h[S \ {x}] = k[S \ {x}]
  <2>1. AddsUp(f, h, S \ {x}) /\ AddsUp(g, k, S \ {x})
    BY <1>1, <1>2 DEF AddsUp
  <2> QED
    BY <2>1, SameSums
<1>5. SumFunctionOnSet(f, S) = h[S] /\ SumFunctionOnSet(g, S) = k[S]
  BY <1>1, <1>2, SumIsRecursive
<1>6. h[S \ {x}] \in Int /\ f[x] \in Int /\ g[x] \in Int
  OBVIOUS
<1> QED
  BY <1>3, <1>4, <1>5, <1>6

\* Nothing but zeros makes zero.
LEMMA SumOfZeros ==
  ASSUME NEW S, IsFiniteSet(S)
  PROVE  SumFunctionOnSet([x \in S |-> 0], S) = 0
<1> DEFINE f == [x \in S |-> 0]
           h == SumsOf(f, S)
           k == [s \in SUBSET S |-> 0]
<1>1. AddsUp(f, h, S)
  <2>1. f \in [S -> Int]
    OBVIOUS
  <2> HIDE DEF f
  <2> QED
    BY <2>1, SumsExist
<1>2. AddsUp(f, k, S)
  <2>1. \A s \in SUBSET S : s # {} => Pick(s) \in s
    BY PickIsIn
  <2> QED
    BY <2>1 DEF Adds, AddsUp
<1>3. h[S] = k[S]
  <2> HIDE DEF f, h, k
  <2> QED
    BY <1>1, <1>2, SameSums DEF Agree
<1> QED
  BY <1>3, SumIsRecursive

\* No sum of natural numbers is negative.
LEMMA SumOfNaturals ==
  ASSUME NEW S, IsFiniteSet(S), NEW f \in [S -> Nat]
  PROVE  SumFunctionOnSet(f, S) \in Nat
<1>1. f \in [S -> Int]
  OBVIOUS
<1>2. PICK h \in [SUBSET S -> Int] : SumsOneByOne(f, S, h)
  BY <1>1, SumOneByOne
<1> DEFINE T == {t \in SUBSET S : h[t] < 0}
<1>3. T = {}
  <2> SUFFICES ASSUME T # {} PROVE FALSE
    OBVIOUS
  <2>1. PICK t \in T : \A u \in T : u \subseteq t => u = t
    <3>1. T \subseteq SUBSET S /\ T # {}
      OBVIOUS
    <3> HIDE DEF T
    <3> QED
      BY <3>1, SmallestSubset
  <2>2. t # {}
    <3>1. h[t] < 0
      BY <2>1
    <3>2. h[{}] = 0
      BY <1>2, Zenon DEF SumsOneByOne
    <3>3. t = {} => h[t] = h[{}]
      OBVIOUS
    <3>4. h[t] # 0
      BY <3>1
    <3> QED
      BY <3>2, <3>3, <3>4, Zenon
  <2>3. PICK x \in t : h[t] = f[x] + h[t \ {x}]
    BY <1>2, <2>1, <2>2 DEF SumsOneByOne
  <2>4. h[t \ {x}] \in Int /\ ~(h[t \ {x}] < 0) /\ f[x] \in Nat
    BY <2>1, <2>3
  <2> HIDE DEF T
  <2>5. h[t] >= 0
    BY <2>3, <2>4
  <2> QED
    BY <2>1, <2>5 DEF T
<1>4. h[S] \in Int /\ ~(h[S] < 0)
  BY <1>3
<1> QED
  BY <1>2, <1>4 DEF SumsOneByOne

LEMMA LeastNumber ==
  ASSUME NEW T, T \subseteq Nat, T # {}
  PROVE  \E n \in T : \A m \in T : n <= m
<1>1. IsWellFoundedOn({ss \in Nat \X Nat : ss[1] < ss[2]}, Nat)
  BY NatLessThanWellFounded DEF OpToRel
<1>2. PICK n \in T : \A m \in T : ~(<<m, n>> \in {ss \in Nat \X Nat : ss[1] < ss[2]})
  BY <1>1, WFMin
<1>3. \A m \in T : m \in Nat /\ ~(m < n) /\ n \in Nat
  BY <1>2
<1> QED
  BY <1>3

\* The sum over the numbers up to n, as the last of sums over fewer of them.
LEMMA SumInOrder ==
  ASSUME NEW n \in Nat, NEW f \in [1 .. n -> Int]
  PROVE  \E q \in [0 .. n -> Int] :
           /\ SumFunctionOnSet(f, 1 .. n) = q[n]
           /\ q[0] = 0
           /\ \A i \in 1 .. n : q[i] = f[i] + q[i - 1]
<1> DEFINE S == 1 .. n
<1>1. IsFiniteSet(S) /\ f \in [S -> Int]
  BY FS_Interval
<1>2. PICK h \in [SUBSET S -> Int] : SumsOneByOne(f, S, h)
  <2> HIDE DEF S
  <2> QED
    BY <1>1, SumOneByOne
<1> DEFINE q == [i \in 0 .. n |-> h[1 .. i]]
<1>3. q \in [0 .. n -> Int]
  <2>1. \A i \in 0 .. n : 1 .. i \in SUBSET S
    OBVIOUS
  <2> HIDE DEF S
  <2> QED
    BY <2>1
<1>4. q[n] = h[S]
  BY DEF S
<1>5. q[0] = 0
  <2>1. 1 .. 0 = {} /\ 0 \in 0 .. n
    OBVIOUS
  <2>2. q[0] = h[1 .. 0]
    BY <2>1
  <2> HIDE DEF q
  <2> QED
    BY <1>2, <2>1, <2>2, Zenon DEF SumsOneByOne
<1>6. ASSUME NEW i \in 1 .. n
      PROVE  q[i] = f[i] + q[i - 1]
  <2>1. 1 .. i \in SUBSET S /\ i \in 1 .. i
    OBVIOUS
  <2>2. (1 .. i) \ {i} = 1 .. (i - 1)
    <3>1. \A j \in (1 .. i) \ {i} : j \in 1 .. (i - 1)
      OBVIOUS
    <3>2. \A j \in 1 .. (i - 1) : j \in (1 .. i) \ {i}
      OBVIOUS
    <3> QED
      BY <3>1, <3>2, Zenon
  <2>3. q[i] = h[1 .. i] /\ q[i - 1] = h[1 .. (i - 1)]
    OBVIOUS
  <2>4. h[1 .. i] = f[i] + h[(1 .. i) \ {i}]
    BY <1>2, <2>1, Zenon DEF SumsOneByOne
  <2> HIDE DEF q
  <2> QED
    BY <2>2, <2>3, <2>4, Zenon
<1> HIDE DEF q, S
<1> QED
  BY <1>2, <1>3, <1>4, <1>5, <1>6 DEF S, SumsOneByOne

\* f is how far each step of at goes.
Steps(at, f, n) == \A i \in 1 .. n : f[i] = at[i] - at[i - 1]

\* The steps of a function add up to the way from its first value to its last.
LEMMA SumTelescopes ==
  ASSUME NEW n \in Nat, NEW f \in [1 .. n -> Int], NEW at \in [0 .. n -> Int],
         Steps(at, f, n)
  PROVE  SumFunctionOnSet(f, 1 .. n) = at[n] - at[0]
<1>1. PICK q \in [0 .. n -> Int] :
        /\ SumFunctionOnSet(f, 1 .. n) = q[n]
        /\ q[0] = 0
        /\ \A i \in 1 .. n : q[i] = f[i] + q[i - 1]
  BY SumInOrder, Zenon
<1> DEFINE T == {i \in 0 .. n : q[i] # at[i] - at[0]}
<1>2. T = {}
  <2> SUFFICES ASSUME T # {} PROVE FALSE
    OBVIOUS
  <2>1. PICK i \in T : \A j \in T : i <= j
    <3>1. T \subseteq Nat
      OBVIOUS
    <3> HIDE DEF T
    <3> QED
      BY <3>1, LeastNumber
  <2>2. i \in 0 .. n /\ q[i] # at[i] - at[0]
    OBVIOUS
  <2>3. i # 0
    BY <1>1, <2>2
  <2>4. i \in 1 .. n /\ i - 1 \in 0 .. n /\ ~(i <= i - 1)
    BY <2>2, <2>3
  <2>5. q[i - 1] = at[i - 1] - at[0]
    BY <2>1, <2>4
  <2> QED
    BY <1>1, <2>2, <2>4, <2>5 DEF Steps
<1>3. n \in 0 .. n
  OBVIOUS
<1>4. q[n] = at[n] - at[0]
  BY <1>2, <1>3
<1> QED
  BY <1>1, <1>4

-----------------------------------------------------------------------------

RangeLength(L, N, w) == Upper(L, N, w) - Lower(L, N, w) + 1

\* The ranges of BuildRange are as long together as the file
\* (ranger.go:45-63), also when longer slices are filled up with zeros.
THEOREM RangesAddUp ==
  ASSUME NEW L \in Nat, L >= 2, NEW N \in Nat \ {0}, NEW n \in Nat, Iterations(L, N) <= n,
         NEW f \in [1 .. n -> Int],
         \A w \in 1 .. n : f[w] = IF w <= Iterations(L, N) THEN RangeLength(L, N, w) ELSE 0
  PROVE  SumFunction(f) = L
<1> DEFINE H == HunkSize(L, N)
           I == Iterations(L, N)
           R == Remainder(L, N)
           at == [i \in 0 .. n |-> IF i < I THEN H * i ELSE L]
<1>1. H \in Nat \ {0} /\ I \in Nat /\ I >= 1 /\ I <= n /\ R \in Nat /\ L = H * I + R
  <2>1. L \in Nat \ {0}
    OBVIOUS
  <2> QED
    BY <2>1, HunkFacts, SomeRange
<1>2. at \in [0 .. n -> Int] /\ at[n] = L /\ at[0] = 0
  <2> HIDE DEF H, I, R
  <2>1. \A i \in 0 .. n : H * i \in Int
    BY <1>1
  <2>2. H * 0 = 0 /\ 0 \in 0 .. n /\ n \in 0 .. n
    BY <1>1
  <2>3. at \in [0 .. n -> Int]
    BY <1>1, <2>1
  <2> QED
    BY <1>1, <2>2, <2>3
<1>3. ASSUME NEW w \in 1 .. n
      PROVE  f[w] = at[w] - at[w - 1]
  <2>1. w \in 0 .. n /\ w - 1 \in 0 .. n
    OBVIOUS
  <2>2. H * w \in Int /\ H * (w - 1) = H * w - H /\ (w - 1) * H = H * w - H /\ w * H = H * w
    BY <1>1
  <2>3. CASE w < I
    <3>1. f[w] = H
      <4>1. Upper(L, N, w) = w * H - 1 + 0 /\ Lower(L, N, w) = (w - 1) * H
        BY <1>1, <2>3 DEF Upper, Lower
      <4>2. f[w] = Upper(L, N, w) - Lower(L, N, w) + 1
        BY <1>1, <2>3 DEF RangeLength
      <4> HIDE DEF H, I, R
      <4> QED
        BY <1>1, <2>2, <4>1, <4>2
    <3>2. at[w] = H * w /\ at[w - 1] = H * (w - 1)
      BY <1>1, <2>1, <2>3
    <3> HIDE DEF H, I, R, at
    <3> QED
      BY <1>1, <2>2, <3>1, <3>2
  <2>4. CASE w = I
    <3>1. f[w] = H + R
      <4>1. Upper(L, N, w) = w * H - 1 + R /\ Lower(L, N, w) = (w - 1) * H
        BY <1>1, <2>4 DEF Upper, Lower
      <4>2. f[w] = Upper(L, N, w) - Lower(L, N, w) + 1
        BY <1>1, <2>4 DEF RangeLength
      <4> HIDE DEF H, I, R
      <4> QED
        BY <1>1, <2>2, <4>1, <4>2
    <3>2. at[w] = L /\ at[w - 1] = H * (w - 1)
      BY <1>1, <2>1, <2>4
    <3> HIDE DEF H, I, R, at
    <3> QED
      BY <1>1, <2>2, <2>4, <3>1, <3>2
  <2>5. CASE w > I
    <3>1. f[w] = 0
      BY <1>1, <2>5
    <3>2. at[w] = L /\ at[w - 1] = L
      BY <1>1, <2>1, <2>5
    <3> QED
      BY <3>1, <3>2
  <2> QED
    BY <1>1, <2>3, <2>4, <2>5
<1>4. SumFunctionOnSet(f, 1 .. n) = at[n] - at[0]
  <2>1. Steps(at, f, n)
    BY <1>3 DEF Steps
  <2> HIDE DEF at
  <2> QED
    BY <1>2, <2>1, SumTelescopes
<1>5. DOMAIN f = 1 .. n
  OBVIOUS
<1> QED
  BY <1>2, <1>4, <1>5 DEF SumFunction

=============================================================================
