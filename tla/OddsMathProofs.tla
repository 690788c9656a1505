---------------------------- MODULE OddsMathProofs ---------------------------
(***************************************************************************)
(* Totals: induction over an initial segment of the naturals, and what it  *)
(* gives about the recursive functions of the models: that they exist, and *)
(* how a total moves when its terms do. Then the arithmetic of OddsMath at *)
(* every amount and price, and ladderAllocate at any stake, capacities and *)
(* weights, for a ladder of any length: it places the whole stake exactly  *)
(* when the capacities have room for it, never more than a capacity on its *)
(* rank, and no unit is lost to the weights' rounding. Products and        *)
(* quotients stay behind MulDiv once its defining bounds are known, so     *)
(* that every later step is linear or one use of MulMono.                  *)
(***************************************************************************)
EXTENDS OddsMath, Totals, Functions, FiniteSetTheorems, FunctionTheorems,
        WellFoundedInduction, TLAPS

-----------------------------------------------------------------------------
(* Induction, with the set of numbers for which a fact holds in the place  *)
(* of a predicate.                                                         *)

\* A non-empty set of naturals has a least element.
LEMMA LeastNat ==
    ASSUME NEW S \in SUBSET Nat, S # {}
    PROVE  \E x \in S : \A y \in S : x <= y
<1>1. IsWellFoundedOn(OpToRel(<, Nat), Nat)
  BY NatLessThanWellFounded
<1>2. PICK x \in S : \A y \in S : ~(<<y, x>> \in OpToRel(<, Nat))
  BY <1>1, WFMin
<1>3. \A y \in S : ~(y < x)
  BY <1>2 DEF OpToRel
<1>. QED  BY <1>3

\* Induction, for a set instead of a predicate.
LEMMA SetInduction ==
    ASSUME NEW n \in Nat, NEW S \in SUBSET (0..n), 0 \in S,
           \A k \in 0..n : k \in S /\ k < n => k + 1 \in S
    PROVE  S = 0..n
<1>. SUFFICES ASSUME (0..n) \ S # {} PROVE FALSE
  OBVIOUS
<1>1. PICK x \in (0..n) \ S : \A y \in (0..n) \ S : x <= y
  BY LeastNat, (0..n) \ S \in SUBSET Nat
<1>2. x # 0 /\ x - 1 \in 0..n /\ x - 1 < n
  BY <1>1
<1>3. x - 1 \in S
  BY <1>1, <1>2
<1>4. (x - 1) + 1 \in S
  BY <1>2, <1>3
<1>. QED  BY <1>1, <1>2, <1>4

-----------------------------------------------------------------------------
(* A recursive function on 0..n exists. *)

\* f takes a step of its own at each of 1..n, from base.
Recurs(f, T, n, base, step) ==
    /\ f \in [0..n -> T] /\ f[0] = base
    /\ \A k \in 1..n : f[k] = step[k][f[k - 1]]

\* A function defined by recursion on 0..n satisfies its equation.
LEMMA RecursionExists ==
    ASSUME NEW n \in Nat, NEW T, NEW base \in T, NEW step \in [1..n -> [T -> T]]
    PROVE  \E f : Recurs(f, T, n, base, step)
<1>. DEFINE Solves(f, j) == f[0] = base /\ \A k \in 1..j : f[k] = step[k][f[k - 1]]
            S == {j \in 0..n : \E f \in [0..n -> T] : Solves(f, j)}
<1>1. 0 \in S
  <2>. DEFINE g == [k \in 0..n |-> base]
  <2>1. g \in [0..n -> T] /\ g[0] = base
    OBVIOUS
  <2>. HIDE DEF g
  <2>2. Solves(g, 0)
    BY <2>1
  <2>. QED  BY <2>1, <2>2, SMTT(30)
<1>2. ASSUME NEW j \in 0..n, j \in S, j < n PROVE j + 1 \in S
  <2>1. PICK f \in [0..n -> T] : Solves(f, j)
    BY <1>2
  <2>. DEFINE g == [f EXCEPT ![j + 1] = step[j + 1][f[j]]]
  <2>2. j \in 0..n /\ j + 1 \in 1..n /\ j + 1 \in 0..n
    BY <1>2
  <2>3. step[j + 1][f[j]] \in T
    BY <2>2
  <2>4. g \in [0..n -> T]
    BY <2>3
  <2>5. g[j + 1] = step[j + 1][g[j]] /\ \A k \in 0..j : g[k] = f[k]
    BY <2>2
  <2>6. Solves(g, j + 1)
    <3>1. g[0] = base
      BY <2>1, <2>5
    <3>2. ASSUME NEW k \in 1..j PROVE g[k] = step[k][g[k - 1]]
      BY <2>1, <2>5, k - 1 \in 0..j, k \in 0..j
    <3>3. ASSUME NEW k \in 1..(j + 1) PROVE g[k] = step[k][g[k - 1]]
      <4>1. CASE k \in 1..j
        BY <3>2, <4>1
      <4>2. CASE k = j + 1
        BY <2>5, <4>2, k - 1 = j
      <4>. QED  BY <3>3, <4>1, <4>2
    <3>. QED  BY <3>1, <3>3
  <2>. QED  BY <2>2, <2>4, <2>6
<1>. HIDE DEF S
<1>3. S = 0..n
  <2>1. S \in SUBSET (0..n)
    BY DEF S
  <2>. QED  BY <1>1, <1>2, <2>1, SetInduction
<1>4. n \in S
  BY <1>3
<1>. QED  BY <1>4 DEF S, Recurs

OnSegment(f, n) == f = [k \in 0..n |-> f[k]]

\* There is only one: where one step follows from the last, so does all of it.
LEMMA RecursionUnique ==
    ASSUME NEW n \in Nat, NEW f, NEW g, f[0] = g[0],
           OnSegment(f, n), OnSegment(g, n),
           \A k \in 1..n : f[k - 1] = g[k - 1] => f[k] = g[k]
    PROVE  f = g
<1>. DEFINE S == {k \in 0..n : f[k] = g[k]}
<1>1. 0 \in S
  OBVIOUS
<1>2. ASSUME NEW k \in 0..n, k \in S, k < n PROVE k + 1 \in S
  <2>1. k + 1 \in 1..n /\ (k + 1) - 1 = k
    BY <1>2
  <2>. QED  BY <1>2, <2>1
<1>3. S = 0..n
  <2>1. S \in SUBSET (0..n)
    OBVIOUS
  <2>. HIDE DEF S
  <2>. QED  BY <1>1, <1>2, <2>1, SetInduction
<1>4. \A k \in 0..n : f[k] = g[k]
  BY <1>3
<1>. QED  BY <1>4 DEF OnSegment

\* In particular, of integers.
LEMMA RecursiveFunction ==
    ASSUME NEW n \in Nat, NEW base \in Int, NEW step \in [1..n -> [Int -> Int]]
    PROVE  \E f \in [0..n -> Int] :
              /\ f[0] = base
              /\ \A k \in 1..n : f[k] = step[k][f[k - 1]]
<1>1. \E f : Recurs(f, Int, n, base, step)
  BY RecursionExists
<1>. QED  BY <1>1 DEF Recurs

\* The running total of a function of integers is the function its
\* definition describes.
LEMMA RunningTotalDef ==
    ASSUME NEW n \in Nat, NEW f \in [1..n -> Int]
    PROVE  /\ RunningTotal(f, n) \in [0..n -> Int]
           /\ RunningTotal(f, n)[0] = 0
           /\ \A k \in 1..n : RunningTotal(f, n)[k] = RunningTotal(f, n)[k - 1] + f[k]
<1>. DEFINE Eq(t) == t = [k \in 0..n |-> IF k = 0 THEN 0 ELSE t[k - 1] + f[k]]
<1>1. \E t : Eq(t)
  <2>. DEFINE step == [k \in 1..n |-> [x \in Int |-> x + f[k]]]
  <2>1. step \in [1..n -> [Int -> Int]]
    OBVIOUS
  <2>. HIDE DEF step
  <2>2. PICK t \in [0..n -> Int] : /\ t[0] = 0
                                   /\ \A k \in 1..n : t[k] = step[k][t[k - 1]]
    BY <2>1, 0 \in Int, RecursiveFunction, Zenon
  <2>3. \A k \in 1..n : t[k - 1] \in Int
    OBVIOUS
  <2>4. \A k \in 1..n : t[k] = t[k - 1] + f[k]
    BY <2>2, <2>3 DEF step
  <2>5. t = [k \in 0..n |-> IF k = 0 THEN 0 ELSE t[k - 1] + f[k]]
    BY <2>2, <2>4
  <2>. QED  BY <2>5
<1>2. Eq(RunningTotal(f, n))
  BY <1>1 DEF RunningTotal
<1>. DEFINE t == RunningTotal(f, n)
            S == {k \in 0..n : t[k] \in Int}
<1>0. t = [k \in 0..n |-> IF k = 0 THEN 0 ELSE t[k - 1] + f[k]]
  BY <1>2
<1>. HIDE DEF t
<1>3. /\ t[0] = 0
      /\ \A k \in 1..n : t[k] = t[k - 1] + f[k]
  BY <1>0
<1>4. t = [k \in 0..n |-> t[k]]
  BY <1>0
<1>5. 0 \in S
  BY <1>3
<1>6. ASSUME NEW k \in 0..n, k \in S, k < n PROVE k + 1 \in S
  <2>1. k + 1 \in 1..n /\ (k + 1) - 1 = k
    BY <1>6
  <2>2. t[k + 1] = t[k] + f[k + 1]
    BY <1>3, <2>1
  <2>. QED  BY <1>6, <2>1, <2>2
<1>7. S = 0..n
  <2>. HIDE DEF S
  <2>1. S \in SUBSET (0..n)
    BY DEF S
  <2>. QED  BY <1>5, <1>6, <2>1, SetInduction
<1>8. \A k \in 0..n : t[k] \in Int
  BY <1>7
<1>9. t \in [0..n -> Int]
  BY <1>4, <1>8
<1>. QED  BY <1>3, <1>9 DEF t

\* A total of amounts is an amount.
LEMMA TotalOfAmounts ==
    ASSUME NEW n \in Nat, NEW f \in [1..n -> Nat]
    PROVE  SumTo(f, n) \in Nat
<1>. DEFINE t == RunningTotal(f, n)
            S == {k \in 0..n : t[k] >= 0}
<1>1. f \in [1..n -> Int]
  OBVIOUS
<1>2. /\ t \in [0..n -> Int]
      /\ t[0] = 0
      /\ \A k \in 1..n : t[k] = t[k - 1] + f[k]
  BY <1>1, RunningTotalDef
<1>. HIDE DEF t
<1>3. 0 \in S
  BY <1>2
<1>4. ASSUME NEW k \in 0..n, k \in S, k < n PROVE k + 1 \in S
  <2>1. k + 1 \in 1..n /\ (k + 1) - 1 = k
    BY <1>4
  <2>2. t[k + 1] = t[k] + f[k + 1] /\ t[k] \in Int /\ f[k + 1] \in Nat
    BY <1>2, <2>1
  <2>. QED  BY <1>4, <2>1, <2>2
<1>5. S = 0..n
  <2>. HIDE DEF S
  <2>1. S \in SUBSET (0..n)
    BY DEF S
  <2>. QED  BY <1>3, <1>4, <2>1, SetInduction
<1>6. n \in 0..n
  OBVIOUS
<1>7. t[n] \in Nat
  <2>1. t[n] >= 0
    BY <1>5, <1>6
  <2>2. t[n] \in Int
    BY <1>2, <1>6
  <2>. QED  BY <2>1, <2>2
<1>. QED  BY <1>7 DEF t, SumTo

\* When one term changes, the total changes by as much.
LEMMA TotalChange ==
    ASSUME NEW n \in Nat, NEW f \in [1..n -> Int], NEW g \in [1..n -> Int],
           NEW i \in 1..n, \A k \in 1..n : k # i => g[k] = f[k]
    PROVE  SumTo(g, n) = SumTo(f, n) - f[i] + g[i]
<1>. DEFINE t == RunningTotal(f, n)
            u == RunningTotal(g, n)
            S == {k \in 0..n : u[k] = IF k < i THEN t[k] ELSE t[k] - f[i] + g[i]}
<1>1. /\ t \in [0..n -> Int] /\ u \in [0..n -> Int]
      /\ t[0] = 0 /\ u[0] = 0
      /\ \A k \in 1..n : t[k] = t[k - 1] + f[k] /\ u[k] = u[k - 1] + g[k]
  BY RunningTotalDef
<1>. HIDE DEF t, u
<1>2. 0 \in S
  BY <1>1
<1>3. ASSUME NEW k \in 0..n, k \in S, k < n PROVE k + 1 \in S
  <2>1. k + 1 \in 1..n /\ (k + 1) - 1 = k
    BY <1>3
  <2>2. /\ t[k + 1] = t[k] + f[k + 1] /\ u[k + 1] = u[k] + g[k + 1]
        /\ t[k] \in Int /\ f[k + 1] \in Int /\ u[k] \in Int /\ g[k + 1] \in Int
        /\ f[i] \in Int /\ g[i] \in Int
    BY <1>1, <2>1
  <2>3. u[k] = IF k < i THEN t[k] ELSE t[k] - f[i] + g[i]
    BY <1>3
  <2>. DEFINE Moved == IF k + 1 < i THEN t[k + 1] ELSE t[k + 1] - f[i] + g[i]
  <2>4. ASSUME k + 1 = i PROVE u[k + 1] = Moved
    <3>1. u[k] = t[k]
      BY <2>3, <2>4
    <3>2. ~(k + 1 < i)
      BY <2>4
    <3>3. f[k + 1] = f[i] /\ g[k + 1] = g[i]
      BY <2>4
    <3>4. t[k + 1] = t[k] + f[i] /\ u[k + 1] = t[k] + g[i]
      BY <2>2, <3>1, <3>3
    <3>5. Moved = t[k + 1] - f[i] + g[i]
      BY <3>2
    <3>6. u[k + 1] = t[k + 1] - f[i] + g[i]
      BY <2>2, <3>4
    <3>. QED  BY <3>5, <3>6
  <2>5. ASSUME k + 1 # i PROVE u[k + 1] = Moved
    <3>1. g[k + 1] = f[k + 1]
      BY <2>1, <2>5
    <3>2. k < i <=> k + 1 < i
      BY <2>5
    <3>3. CASE k < i
      <4>1. u[k] = t[k] /\ Moved = t[k + 1]
        BY <2>3, <3>2, <3>3
      <4>. QED  BY <2>2, <3>1, <4>1
    <3>4. CASE ~(k < i)
      <4>1. u[k] = t[k] - f[i] + g[i] /\ Moved = t[k + 1] - f[i] + g[i]
        BY <2>3, <3>2, <3>4
      <4>. DEFINE a == t[k]
                  b == f[k + 1]
                  c == f[i]
                  d == g[i]
      <4>2. t[k + 1] = a + b /\ u[k + 1] = u[k] + b
        BY <2>2, <3>1
      <4>3. a \in Int /\ b \in Int /\ c \in Int /\ d \in Int
        BY <2>2
      <4>4. u[k] = a - c + d /\ Moved = t[k + 1] - c + d
        BY <4>1
      <4>. HIDE DEF Moved, a, b, c, d
      <4>5. u[k + 1] = (a - c + d) + b /\ Moved = (a + b) - c + d
        BY <4>2, <4>4
      <4>. QED  BY <4>3, <4>5
    <3>. QED  BY <3>3, <3>4
  <2>6. u[k + 1] = Moved
    <3>. HIDE DEF Moved
    <3>. QED  BY <2>4, <2>5
  <2>. QED  BY <2>1, <2>6
<1>4. S = 0..n
  <2>. HIDE DEF S
  <2>1. S \in SUBSET (0..n)
    BY DEF S
  <2>. QED  BY <1>2, <1>3, <2>1, SetInduction
<1>5. u[n] = t[n] - f[i] + g[i]
  BY <1>4
<1>. QED  BY <1>5 DEF t, u, SumTo

\* Terms that are all zero add up to zero.
LEMMA TotalOfZeros ==
    ASSUME NEW n \in Nat, NEW f \in [1..n -> Int], \A k \in 1..n : f[k] = 0
    PROVE  SumTo(f, n) = 0
<1>. DEFINE t == RunningTotal(f, n)
            S == {k \in 0..n : t[k] = 0}
<1>1. /\ t \in [0..n -> Int]
      /\ t[0] = 0
      /\ \A k \in 1..n : t[k] = t[k - 1] + f[k]
  BY RunningTotalDef
<1>. HIDE DEF t
<1>2. 0 \in S
  BY <1>1
<1>3. ASSUME NEW k \in 0..n, k \in S, k < n PROVE k + 1 \in S
  <2>1. k + 1 \in 1..n /\ (k + 1) - 1 = k
    BY <1>3
  <2>2. t[k + 1] = t[k] + f[k + 1] /\ f[k + 1] = 0 /\ t[k] = 0
    BY <1>1, <1>3, <2>1
  <2>. QED  BY <2>1, <2>2
<1>4. S = 0..n
  <2>. HIDE DEF S
  <2>1. S \in SUBSET (0..n)
    BY DEF S
  <2>. QED  BY <1>2, <1>3, <2>1, SetInduction
<1>5. t[n] = 0
  BY <1>4
<1>. QED  BY <1>5 DEF t, SumTo

\* A function that grows by each term in turn ends at the total.
LEMMA TotalIs ==
    ASSUME NEW n \in Nat, NEW f \in [1..n -> Int], NEW t \in [0..n -> Int],
           t[0] = 0, \A k \in 1..n : t[k] = t[k - 1] + f[k]
    PROVE  SumTo(f, n) = t[n]
<1>. DEFINE u == RunningTotal(f, n)
            S == {k \in 0..n : u[k] = t[k]}
<1>1. /\ u \in [0..n -> Int]
      /\ u[0] = 0
      /\ \A k \in 1..n : u[k] = u[k - 1] + f[k]
  BY RunningTotalDef
<1>. HIDE DEF u
<1>2. 0 \in S
  BY <1>1
<1>3. ASSUME NEW k \in 0..n, k \in S, k < n PROVE k + 1 \in S
  <2>1. k + 1 \in 1..n /\ (k + 1) - 1 = k
    BY <1>3
  <2>2. u[k + 1] = u[k] + f[k + 1] /\ t[k + 1] = t[k] + f[k + 1] /\ u[k] = t[k]
    BY <1>1, <1>3, <2>1
  <2>. QED  BY <2>1, <2>2
<1>4. S = 0..n
  <2>. HIDE DEF S
  <2>1. S \in SUBSET (0..n)
    BY DEF S
  <2>. QED  BY <1>2, <1>3, <2>1, SetInduction
<1>. HIDE DEF S
<1>5. n \in S
  BY <1>4
<1>6. u[n] = t[n]
  BY <1>5 DEF S
<1>. QED  BY <1>6 DEF u, SumTo

\* An amount is at most the total it belongs to.
LEMMA TermOfTotal ==
    ASSUME NEW n \in Nat, NEW f \in [1..n -> Nat], NEW i \in 1..n
    PROVE  f[i] <= SumTo(f, n) /\ SumTo(f, n) \in Nat
<1>. DEFINE g == [f EXCEPT ![i] = 0]
<1>1. /\ f \in [1..n -> Int] /\ g \in [1..n -> Int] /\ g \in [1..n -> Nat]
      /\ g[i] = 0
      /\ \A k \in 1..n : k # i => g[k] = f[k]
  OBVIOUS
<1>. HIDE DEF g
<1>2. SumTo(g, n) = SumTo(f, n) - f[i] + g[i]
  BY <1>1, TotalChange
<1>3. SumTo(g, n) \in Nat /\ SumTo(f, n) \in Nat
  BY <1>1, TotalOfAmounts
<1>. DEFINE term == f[i]
            rest == SumTo(g, n)
            total == SumTo(f, n)
<1>4. term \in Nat /\ rest \in Nat /\ total \in Nat /\ rest = total - term
  BY <1>1, <1>2, <1>3
<1>. HIDE DEF term, rest, total
<1>5. term <= total
  BY <1>4
<1>. QED  BY <1>4, <1>5 DEF term, total

\* h is f with each term of g that is not zero added to a term of its own: the
\* one id names.
TermsAdded(f, N, g, n, h, F, id) ==
    /\ \A i \in (1..n) \ F : g[i] = 0
    /\ \A i, j \in F : id[i] = id[j] => i = j
    /\ \A i \in F : h[id[i]] = f[id[i]] + g[i]
    /\ \A k \in 1..N : (\A i \in F : id[i] # k) => h[k] = f[k]

\* Adding the terms of one sum to different terms of another adds the sums.
LEMMA TotalGrows ==
    ASSUME NEW N \in Nat, NEW n \in Nat, NEW f \in [1..N -> Int], NEW g \in [1..n -> Int],
           NEW h \in [1..N -> Int], NEW F \in SUBSET (1..n), NEW id \in [F -> 1..N],
           TermsAdded(f, N, g, n, h, F, id)
    PROVE  SumTo(h, N) = SumTo(f, N) + SumTo(g, n)
<1>. DEFINE t == RunningTotal(g, n)
            mid(j) == [k \in 1..N |-> IF \E i \in F : i <= j /\ id[i] = k
                                      THEN h[k] ELSE f[k]]
            total == SumTo(f, N)
            S == {j \in 0..n : SumTo(mid(j), N) = total + t[j]}
<1>1. /\ t \in [0..n -> Int] /\ t[0] = 0
      /\ \A j \in 1..n : t[j] = t[j - 1] + g[j]
  BY RunningTotalDef
<1>2. \A j \in 0..n : mid(j) \in [1..N -> Int]
  OBVIOUS
<1>3. total \in Int
  <2>. DEFINE r == RunningTotal(f, N)
  <2>1. r \in [0..N -> Int]
    BY RunningTotalDef
  <2>. QED  BY <2>1 DEF SumTo
<1>. HIDE DEF t, total
<1>4. 0 \in S
  <2>1. mid(0) = f
    <3>1. \A i \in F : ~(i <= 0)
      OBVIOUS
    <3>. QED  BY <3>1
  <2>. HIDE DEF mid
  <2>. QED  BY <1>1, <1>3, <2>1 DEF total
<1>5. ASSUME NEW j \in 0..n, j \in S, j < n PROVE j + 1 \in S
  <2>1. j + 1 \in 1..n /\ j + 1 \in 0..n /\ t[j + 1] = t[j] + g[j + 1]
        /\ t[j] \in Int /\ g[j + 1] \in Int
    BY <1>1, <1>5
  <2>2. SumTo(mid(j), N) = total + t[j]
    BY <1>5
  <2>3. \A i \in F : i <= j + 1 <=> i <= j \/ i = j + 1
    OBVIOUS
  <2>4. CASE j + 1 \notin F
    <3>1. mid(j + 1) = mid(j)
      BY <2>3, <2>4
    <3>2. g[j + 1] = 0
      BY <2>1, <2>4 DEF TermsAdded
    <3>. HIDE DEF mid
    <3>. QED  BY <1>3, <2>1, <2>2, <3>1, <3>2
  <2>5. CASE j + 1 \in F
    <3>. DEFINE at == id[j + 1]
    <3>1. at \in 1..N
      BY <2>5
    <3>2. \A k \in 1..N : k # at => mid(j + 1)[k] = mid(j)[k]
      BY <2>3, <2>5
    <3>3. mid(j + 1)[at] = h[at]
      BY <2>5, <3>1
    <3>4. \A i \in F : i <= j => id[i] # at
      BY <2>1, <2>5 DEF TermsAdded
    <3>5. mid(j)[at] = f[at]
      BY <3>1, <3>4
    <3>6. h[at] = f[at] + g[j + 1] /\ f[at] \in Int
      BY <2>5, <3>1 DEF TermsAdded
    <3>7. mid(j) \in [1..N -> Int] /\ mid(j + 1) \in [1..N -> Int]
      BY <1>2, <2>1
    <3>. HIDE DEF mid, at
    <3>8. SumTo(mid(j + 1), N) = SumTo(mid(j), N) - mid(j)[at] + mid(j + 1)[at]
      <4>. DEFINE before == mid(j)
                  after == mid(j + 1)
      <4>1. /\ before \in [1..N -> Int] /\ after \in [1..N -> Int]
            /\ \A k \in 1..N : k # at => after[k] = before[k]
        BY <3>2, <3>7
      <4>. HIDE DEF before, after
      <4>2. SumTo(after, N) = SumTo(before, N) - before[at] + after[at]
        BY <3>1, <4>1, TotalChange
      <4>. QED  BY <4>2 DEF before, after
    <3>9. SumTo(mid(j + 1), N) = total + t[j + 1]
      BY <1>3, <2>1, <2>2, <3>3, <3>5, <3>6, <3>8, SMTT(30)
    <3>. QED  BY <2>1, <3>9
  <2>. QED  BY <2>4, <2>5
<1>6. S = 0..n
  <2>1. S \in SUBSET (0..n)
    OBVIOUS
  <2>. HIDE DEF S
  <2>. QED  BY <1>4, <1>5, <2>1, SetInduction
<1>7. mid(n) = h
  <2>1. \A i \in F : i <= n
    OBVIOUS
  <2>2. \A k \in 1..N : mid(n)[k] = h[k]
    BY <2>1 DEF TermsAdded
  <2>. QED  BY <2>2
<1>8. SumTo(mid(n), N) = total + t[n]
  <2>1. n \in S
    <3>. HIDE DEF S
    <3>. QED  BY <1>6
  <2>. QED  BY <2>1
<1>. HIDE DEF mid
<1>. QED  BY <1>7, <1>8 DEF SumTo, t, total

\* A sum of smaller terms is smaller.
LEMMA TotalOfLess ==
    ASSUME NEW n \in Nat, NEW f \in [1..n -> Nat], NEW g \in [1..n -> Nat],
           \A k \in 1..n : f[k] <= g[k]
    PROVE  SumTo(f, n) <= SumTo(g, n)
<1>. DEFINE t == RunningTotal(f, n)
            u == RunningTotal(g, n)
            S == {k \in 0..n : t[k] <= u[k]}
<1>1. /\ t \in [0..n -> Int] /\ t[0] = 0
      /\ \A k \in 1..n : t[k] = t[k - 1] + f[k]
  BY f \in [1..n -> Int], RunningTotalDef
<1>2. /\ u \in [0..n -> Int] /\ u[0] = 0
      /\ \A k \in 1..n : u[k] = u[k - 1] + g[k]
  BY g \in [1..n -> Int], RunningTotalDef
<1>. HIDE DEF t, u
<1>3. 0 \in S
  BY <1>1, <1>2
<1>4. ASSUME NEW k \in 0..n, k \in S, k < n PROVE k + 1 \in S
  <2>1. k + 1 \in 1..n /\ k + 1 \in 0..n /\ (k + 1) - 1 = k
    BY <1>4
  <2>2. t[k + 1] = t[k] + f[k + 1] /\ u[k + 1] = u[k] + g[k + 1]
    BY <1>1, <1>2, <2>1
  <2>3. t[k] \in Int /\ u[k] \in Int /\ t[k] <= u[k]
    BY <1>1, <1>2, <1>4
  <2>4. f[k + 1] \in Nat /\ g[k + 1] \in Nat /\ f[k + 1] <= g[k + 1]
    BY <2>1
  <2>5. t[k + 1] <= u[k + 1]
    BY <2>2, <2>3, <2>4
  <2>. QED  BY <2>1, <2>5
<1>5. S = 0..n
  <2>. HIDE DEF S
  <2>1. S \in SUBSET (0..n)
    BY DEF S
  <2>. QED  BY <1>3, <1>4, <2>1, SetInduction
<1>6. n \in S
  <2>. HIDE DEF S
  <2>. QED  BY <1>5
<1>. QED  BY <1>6 DEF SumTo, t, u

-----------------------------------------------------------------------------
(* Ranks *)

\* Among 1..n in an order before which each has fewer the earlier it is, every
\* rank is taken.
LEMMA RankTaken ==
    ASSUME NEW n \in Nat, NEW before \in [1..n -> SUBSET (1..n)],
           \A k \in 1..n : k \notin before[k],
           \A j, k \in 1..n : j # k =>
               \/ before[j] \subseteq before[k] /\ j \in before[k]
               \/ before[k] \subseteq before[j] /\ k \in before[j],
           NEW i \in 1..n
    PROVE  \E k \in 1..n : Cardinality(before[k]) = i - 1
<1>. DEFINE rank == [k \in 1..n |-> Cardinality(before[k]) + 1]
<1>1. IsFiniteSet(1..n) /\ Cardinality(1..n) = n
  BY FS_Interval
<1>2. ASSUME NEW k \in 1..n
      PROVE  /\ IsFiniteSet(before[k]) /\ Cardinality(before[k]) \in Nat
             /\ Cardinality(before[k]) < n
  <2>1. before[k] \in SUBSET (1..n)
    OBVIOUS
  <2>2. /\ IsFiniteSet(before[k]) /\ Cardinality(before[k]) <= Cardinality(1..n)
        /\ Cardinality(1..n) = Cardinality(before[k]) => 1..n = before[k]
    BY <1>1, <2>1, FS_Subset
  <2>3. 1..n # before[k]
    OBVIOUS
  <2>4. Cardinality(before[k]) \in Nat
    BY <2>2, FS_CardinalityType
  <2>. QED  BY <1>1, <2>2, <2>3, <2>4
<1>3. ASSUME NEW j \in 1..n, NEW k \in 1..n, before[j] \subseteq before[k], j \in before[k]
      PROVE  Cardinality(before[j]) # Cardinality(before[k])
  <2>1. before[j] # before[k] /\ before[j] \in SUBSET before[k]
    BY <1>3
  <2>2. IsFiniteSet(before[k])
    BY <1>2
  <2>. QED  BY <2>1, <2>2, FS_Subset
<1>4. rank \in [1..n -> 1..n]
  BY <1>2
<1>5. ASSUME NEW j \in 1..n, NEW k \in 1..n, j # k PROVE rank[j] # rank[k]
  <2>1. Cardinality(before[j]) # Cardinality(before[k])
    <3>1. CASE before[j] \subseteq before[k] /\ j \in before[k]
      BY <1>3, <3>1
    <3>2. CASE before[k] \subseteq before[j] /\ k \in before[j]
      BY <1>3, <3>2
    <3>. QED  BY <1>5, <3>1, <3>2
  <2>. QED  BY <1>2, <2>1
<1>. HIDE DEF rank
<1>6. rank \in Injection(1..n, 1..n)
  BY <1>4, <1>5 DEF Injection, IsInjective
<1>7. rank \in Surjection(1..n, 1..n)
  BY <1>1, <1>6, FS_Injection
<1>8. PICK k \in 1..n : rank[k] = i
  BY <1>7 DEF Surjection
<1>9. Cardinality(before[k]) = i - 1
  BY <1>2, <1>8 DEF rank
<1>. QED  BY <1>9

-----------------------------------------------------------------------------
(* Picking from a sequence *)

\* What has been picked when so many members have been looked at.
Picking(s, S, picked) ==
    /\ picked[0] = <<>>
    /\ \A i \in 1..Len(s) : picked[i] = IF s[i] \in S THEN Append(picked[i - 1], s[i])
                                         ELSE picked[i - 1]

\* Among is the sequence its definition describes.
LEMMA AmongExists ==
    ASSUME NEW T, NEW s \in Seq(T), NEW S
    PROVE  \E picked \in [0..Len(s) -> Seq(T)] :
              Among(s, S) = picked[Len(s)] /\ Picking(s, S, picked)
<1>. DEFINE n == Len(s)
            Step(p, i) == p[i] = IF s[i] \in S THEN Append(p[i - 1], s[i]) ELSE p[i - 1]
            Solves(p, j) == p[0] = <<>> /\ \A i \in 1..j : Step(p, i)
            Done == {j \in 0..n : \E p \in [0..n -> Seq(T)] : Solves(p, j)}
            Eq(p) == p = [i \in 0..Len(s) |->
                            IF i = 0 THEN <<>>
                            ELSE IF s[i] \in S THEN Append(p[i - 1], s[i]) ELSE p[i - 1]]
<1>1. n \in Nat /\ \A i \in 1..n : s[i] \in T
  OBVIOUS
<1>2. 0 \in Done
  <2>. DEFINE p == [i \in 0..n |-> <<>>]
  <2>1. p \in [0..n -> Seq(T)] /\ p[0] = <<>>
    BY <1>1
  <2>. HIDE DEF p
  <2>. QED  BY <1>1, <2>1
<1>3. ASSUME NEW j \in 0..n, j \in Done, j < n PROVE j + 1 \in Done
  <2>1. PICK p \in [0..n -> Seq(T)] : Solves(p, j)
    BY <1>3
  <2>2. j \in 0..n /\ j + 1 \in 1..n /\ j + 1 \in 0..n /\ (j + 1) - 1 = j
    BY <1>1, <1>3
  <2>. DEFINE next == IF s[j + 1] \in S THEN Append(p[j], s[j + 1]) ELSE p[j]
              q == [p EXCEPT ![j + 1] = next]
  <2>3. next \in Seq(T)
    BY <1>1, <2>2
  <2>4. q \in [0..n -> Seq(T)] /\ q[j + 1] = next /\ \A i \in 0..j : q[i] = p[i]
    BY <2>2, <2>3
  <2>5. next = IF s[j + 1] \in S THEN Append(q[j], s[j + 1]) ELSE q[j]
    BY <2>2, <2>4
  <2>. HIDE DEF q, next
  <2>6. q[0] = <<>>
    BY <1>1, <2>1, <2>4
  <2>7. ASSUME NEW i \in 1..(j + 1) PROVE Step(q, i)
    <3>1. CASE i \in 1..j
      <4>1. i \in 0..j /\ i - 1 \in 0..j
        BY <1>1, <3>1
      <4>2. Step(p, i)
        BY <2>1, <3>1
      <4>. QED  BY <2>4, <4>1, <4>2
    <3>2. CASE i = j + 1
      BY <2>2, <2>4, <2>5, <3>2
    <3>. QED  BY <1>1, <2>7, <3>1, <3>2
  <2>. QED  BY <2>2, <2>4, <2>6, <2>7
<1>4. Done = 0..n
  <2>1. Done \in SUBSET (0..n)
    OBVIOUS
  <2>. HIDE DEF Done, n
  <2>. QED  BY <1>1, <1>2, <1>3, <2>1, SetInduction
<1>5. PICK p \in [0..n -> Seq(T)] : Solves(p, n)
  <2>. HIDE DEF Done
  <2>1. n \in Done
    BY <1>1, <1>4
  <2>. QED  BY <2>1 DEF Done
<1>6. Eq(p)
  <2>1. \A i \in 0..n : i # 0 => i \in 1..n
    BY <1>1
  <2>2. p = [i \in 0..n |-> p[i]]
    OBVIOUS
  <2>. QED  BY <1>5, <2>1, <2>2
<1>7. \E q : Eq(q)
  BY <1>6
<1>. DEFINE picked == CHOOSE q : Eq(q)
<1>8. Eq(picked) /\ Among(s, S) = picked[n]
  BY <1>7 DEF Among
<1>9. picked = p
  <2>. DEFINE Same == {i \in 0..n : picked[i] = p[i]}
  <2>. HIDE DEF picked
  <2>1. 0 \in Same
    BY <1>1, <1>5, <1>8
  <2>2. ASSUME NEW i \in 0..n, i \in Same, i < n PROVE i + 1 \in Same
    <3>1. i + 1 \in 1..n /\ i + 1 \in 0..n /\ i + 1 # 0 /\ (i + 1) - 1 = i
      BY <1>1, <2>2
    <3>2. p[i + 1] = IF s[i + 1] \in S THEN Append(p[i], s[i + 1]) ELSE p[i]
      BY <1>5, <3>1
    <3>3. picked[i + 1] = IF s[i + 1] \in S THEN Append(picked[i], s[i + 1]) ELSE picked[i]
      BY <1>8, <3>1
    <3>. QED  BY <2>2, <3>1, <3>2, <3>3
  <2>3. Same \in SUBSET (0..n)
    OBVIOUS
  <2>. HIDE DEF Same, n
  <2>4. Same = 0..n
    BY <1>1, <2>1, <2>2, <2>3, SetInduction
  <2>. USE DEF Same, n
  <2>5. DOMAIN picked = 0..n
    BY <1>8
  <2>6. picked = [i \in 0..n |-> picked[i]]
    BY <1>8
  <2>. QED  BY <2>4, <2>6
<1>. QED  BY <1>5, <1>8, <1>9 DEF Picking

\* It picks the members of the sequence that are in the set, and no others.
LEMMA AmongPicks ==
    ASSUME NEW T, NEW s \in Seq(T), NEW S
    PROVE  Among(s, S) \in Seq(T) /\ Range(Among(s, S)) = Range(s) \cap S
<1>1. PICK picked \in [0..Len(s) -> Seq(T)] :
         Among(s, S) = picked[Len(s)] /\ Picking(s, S, picked)
  BY AmongExists
<1>0. /\ Among(s, S) = picked[Len(s)] /\ picked[0] = <<>>
      /\ \A i \in 1..Len(s) : picked[i] = IF s[i] \in S THEN Append(picked[i - 1], s[i])
                                          ELSE picked[i - 1]
  BY <1>1 DEF Picking
<1>. DEFINE n == Len(s)
            First(j) == {s[i] : i \in 1..j} \cap S
            Good == {j \in 0..n : Range(picked[j]) = First(j)}
<1>2. n \in Nat /\ \A i \in 1..n : s[i] \in T
  OBVIOUS
<1>3. 0 \in Good
  <2>1. Range(picked[0]) = {}
    BY <1>0 DEF Range
  <2>2. First(0) = {}
    OBVIOUS
  <2>. QED  BY <1>2, <2>1, <2>2
<1>4. ASSUME NEW j \in 0..n, j \in Good, j < n PROVE j + 1 \in Good
  <2>1. j + 1 \in 1..n /\ j + 1 \in 0..n /\ (j + 1) - 1 = j
    BY <1>2, <1>4
  <2>2. picked[j] \in Seq(T) /\ s[j + 1] \in T
    BY <1>2, <2>1
  <2>3. {s[i] : i \in 1..(j + 1)} = {s[i] : i \in 1..j} \cup {s[j + 1]}
    BY <1>2, <2>1
  <2>4. picked[j + 1] = IF s[j + 1] \in S THEN Append(picked[j], s[j + 1]) ELSE picked[j]
    BY <1>0, <2>1
  <2>5. CASE s[j + 1] \in S
    <3>1. Range(picked[j + 1]) = Range(picked[j]) \cup {s[j + 1]}
      <4>. DEFINE p == picked[j]
                  q == Append(p, s[j + 1])
      <4>1. DOMAIN q = (DOMAIN p) \cup {Len(p) + 1} /\ q[Len(p) + 1] = s[j + 1]
        BY <2>2
      <4>2. \A i \in DOMAIN p : q[i] = p[i]
        BY <2>2
      <4>. HIDE DEF p, q
      <4>3. Range(q) = Range(p) \cup {s[j + 1]}
        BY <4>1, <4>2 DEF Range
      <4>. QED  BY <2>4, <2>5, <4>3 DEF p, q
    <3>. QED  BY <1>4, <2>1, <2>3, <2>5, <3>1
  <2>6. CASE s[j + 1] \notin S
    BY <1>4, <2>1, <2>3, <2>4, <2>6
  <2>. QED  BY <2>5, <2>6
<1>5. Good = 0..n
  <2>1. Good \in SUBSET (0..n)
    OBVIOUS
  <2>. HIDE DEF Good, n
  <2>. QED  BY <1>2, <1>3, <1>4, <2>1, SetInduction
<1>6. Range(picked[n]) = First(n)
  <2>. HIDE DEF Good
  <2>1. n \in Good
    BY <1>2, <1>5
  <2>. QED  BY <2>1 DEF Good
<1>7. First(n) = Range(s) \cap S
  BY DEF Range
<1>8. picked[n] \in Seq(T)
  BY <1>2
<1>. QED  BY <1>0, <1>6, <1>7, <1>8

-----------------------------------------------------------------------------
(* Multiplication and division *)

\* Multiplying keeps the order of two amounts.
LEMMA MulMono ==
    ASSUME NEW a \in Nat, NEW b \in Nat, NEW c \in Nat, a <= b
    PROVE  a * c <= b * c /\ a * c \in Nat /\ b * c \in Nat
OBVIOUS

\* A common factor can be dropped from an inequality.
LEMMA MulCancel ==
    ASSUME NEW a \in Nat, NEW b \in Nat, NEW c \in Nat \ {0}, a * c <= b * c
    PROVE  a <= b
<1>. SUFFICES ASSUME b + 1 <= a PROVE FALSE
  OBVIOUS
<1>1. (b + 1) * c <= a * c
  BY MulMono
<1>2. (b + 1) * c = b * c + c
  OBVIOUS
<1>3. a * c \in Nat /\ b * c \in Nat
  OBVIOUS
<1>. QED  BY <1>1, <1>2, <1>3

\* The quotient of two numbers is the largest number whose multiple fits.
Quotient(a, d) == a \div d

\* A floored quotient is bounded by its dividend, both ways.
LEMMA QuotientBounds ==
    ASSUME NEW a \in Nat, NEW d \in Nat \ {0}
    PROVE  /\ Quotient(a, d) \in Nat
           /\ Quotient(a, d) * d <= a
           /\ a < (Quotient(a, d) + 1) * d
BY DEF Quotient

\* mulDiv rounds down to the largest amount whose multiple fits (Math.mulDiv).
LEMMA MulDivBounds ==
    ASSUME NEW x \in Nat, NEW y \in Nat, NEW d \in Nat \ {0}
    PROVE  /\ MulDiv(x, y, d) \in Nat
           /\ MulDiv(x, y, d) * d <= x * y
           /\ x * y < (MulDiv(x, y, d) + 1) * d
<1>1. x * y \in Nat
  OBVIOUS
<1>2. /\ Quotient(x * y, d) \in Nat
      /\ Quotient(x * y, d) * d <= x * y
      /\ x * y < (Quotient(x * y, d) + 1) * d
  BY <1>1, QuotientBounds
<1>. QED  BY <1>2 DEF MulDiv, Quotient

\* mulDiv with Ceil rounds up: its multiple covers the product.
LEMMA MulDivUpBounds ==
    ASSUME NEW x \in Nat, NEW y \in Nat, NEW d \in Nat \ {0}
    PROVE  /\ MulDivUp(x, y, d) \in Nat
           /\ x * y <= MulDivUp(x, y, d) * d
<1>. DEFINE a == x * y
            q == Quotient(a + d - 1, d)
<1>1. a \in Nat
  OBVIOUS
<1>2. MulDivUp(x, y, d) = q
  BY DEF MulDivUp, Quotient
<1>. HIDE DEF a
<1>3. /\ q \in Nat
      /\ a + d - 1 < (q + 1) * d
  BY <1>1, a + d - 1 \in Nat, QuotientBounds
<1>. HIDE DEF q
<1>4. (q + 1) * d = q * d + d /\ q * d \in Nat
  BY <1>3
<1>5. a <= q * d
  BY <1>1, <1>3, <1>4
<1>. QED  BY <1>2, <1>3, <1>5 DEF a

\* An amount whose multiple fits is at most mulDiv's answer.
LEMMA MulDivLargest ==
    ASSUME NEW x \in Nat, NEW y \in Nat, NEW d \in Nat \ {0}, NEW k \in Nat,
           k * d <= x * y
    PROVE  k <= MulDiv(x, y, d)
<1>. DEFINE q == MulDiv(x, y, d)
            a == x * y
<1>1. q \in Nat /\ a < (q + 1) * d
  BY MulDivBounds
<1>. HIDE DEF q
<1>2. (q + 1) * d \in Nat /\ k * d \in Nat /\ a \in Nat
  BY <1>1
<1>. SUFFICES ASSUME q + 1 <= k PROVE FALSE
  BY <1>1 DEF q
<1>3. (q + 1) * d <= k * d
  BY <1>1, MulMono
<1>4. k * d <= a
  OBVIOUS
<1>. HIDE DEF a
<1>. QED  BY <1>1, <1>2, <1>3, <1>4

\* An amount whose multiple covers mulDiv's product bounds it from above.
LEMMA MulDivAtMost ==
    ASSUME NEW x \in Nat, NEW y \in Nat, NEW d \in Nat \ {0}, NEW k \in Nat,
           x * y <= k * d
    PROVE  MulDiv(x, y, d) <= k
<1>. DEFINE q == MulDiv(x, y, d)
            a == x * y
<1>1. q \in Nat /\ q * d <= a
  BY MulDivBounds
<1>. HIDE DEF q
<1>2. q * d \in Nat /\ k * d \in Nat /\ a \in Nat /\ a <= k * d
  BY <1>1
<1>. HIDE DEF a
<1>3. q * d <= k * d
  BY <1>1, <1>2
<1>4. q <= k
  BY <1>1, <1>3, MulCancel
<1>. QED  BY <1>4 DEF q

\* Converting an amount and back never gains: with amount at most what x
\* converts to, the way back gives at most x (previewRedeem after
\* convertToShares in AgentVault.maxRedeem).
LEMMA RoundTrip ==
    ASSUME NEW x \in Nat, NEW y \in Nat \ {0}, NEW d \in Nat \ {0},
           NEW amount \in Nat, amount <= MulDiv(x, y, d)
    PROVE  MulDiv(amount, d, y) <= x
<1>. DEFINE q == MulDiv(x, y, d)
            a == x * y
<1>1. q \in Nat /\ q * d <= a /\ amount <= q
  BY MulDivBounds
<1>. HIDE DEF q
<1>2. amount * d <= q * d /\ amount * d \in Nat /\ q * d \in Nat /\ a \in Nat
  BY <1>1, MulMono
<1>. HIDE DEF a
<1>3. amount * d <= a
  BY <1>1, <1>2
<1>4. amount * d <= x * y
  BY <1>3 DEF a
<1>. QED  BY <1>4, MulDivAtMost

-----------------------------------------------------------------------------
(* One bet *)

\* A winning bet is paid at least its stake, so no liability is negative
\* (OddsMath.payoutFor and liabilityFor).
LEMMA PayoutCoversStake ==
    ASSUME NEW stake \in Nat, NEW p \in 1..BPS
    PROVE  PayoutFor(stake, p) \in Nat /\ stake <= PayoutFor(stake, p)
<1>1. p \in Nat \ {0} /\ BPS \in Nat /\ p <= BPS
  BY DEF BPS
<1>2. PayoutFor(stake, p) \in Nat
  BY <1>1, MulDivBounds DEF PayoutFor
<1>3. p * stake <= BPS * stake /\ p * stake = stake * p /\ BPS * stake = stake * BPS
  BY <1>1, MulMono
<1>4. stake * p <= stake * BPS
  BY <1>3
<1>5. stake <= MulDiv(stake, BPS, p)
  BY <1>1, <1>4, MulDivLargest
<1>. QED  BY <1>2, <1>5 DEF PayoutFor

\* The largest stake for a budget is a stake the budget covers: a bet no
\* larger than OddsMath.maxStakeForLiability says never needs more liability
\* than the budget it was sized against, whatever the roundings.
THEOREM SizedFits ==
    ASSUME NEW budget \in Nat, NEW p \in 1..BPS, NEW stake \in Nat,
           stake <= MaxStakeForLiability(budget, p)
    PROVE  LiabilityFor(stake, p) \in Nat /\ LiabilityFor(stake, p) <= budget
<1>1. PayoutFor(stake, p) \in Nat /\ stake <= PayoutFor(stake, p)
  BY PayoutCoversStake
<1>2. p \in Nat \ {0} /\ BPS \in Nat \ {0} /\ p <= BPS /\ BPS - p \in Nat
  BY DEF BPS
<1>3. stake * BPS <= (stake + budget) * p
  <2>1. CASE p = BPS
    <3>1. stake * BPS <= (stake + budget) * BPS
      BY <1>2, stake + budget \in Nat, MulMono
    <3>. QED  BY <2>1, <3>1
  <2>2. CASE p # BPS
    <3>. DEFINE c == BPS - p
                m == MulDiv(budget, p, c)
                free == budget * p
    <3>1. c \in Nat \ {0} /\ BPS = c + p
      BY <1>2, <2>2
    <3>2. stake <= m
      BY <2>2 DEF MaxStakeForLiability
    <3>. HIDE DEF c
    <3>3. m \in Nat /\ m * c <= free
      BY <1>2, <3>1, MulDivBounds
    <3>. HIDE DEF m
    <3>4. stake * c <= m * c /\ stake * c \in Nat /\ m * c \in Nat
      BY <3>2, <3>3, <3>1, MulMono
    <3>5. free \in Nat
      BY <1>2
    <3>. HIDE DEF free
    <3>6. stake * c <= free
      BY <3>3, <3>4, <3>5
    <3>7. stake * (c + p) = stake * c + stake * p /\ stake * p \in Nat
      BY <3>1, <1>2
    <3>8. (stake + budget) * p = stake * p + free
      BY <1>2 DEF free
    <3>9. stake * (c + p) <= (stake + budget) * p
      BY <3>4, <3>5, <3>6, <3>7, <3>8
    <3>. QED  BY <3>9, <3>1
  <2>. QED  BY <2>1, <2>2
<1>4. MulDiv(stake, BPS, p) <= stake + budget
  BY <1>2, <1>3, stake + budget \in Nat, MulDivAtMost
<1>. QED  BY <1>1, <1>4 DEF PayoutFor, LiabilityFor

-----------------------------------------------------------------------------
(* The ladder *)

\* A rank takes part of what is left, within its capacity and its weighted
\* share.
LEMMA RankShareBounds ==
    ASSUME NEW total \in Nat, NEW left \in Nat, NEW cap \in Nat, NEW weight \in Nat
    PROVE  /\ RankShare(total, left, cap, weight) \in Nat
           /\ RankShare(total, left, cap, weight) <= left
           /\ RankShare(total, left, cap, weight) <= cap
           /\ RankShare(total, left, cap, weight) <= MulDiv(total, weight, BPS)
<1>1. MulDiv(total, weight, BPS) \in Nat
  BY MulDivBounds, BPS \in Nat \ {0} DEF BPS
<1>. QED  BY <1>1 DEF RankShare, Lesser

\* The share is a number even where ladderAllocate would never ask for it.
LEMMA RankShareInt ==
    ASSUME NEW total \in Nat, NEW left \in Int, NEW cap \in Nat, NEW weight \in Nat
    PROVE  RankShare(total, left, cap, weight) \in Int
<1>1. MulDiv(total, weight, BPS) \in Nat
  BY MulDivBounds, BPS \in Nat \ {0} DEF BPS
<1>. QED  BY <1>1 DEF RankShare, Lesser

\* What the first pass leaves after each rank.
LEMMA FirstPassDef ==
    ASSUME NEW n \in Nat, NEW total \in Nat, NEW caps \in [1..n -> Nat],
           NEW weights \in [1..n -> Nat]
    PROVE  LET first == FirstPass(total, caps, weights, n)
           IN  /\ first \in [0..n -> Nat]
               /\ first[0] = total
               /\ \A i \in 1..n :
                     /\ first[i - 1] - first[i] \in 0..caps[i]
                     /\ first[i - 1] - first[i] <= MulDiv(total, weights[i], BPS)
                     /\ first[i] = first[i - 1] - RankShare(total, first[i - 1],
                                                           caps[i], weights[i])
<1>. DEFINE share(x, i) == RankShare(total, x, caps[i], weights[i])
            Eq(t) == t = [i \in 0..n |-> IF i = 0 THEN total
                                         ELSE t[i - 1] - share(t[i - 1], i)]
<1>1. \E t : Eq(t)
  <2>. DEFINE step == [i \in 1..n |-> [x \in Int |-> x - share(x, i)]]
  <2>1. step \in [1..n -> [Int -> Int]]
    <3>1. ASSUME NEW i \in 1..n, NEW x \in Int PROVE x - share(x, i) \in Int
      <4>1. caps[i] \in Nat /\ weights[i] \in Nat
        OBVIOUS
      <4>2. share(x, i) \in Int
        BY <4>1, RankShareInt
      <4>. QED  BY <4>2
    <3>. QED  BY <3>1
  <2>. HIDE DEF step
  <2>2. PICK t \in [0..n -> Int] : /\ t[0] = total
                                   /\ \A i \in 1..n : t[i] = step[i][t[i - 1]]
    BY <2>1, total \in Int, RecursiveFunction, Zenon
  <2>3. \A i \in 1..n : t[i - 1] \in Int
    OBVIOUS
  <2>. HIDE DEF share
  <2>4. \A i \in 1..n : t[i] = t[i - 1] - share(t[i - 1], i)
    BY <2>2, <2>3 DEF step
  <2>5. t = [i \in 0..n |-> IF i = 0 THEN total ELSE t[i - 1] - share(t[i - 1], i)]
    BY <2>2, <2>4
  <2>. QED  BY <2>5
<1>2. Eq(FirstPass(total, caps, weights, n))
  BY <1>1 DEF FirstPass
<1>. DEFINE first == FirstPass(total, caps, weights, n)
            S == {i \in 0..n : first[i] \in Nat}
<1>3. first = [i \in 0..n |-> IF i = 0 THEN total
                              ELSE first[i - 1] - share(first[i - 1], i)]
  BY <1>2
<1>. HIDE DEF first, share
<1>4. /\ first[0] = total
      /\ \A i \in 1..n : first[i] = first[i - 1] - share(first[i - 1], i)
  BY <1>3
<1>5. ASSUME NEW i \in 1..n, first[i - 1] \in Nat
      PROVE  /\ first[i] \in Nat /\ first[i - 1] - first[i] \in 0..caps[i]
             /\ first[i - 1] - first[i] <= MulDiv(total, weights[i], BPS)
  <2>. DEFINE x == share(first[i - 1], i)
              a == first[i - 1]
              b == first[i]
              most == MulDiv(total, weights[i], BPS)
  <2>1. x \in Nat /\ x <= a /\ x <= caps[i] /\ x <= most
    BY <1>5, RankShareBounds DEF share
  <2>2. b = a - x /\ a \in Nat /\ caps[i] \in Nat
    BY <1>4, <1>5
  <2>. HIDE DEF x, a, b, most
  <2>3. b \in Nat /\ a - b = x
    BY <2>1, <2>2
  <2>. QED  BY <2>1, <2>2, <2>3 DEF a, b, most
<1>6. 0 \in S
  BY <1>4
<1>7. ASSUME NEW i \in 0..n, i \in S, i < n PROVE i + 1 \in S
  <2>1. i + 1 \in 1..n /\ (i + 1) - 1 = i
    BY <1>7
  <2>. QED  BY <1>5, <1>7, <2>1
<1>8. S = 0..n
  <2>. HIDE DEF S
  <2>1. S \in SUBSET (0..n)
    BY DEF S
  <2>. QED  BY <1>6, <1>7, <2>1, SetInduction
<1>9. \A i \in 0..n : first[i] \in Nat
  BY <1>8
<1>10. first \in [0..n -> Nat]
  BY <1>3, <1>9
<1>11. \A i \in 1..n : /\ first[i - 1] - first[i] \in 0..caps[i]
                       /\ first[i - 1] - first[i] <= MulDiv(total, weights[i], BPS)
  BY <1>5, <1>9
<1>. QED  BY <1>4, <1>10, <1>11 DEF first, share

\* What the second pass leaves after each rank, over any first pass.
LEMMA SecondPassDef ==
    ASSUME NEW n \in Nat, NEW caps \in [1..n -> Nat], NEW first \in [0..n -> Nat],
           \A i \in 1..n : first[i - 1] - first[i] \in 0..caps[i]
    PROVE  LET sweep == SecondPass(caps, first, n)
           IN  /\ sweep \in [0..n -> Nat]
               /\ sweep[0] = first[n]
               /\ \A i \in 1..n :
                     sweep[i] = SweepRank(sweep[i - 1],
                                          caps[i] - (first[i - 1] - first[i]))
<1>. DEFINE spare(i) == caps[i] - (first[i - 1] - first[i])
            Eq(t) == t = [i \in 0..n |-> IF i = 0 THEN first[n]
                                         ELSE SweepRank(t[i - 1], spare(i))]
<1>1. \A i \in 1..n : spare(i) \in Nat
  OBVIOUS
<1>2. \E t : Eq(t)
  <2>. DEFINE step == [i \in 1..n |-> [x \in Int |-> SweepRank(x, spare(i))]]
  <2>. HIDE DEF spare
  <2>1. step \in [1..n -> [Int -> Int]]
    BY <1>1 DEF SweepRank, Lesser
  <2>. HIDE DEF step
  <2>2. PICK t \in [0..n -> Int] : /\ t[0] = first[n]
                                   /\ \A i \in 1..n : t[i] = step[i][t[i - 1]]
    BY <2>1, first[n] \in Int, RecursiveFunction, Zenon
  <2>3. \A i \in 1..n : t[i - 1] \in Int
    OBVIOUS
  <2>4. \A i \in 1..n : t[i] = SweepRank(t[i - 1], spare(i))
    BY <2>2, <2>3 DEF step
  <2>5. t = [i \in 0..n |-> IF i = 0 THEN first[n] ELSE SweepRank(t[i - 1], spare(i))]
    BY <2>2, <2>4
  <2>. QED  BY <2>5
<1>3. Eq(SecondPass(caps, first, n))
  BY <1>2 DEF SecondPass
<1>. DEFINE sweep == SecondPass(caps, first, n)
            S == {i \in 0..n : sweep[i] \in Nat}
<1>4. sweep = [i \in 0..n |-> IF i = 0 THEN first[n]
                              ELSE SweepRank(sweep[i - 1], spare(i))]
  BY <1>3
<1>. HIDE DEF sweep, spare
<1>5. /\ sweep[0] = first[n]
      /\ \A i \in 1..n : sweep[i] = SweepRank(sweep[i - 1], spare(i))
  <2>1. sweep[0] = first[n]
    BY <1>4
  <2>2. ASSUME NEW i \in 1..n PROVE sweep[i] = SweepRank(sweep[i - 1], spare(i))
    <3>1. i \in 0..n /\ i # 0
      OBVIOUS
    <3>2. sweep[i] = IF i = 0 THEN first[n] ELSE SweepRank(sweep[i - 1], spare(i))
      BY <1>4, <3>1, Zenon
    <3>. QED  BY <3>1, <3>2
  <2>. QED  BY <2>1, <2>2
<1>6. 0 \in S
  BY <1>5
<1>7. ASSUME NEW i \in 0..n, i \in S, i < n PROVE i + 1 \in S
  <2>1. i + 1 \in 1..n /\ (i + 1) - 1 = i
    BY <1>7
  <2>2. sweep[i + 1] = SweepRank(sweep[i], spare(i + 1))
    BY <1>5, <2>1
  <2>3. sweep[i] \in Nat /\ spare(i + 1) \in Nat
    BY <1>1, <1>7, <2>1
  <2>. DEFINE left == sweep[i]
              room == spare(i + 1)
  <2>. HIDE DEF left, room
  <2>4. SweepRank(left, room) \in Nat
    BY <2>3 DEF SweepRank, Lesser, left, room
  <2>5. sweep[i + 1] \in Nat
    BY <2>2, <2>4 DEF left, room
  <2>. QED  BY <2>1, <2>5
<1>8. S = 0..n
  <2>. HIDE DEF S
  <2>1. S \in SUBSET (0..n)
    BY DEF S
  <2>. QED  BY <1>6, <1>7, <2>1, SetInduction
<1>9. \A i \in 0..n : sweep[i] \in Nat
  BY <1>8
<1>10. sweep \in [0..n -> Nat]
  BY <1>4, <1>9
<1>. QED  BY <1>5, <1>10 DEF sweep, spare

\* Every rank of ladderAllocate gets an amount within its capacity.
THEOREM LadderWithinCaps ==
    ASSUME NEW n \in Nat, NEW total \in Nat, NEW caps \in [1..n -> Nat],
           NEW weights \in [1..n -> Nat]
    PROVE  /\ LadderStakes(total, caps, weights, n) \in [1..n -> Nat]
           /\ \A i \in 1..n : LadderStakes(total, caps, weights, n)[i] <= caps[i]
<1>. DEFINE first == FirstPass(total, caps, weights, n)
            sweep == SecondPass(caps, first, n)
            stakes == LadderStakes(total, caps, weights, n)
<1>1. /\ first \in [0..n -> Nat]
      /\ \A i \in 1..n : first[i - 1] - first[i] \in 0..caps[i]
  BY FirstPassDef
<1>2. stakes = [i \in 1..n |-> (first[i - 1] - first[i]) + (sweep[i - 1] - sweep[i])]
  BY DEF LadderStakes
<1>. HIDE DEF first
<1>3. /\ sweep \in [0..n -> Nat]
      /\ \A i \in 1..n : sweep[i] = SweepRank(sweep[i - 1],
                                              caps[i] - (first[i - 1] - first[i]))
  BY <1>1, SecondPassDef
<1>. HIDE DEF sweep, stakes
<1>4. ASSUME NEW i \in 1..n PROVE stakes[i] \in Nat /\ stakes[i] <= caps[i]
  <2>1. /\ caps[i] \in Nat /\ sweep[i - 1] \in Nat
        /\ first[i - 1] - first[i] \in 0..caps[i]
        /\ stakes[i] = (first[i - 1] - first[i]) + (sweep[i - 1] - sweep[i])
    BY <1>1, <1>2, <1>3
  <2>2. sweep[i - 1] - sweep[i] \in 0..(caps[i] - (first[i - 1] - first[i]))
    <3>. DEFINE left == sweep[i - 1]
                room == caps[i] - (first[i - 1] - first[i])
    <3>1. sweep[i] = SweepRank(left, room)
      BY <1>3
    <3>2. left \in Nat /\ room \in Nat
      <4>. DEFINE c == caps[i]
                  x == first[i - 1] - first[i]
      <4>1. c \in Nat /\ x \in 0..c
        BY <2>1
      <4>. HIDE DEF c, x
      <4>2. c - x \in Nat
        BY <4>1
      <4>. QED  BY <2>1, <4>2 DEF c, x
    <3>3. left - SweepRank(left, room) \in 0..room
      <4>. HIDE DEF left, room
      <4>. QED  BY <3>2 DEF SweepRank, Lesser
    <3>. QED  BY <3>1, <3>3
  <2>. DEFINE x == first[i - 1] - first[i]
              y == sweep[i - 1] - sweep[i]
              z == stakes[i]
              c == caps[i]
  <2>3. c \in Nat /\ x \in 0..c /\ y \in 0..(c - x) /\ z = x + y
    BY <2>1, <2>2
  <2>. HIDE DEF x, y, z, c
  <2>4. z \in Nat /\ z <= c
    BY <2>3
  <2>. QED  BY <2>4 DEF z, c
<1>. QED  BY <1>2, <1>4 DEF stakes

\* What the second pass could not place.
LadderLeft(total, caps, weights, n) ==
    SecondPass(caps, FirstPass(total, caps, weights, n), n)[n]

\* The two passes together place the stake but for what the second leaves.
LEMMA LadderPlaced ==
    ASSUME NEW n \in Nat, NEW total \in Nat, NEW caps \in [1..n -> Nat],
           NEW weights \in [1..n -> Nat]
    PROVE  SumTo(LadderStakes(total, caps, weights, n), n)
               = total - LadderLeft(total, caps, weights, n)
<1>. DEFINE first == FirstPass(total, caps, weights, n)
            sweep == SecondPass(caps, first, n)
            stakes == LadderStakes(total, caps, weights, n)
            left == [i \in 0..n |-> first[i] + sweep[i]]
            placed == [i \in 0..n |-> left[0] - left[i]]
<1>1. /\ first \in [0..n -> Nat] /\ first[0] = total
      /\ \A i \in 1..n : first[i - 1] - first[i] \in 0..caps[i]
  BY FirstPassDef
<1>2. /\ stakes = [i \in 1..n |-> (first[i - 1] - first[i]) + (sweep[i - 1] - sweep[i])]
      /\ sweep[n] = LadderLeft(total, caps, weights, n)
  BY DEF LadderStakes, LadderLeft
<1>. HIDE DEF first
<1>3. sweep \in [0..n -> Nat] /\ sweep[0] = first[n]
  BY <1>1, SecondPassDef
<1>. HIDE DEF sweep
<1>4. stakes \in [1..n -> Int]
  BY <1>1, <1>2, <1>3
<1>5. left \in [0..n -> Nat] /\ left[0] = total + first[n] /\ left[n] = first[n] + sweep[n]
  BY <1>1, <1>2, <1>3
<1>6. \A i \in 1..n : stakes[i] = left[i - 1] - left[i]
  <2>1. ASSUME NEW i \in 1..n PROVE stakes[i] = left[i - 1] - left[i]
    <3>. DEFINE a == first[i - 1]
                b == first[i]
                c == sweep[i - 1]
                d == sweep[i]
                x == left[i - 1]
                y == left[i]
                z == stakes[i]
    <3>1. i - 1 \in 0..n /\ i \in 0..n
      OBVIOUS
    <3>2. a \in Nat /\ b \in Nat /\ c \in Nat /\ d \in Nat
      BY <1>1, <1>3, <3>1
    <3>3. x = a + c /\ y = b + d
      BY <3>1
    <3>4. z = (a - b) + (c - d)
      BY <1>2
    <3>. HIDE DEF a, b, c, d, x, y, z
    <3>5. z = x - y
      BY <3>2, <3>3, <3>4
    <3>. QED  BY <3>5 DEF x, y, z
  <2>. QED  BY <2>1
<1>. HIDE DEF left, stakes
<1>7. /\ placed \in [0..n -> Int] /\ placed[0] = 0
      /\ \A i \in 1..n : placed[i] = placed[i - 1] + stakes[i]
  <2>1. \A i \in 0..n : left[i] \in Nat
    BY <1>5
  <2>2. placed \in [0..n -> Int] /\ placed[0] = 0
    BY <2>1
  <2>3. ASSUME NEW i \in 1..n PROVE placed[i] = placed[i - 1] + stakes[i]
    <3>. DEFINE a == left[0]
                b == left[i - 1]
                c == left[i]
                x == placed[i - 1]
                y == placed[i]
                z == stakes[i]
    <3>1. i - 1 \in 0..n /\ i \in 0..n /\ 0 \in 0..n
      OBVIOUS
    <3>2. a \in Nat /\ b \in Nat /\ c \in Nat
      BY <2>1, <3>1
    <3>3. y = a - c /\ x = a - b
      BY <3>1
    <3>4. z = b - c
      BY <1>6
    <3>. HIDE DEF a, b, c, x, y, z
    <3>5. y = x + z
      BY <3>2, <3>3, <3>4
    <3>. QED  BY <3>5 DEF x, y, z
  <2>. QED  BY <2>2, <2>3
<1>8. placed[n] = total - sweep[n]
  <2>. DEFINE x == left[0]
              y == left[n]
              f == first[n]
              s == sweep[n]
  <2>1. /\ f \in Nat /\ s \in Nat /\ x = total + f /\ y = f + s
        /\ placed[n] = x - y
    BY <1>1, <1>3, <1>5
  <2>. HIDE DEF x, y, f, s, placed
  <2>2. placed[n] = total - s
    BY <2>1
  <2>. QED  BY <2>2 DEF s
<1>. HIDE DEF placed
<1>9. SumTo(stakes, n) = placed[n]
  BY <1>4, <1>7, TotalIs
<1>. QED  BY <1>2, <1>8, <1>9 DEF stakes

\* When ladderAllocate does not revert it has placed the whole stake, to the
\* last unit.
THEOREM LadderExact ==
    ASSUME NEW n \in Nat, NEW total \in Nat, NEW caps \in [1..n -> Nat],
           NEW weights \in [1..n -> Nat], LadderPlaces(total, caps, weights, n)
    PROVE  SumTo(LadderStakes(total, caps, weights, n), n) = total
<1>. DEFINE left == LadderLeft(total, caps, weights, n)
            sum == SumTo(LadderStakes(total, caps, weights, n), n)
<1>1. left = 0
  BY DEF LadderPlaces, LadderLeft
<1>2. sum = total - left
  BY LadderPlaced
<1>. HIDE DEF left, sum
<1>3. sum = total
  BY <1>1, <1>2
<1>. QED  BY <1>3 DEF sum

\* A rank after which something is still unplaced is full, and so is every
\* rank before it; and a rank that gets more than its weighted share found
\* something unplaced by every rank before it.
LEMMA LadderSweeps ==
    ASSUME NEW n \in Nat, NEW total \in Nat, NEW caps \in [1..n -> Nat],
           NEW weights \in [1..n -> Nat]
    PROVE  LET sweep == SecondPass(caps, FirstPass(total, caps, weights, n), n)
               stakes == LadderStakes(total, caps, weights, n)
           IN  /\ sweep \in [0..n -> Nat]
               /\ \A i \in 1..n : sweep[i] > 0 => stakes[i] = caps[i]
               /\ \A i, j \in 0..n : i <= j => sweep[j] <= sweep[i]
               /\ \A j \in 1..n : stakes[j] > MulDiv(total, weights[j], BPS)
                                     => sweep[j - 1] > 0
<1>. DEFINE first == FirstPass(total, caps, weights, n)
            sweep == SecondPass(caps, first, n)
            stakes == LadderStakes(total, caps, weights, n)
<1>1. /\ first \in [0..n -> Nat]
      /\ \A i \in 1..n : /\ first[i - 1] - first[i] \in 0..caps[i]
                         /\ first[i - 1] - first[i] <= MulDiv(total, weights[i], BPS)
  BY FirstPassDef
<1>2. stakes = [i \in 1..n |-> (first[i - 1] - first[i]) + (sweep[i - 1] - sweep[i])]
  BY DEF LadderStakes
<1>. HIDE DEF first
<1>3. /\ sweep \in [0..n -> Nat]
      /\ \A i \in 1..n : sweep[i] = SweepRank(sweep[i - 1],
                                              caps[i] - (first[i - 1] - first[i]))
  BY <1>1, SecondPassDef
<1>. HIDE DEF sweep, stakes
<1>4. ASSUME NEW i \in 1..n
      PROVE  /\ sweep[i] > 0 => stakes[i] = caps[i]
             /\ sweep[i] <= sweep[i - 1]
             /\ stakes[i] > MulDiv(total, weights[i], BPS) => sweep[i - 1] > 0
  <2>. DEFINE x == first[i - 1] - first[i]
              a == sweep[i - 1]
              b == sweep[i]
              z == stakes[i]
              c == caps[i]
              most == MulDiv(total, weights[i], BPS)
  <2>1. /\ x \in 0..c /\ x <= most /\ c \in Nat /\ a \in Nat /\ b \in Nat
        /\ b = SweepRank(a, c - x) /\ z = x + (a - b)
    BY <1>1, <1>2, <1>3
  <2>2. most \in Nat
    <3>1. BPS \in Nat \ {0} /\ weights[i] \in Nat
      BY DEF BPS
    <3>. QED  BY <3>1, MulDivBounds
  <2>. HIDE DEF x, a, b, z, c, most
  <2>3. (b > 0 => z = c) /\ b <= a /\ (z > most => a > 0)
    BY <2>1, <2>2 DEF SweepRank, Lesser
  <2>. QED  BY <2>3 DEF a, b, z, c, most
<1>5. ASSUME NEW i \in 0..n
      PROVE  \A j \in 0..n : i <= j => sweep[j] <= sweep[i]
  <2>. DEFINE S == {j \in 0..n : i <= j => sweep[j] <= sweep[i]}
  <2>1. 0 \in S
    <3>1. sweep[i] \in Nat
      BY <1>3
    <3>. QED  BY <3>1
  <2>2. ASSUME NEW j \in 0..n, j \in S, j < n PROVE j + 1 \in S
    <3>1. j + 1 \in 1..n /\ (j + 1) - 1 = j
      BY <2>2
    <3>2. sweep[j + 1] <= sweep[j]
      BY <1>4, <3>1
    <3>3. sweep[i] \in Nat /\ sweep[j] \in Nat /\ sweep[j + 1] \in Nat
      BY <1>3, <3>1
    <3>. QED  BY <2>2, <3>1, <3>2, <3>3
  <2>3. S = 0..n
    <3>. HIDE DEF S
    <3>1. S \in SUBSET (0..n)
      BY DEF S
    <3>. QED  BY <2>1, <2>2, <3>1, SetInduction
  <2>. QED  BY <2>3
<1>. QED  BY <1>3, <1>4, <1>5 DEF sweep, stakes, first

\* ladderAllocate reverts exactly when the capacities do not add up to the
\* stake, and a rank gets more than its weighted share only once every better
\* rank is full: whatever the roundings, the better price is used first.
THEOREM LadderBestFirst ==
    ASSUME NEW n \in Nat, NEW total \in Nat, NEW caps \in [1..n -> Nat],
           NEW weights \in [1..n -> Nat]
    PROVE  LET stakes == LadderStakes(total, caps, weights, n)
           IN  /\ LadderPlaces(total, caps, weights, n) <=> SumTo(caps, n) >= total
               /\ \A i, j \in 1..n :
                     i < j /\ stakes[j] > MulDiv(total, weights[j], BPS)
                         => stakes[i] = caps[i]
<1>. DEFINE sweep == SecondPass(caps, FirstPass(total, caps, weights, n), n)
            stakes == LadderStakes(total, caps, weights, n)
<1>1. /\ sweep \in [0..n -> Nat]
      /\ \A i \in 1..n : sweep[i] > 0 => stakes[i] = caps[i]
      /\ \A i, j \in 0..n : i <= j => sweep[j] <= sweep[i]
      /\ \A j \in 1..n : stakes[j] > MulDiv(total, weights[j], BPS) => sweep[j - 1] > 0
  BY LadderSweeps
<1>2. /\ stakes \in [1..n -> Nat]
      /\ \A i \in 1..n : stakes[i] <= caps[i]
  BY LadderWithinCaps
<1>3. SumTo(stakes, n) = total - sweep[n]
  BY LadderPlaced DEF LadderLeft
<1>4. LadderPlaces(total, caps, weights, n) <=> sweep[n] = 0
  BY DEF LadderPlaces
<1>. HIDE DEF sweep, stakes
<1>5. SumTo(stakes, n) <= SumTo(caps, n) /\ SumTo(caps, n) \in Nat
  BY <1>2, TotalOfLess, TotalOfAmounts
<1>6. sweep[n] # 0 => stakes = caps
  <2>. SUFFICES ASSUME sweep[n] # 0 PROVE stakes = caps
    OBVIOUS
  <2>1. sweep[n] \in Nat /\ sweep[n] > 0
    BY <1>1
  <2>2. \A i \in 1..n : sweep[i] \in Nat /\ sweep[n] <= sweep[i]
    BY <1>1
  <2>3. \A i \in 1..n : stakes[i] = caps[i]
    BY <1>1, <2>1, <2>2
  <2>. QED  BY <1>2, <2>3
<1>7. sweep[n] \in Nat
  BY <1>1
<1>8. LadderPlaces(total, caps, weights, n) <=> SumTo(caps, n) >= total
  <2>. DEFINE left == sweep[n]
              placed == SumTo(stakes, n)
              room == SumTo(caps, n)
  <2>1. /\ left \in Nat /\ room \in Nat /\ placed = total - left /\ placed <= room
        /\ left # 0 => placed = room
    BY <1>3, <1>5, <1>6, <1>7
  <2>. HIDE DEF left, placed, room
  <2>2. left = 0 <=> room >= total
    BY <2>1
  <2>. QED  BY <1>4, <2>2 DEF left, room
<1>9. ASSUME NEW i \in 1..n, NEW j \in 1..n, i < j,
             stakes[j] > MulDiv(total, weights[j], BPS)
      PROVE  stakes[i] = caps[i]
  <2>1. j - 1 \in 0..n /\ i \in 0..n /\ i <= j - 1
    BY <1>9
  <2>2. sweep[j - 1] > 0 /\ sweep[j - 1] <= sweep[i]
    BY <1>1, <1>9, <2>1
  <2>3. sweep[i] \in Nat /\ sweep[j - 1] \in Nat
    BY <1>1, <2>1
  <2>4. sweep[i] > 0
    BY <2>2, <2>3
  <2>. QED  BY <1>1, <2>4
<1>. QED  BY <1>8, <1>9 DEF stakes
=============================================================================
