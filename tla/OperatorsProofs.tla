-------------------------- MODULE OperatorsProofs --------------------------
(***************************************************************************)
(* Proofs about the program's pure functions, for all masks, lists of      *)
(* roles, nested decisions, texts, values and rows, and for every bound of *)
(* Operators.                                                              *)
(*                                                                         *)
(* A loop is a recursive function over the rounds.  The induction theorems *)
(* of the library are about operators; here a set stands for the           *)
(* predicate, and the set of the values a loop computes for its operator.  *)
(***************************************************************************)
EXTENDS Operators, WellFoundedInduction, SequenceTheorems, TLAPS

-----------------------------------------------------------------------------
(* The least number principle and induction, for a set in place of a predicate. *)

LEMMA LeastElement ==
    ASSUME NEW T \in SUBSET Nat, T # {}
    PROVE  \E m \in T : \A k \in T : m <= k
<1> DEFINE R == {ss \in Nat \X Nat : ss[1] < ss[2]}
<1>1. IsWellFoundedOn(R, Nat)
  BY NatLessThanWellFounded DEF OpToRel
<1>2. PICK x \in T : \A y \in T : <<y, x>> \notin R
  <2> HIDE DEF R
  <2> QED  BY <1>1, WFMin
<1>3. ASSUME NEW y \in T
      PROVE  x <= y
  <2>1. x \in Nat /\ y \in Nat
    OBVIOUS
  <2>2. ~(y < x)
    BY <1>2, <2>1
  <2> QED  BY <2>1, <2>2
<1> QED  BY <1>3

LEMMA NatSetInduction ==
    ASSUME NEW T \in SUBSET Nat, 0 \in T, \A n \in T : n + 1 \in T
    PROVE  T = Nat
<1> SUFFICES ASSUME T # Nat
             PROVE  FALSE
  OBVIOUS
<1>1. PICK m \in Nat \ T : \A k \in Nat \ T : m <= k
  BY LeastElement
<1>2. m # 0 /\ m - 1 \in T
  BY <1>1
<1> QED  BY <1>2

LEMMA IntervalInduction ==
    ASSUME NEW N \in Nat, NEW T, 0 \in T, \A n \in 0 .. N : n \in T /\ n < N => n + 1 \in T
    PROVE  0 .. N \subseteq T
<1> DEFINE U == {n \in Nat : n \in T \/ n > N}
<1>1. U = Nat
  <2>1. \A n \in U : n + 1 \in U
    OBVIOUS
  <2> HIDE DEF U
  <2> QED  BY <2>1, NatSetInduction DEF U
<1> QED  BY <1>1

LEMMA MaxOfInterval ==
    ASSUME NEW n \in Nat \ {0}
    PROVE  /\ Max(1 .. n) = n
           /\ (1 .. n) \ {Max(1 .. n)} = 1 .. n - 1
BY DEF Max

LEMMA MaxInInterval ==
    ASSUME NEW n \in Nat, NEW s \in SUBSET (1 .. n), s # {}
    PROVE  /\ Max(s) \in s
           /\ \A x \in s : x <= Max(s)
<1> DEFINE U == {m \in Nat : \A x \in s : x <= m}
<1>1. n \in U
  OBVIOUS
<1>2. PICK m \in U : \A k \in U : m <= k
  <2>1. U \in SUBSET Nat /\ U # {}
    BY <1>1
  <2> HIDE DEF U
  <2> QED  BY <2>1, LeastElement
<1>3. m \in s
  <2> SUFFICES ASSUME m \notin s
               PROVE  FALSE
    OBVIOUS
  <2>1. m # 0
    <3>1. PICK x \in s : TRUE
      OBVIOUS
    <3> QED  BY <3>1, <1>2
  <2>2. m - 1 \in U
    BY <1>2, <2>1
  <2> QED  BY <1>2, <2>1, <2>2
<1>4. \A x \in s : m >= x
  BY <1>2
<1> QED  BY <1>3, <1>4 DEF Max

-----------------------------------------------------------------------------
(* Loops and folds *)

\* The values a variable takes in a loop of N rounds.
LoopFns(N, A, base, step) ==
    {f \in [0 .. N -> A] :
        /\ f[0] = base
        /\ \A n \in 1 .. N : f[n] = step[<<n, f[n - 1]>>]}

LEMMA LoopExists ==
    ASSUME NEW N \in Nat, NEW A, NEW base \in A, NEW step \in [(1 .. N) \X A -> A]
    PROVE  LoopFns(N, A, base, step) # {}
<1> DEFINE Good(f, m) == f[0] = base /\ \A n \in 1 .. m : f[n] = step[<<n, f[n - 1]>>]
           T == {m \in 0 .. N : \E f \in [0 .. m -> A] : Good(f, m)}
<1>1. 0 \in T
  <2> DEFINE f == [n \in 0 .. 0 |-> base]
  <2>1. f \in [0 .. 0 -> A] /\ Good(f, 0)
    OBVIOUS
  <2> HIDE DEF Good, f
  <2>2. \E h \in [0 .. 0 -> A] : Good(h, 0)
    BY <2>1
  <2> QED  BY <2>2
<1>2. ASSUME NEW m \in 0 .. N, m \in T, m < N
      PROVE  m + 1 \in T
  <2>1. PICK f \in [0 .. m -> A] : Good(f, m)
    BY <1>2
  <2> DEFINE g == [n \in 0 .. m + 1 |-> IF n = m + 1 THEN step[<<m + 1, f[m]>>] ELSE f[n]]
  <2>2. m + 1 \in 1 .. N /\ f[m] \in A
    BY <1>2
  <2>3. g \in [0 .. m + 1 -> A]
    BY <2>2
  <2>4. g[m + 1] = step[<<m + 1, f[m]>>] /\ \A n \in 0 .. m : g[n] = f[n]
    OBVIOUS
  <2> HIDE DEF g
  <2>5. Good(g, m + 1)
    <3>1. ASSUME NEW n \in 1 .. m + 1
          PROVE  g[n] = step[<<n, g[n - 1]>>]
      <4>1. CASE n = m + 1
        <5>1. n - 1 = m /\ g[m] = f[m]
          BY <2>4, <4>1
        <5> QED  BY <2>4, <4>1, <5>1
      <4>2. CASE n # m + 1
        <5>1. n \in 1 .. m /\ n \in 0 .. m /\ n - 1 \in 0 .. m
          BY <4>2
        <5> QED  BY <2>1, <2>4, <5>1
      <4> QED  BY <4>1, <4>2
    <3> QED  BY <2>1, <2>4, <3>1
  <2>6. m + 1 \in 0 .. N
    BY <1>2
  <2> HIDE DEF Good
  <2> QED  BY <2>3, <2>5, <2>6
<1>3. 0 .. N \subseteq T
  <2> HIDE DEF T
  <2> QED  BY <1>1, <1>2, IntervalInduction
<1>4. N \in T
  BY <1>3
<1> QED  BY <1>4 DEF LoopFns

FoldFns(N, A, base, step) ==
    {f \in [SUBSET (1 .. N) -> A] : \A s \in SUBSET (1 .. N) :
        f[s] = IF s = {} THEN base ELSE step[<<Max(s), f[s \ {Max(s)}]>>]}

LEMMA FoldExists ==
    ASSUME NEW N \in Nat, NEW A, NEW base \in A, NEW step \in [(1 .. N) \X A -> A]
    PROVE  FoldFns(N, A, base, step) # {}
<1> DEFINE Rule(f, s) == IF s = {} THEN base ELSE step[<<Max(s), f[s \ {Max(s)}]>>]
           Good(f, m) == \A s \in SUBSET (1 .. m) : f[s] = Rule(f, s)
           Fns(m) == [SUBSET (1 .. m) -> A]
           T == {m \in 0 .. N : \E f \in Fns(m) : Good(f, m)}
<1>1. 0 \in T
  <2> DEFINE f == [s \in SUBSET (1 .. 0) |-> base]
  <2>1. \A s \in SUBSET (1 .. 0) : s = {}
    OBVIOUS
  <2>2. f \in [SUBSET (1 .. 0) -> A]
    OBVIOUS
  <2>3. Good(f, 0)
    BY <2>1
  <2> HIDE DEF Good, f
  <2>4. \E h \in Fns(0) : Good(h, 0)
    BY <2>2, <2>3
  <2> HIDE DEF Fns
  <2> QED  BY <2>4
<1>2. ASSUME NEW m \in 0 .. N, m \in T, m < N
      PROVE  m + 1 \in T
  <2>1. PICK f \in [SUBSET (1 .. m) -> A] : Good(f, m)
    BY <1>2
  <2> DEFINE g == [s \in SUBSET (1 .. m + 1) |->
                      IF m + 1 \in s THEN step[<<m + 1, f[s \ {m + 1}]>>] ELSE f[s]]
  <2>2. m + 1 \in 1 .. N
    BY <1>2
  <2>3. ASSUME NEW s \in SUBSET (1 .. m + 1)
        PROVE  /\ m + 1 \notin s => s \in SUBSET (1 .. m)
               /\ s \ {m + 1} \in SUBSET (1 .. m)
    OBVIOUS
  <2>4. g \in [SUBSET (1 .. m + 1) -> A]
    BY <2>2, <2>3
  <2>5. /\ \A s \in SUBSET (1 .. m) : g[s] = f[s]
        /\ \A s \in SUBSET (1 .. m + 1) : m + 1 \in s => g[s] = step[<<m + 1, f[s \ {m + 1}]>>]
    OBVIOUS
  <2> HIDE DEF g
  <2>6. Good(g, m + 1)
    <3> SUFFICES ASSUME NEW s \in SUBSET (1 .. m + 1)
                 PROVE  g[s] = Rule(g, s)
      OBVIOUS
    <3>1. CASE m + 1 \in s
      <4>1. Max(s) \in s /\ m + 1 <= Max(s)
        <5>1. m + 1 \in Nat /\ s # {}
          BY <3>1
        <5> HIDE DEF Good, T
        <5> QED  BY <3>1, <5>1, MaxInInterval
      <4>2. Max(s) = m + 1
        <5>1. Max(s) \in 1 .. m + 1
          BY <4>1
        <5> QED  BY <4>1, <5>1
      <4>3. g[s \ {m + 1}] = f[s \ {m + 1}]
        BY <2>3, <2>5
      <4> QED  BY <2>5, <3>1, <4>2, <4>3
    <3>2. CASE m + 1 \notin s
      <4>1. s \in SUBSET (1 .. m) /\ s \ {Max(s)} \in SUBSET (1 .. m)
        <5>1. s \in SUBSET (1 .. m)
          BY <2>3, <3>2
        <5> QED  BY <5>1
      <4>2. g[s] = f[s] /\ g[s \ {Max(s)}] = f[s \ {Max(s)}]
        BY <2>5, <4>1
      <4>3. f[s] = Rule(f, s)
        BY <2>1, <4>1
      <4> QED  BY <4>2, <4>3
    <3> QED  BY <3>1, <3>2
  <2>7. m + 1 \in 0 .. N
    BY <1>2
  <2> HIDE DEF Good
  <2> QED  BY <2>4, <2>6, <2>7
<1>3. 0 .. N \subseteq T
  <2> HIDE DEF T
  <2> QED  BY <1>1, <1>2, IntervalInduction
<1>4. PICK f \in [SUBSET (1 .. N) -> A] : Good(f, N)
  <2> HIDE DEF Good, T
  <2>1. N \in T
    BY <1>3
  <2> QED  BY <2>1 DEF T
<1> QED  BY <1>4 DEF FoldFns

\* What is left to show of a loop, once its function is known to exist: the values it
\* goes through.
LEMMA LoopType ==
    ASSUME NEW N \in Nat, NEW A, NEW f, f[0] \in A,
           \A n \in 1 .. N : f[n - 1] \in A => f[n] \in A
    PROVE  \A n \in 0 .. N : f[n] \in A
<1> DEFINE T == {n \in 0 .. N : f[n] \in A}
<1>1. 0 \in T
  OBVIOUS
<1>2. ASSUME NEW n \in 0 .. N, n \in T, n < N
      PROVE  n + 1 \in T
  <2>1. n + 1 \in 1 .. N /\ (n + 1) - 1 = n
    BY <1>2
  <2> QED  BY <1>2, <2>1
<1>3. 0 .. N \subseteq T
  <2> HIDE DEF T
  <2> QED  BY <1>1, <1>2, IntervalInduction
<1> QED  BY <1>3

LEMMA FoldSteps ==
    ASSUME NEW N \in Nat, NEW A, NEW base \in A, NEW step \in [(1 .. N) \X A -> A],
           NEW iter, iter[{}] = base,
           \A n \in 1 .. N : iter[1 .. n - 1] \in A => iter[1 .. n] = step[<<n, iter[1 .. n - 1]>>]
    PROVE  [n \in 0 .. N |-> iter[1 .. n]] \in LoopFns(N, A, base, step)
<1> DEFINE f == [n \in 0 .. N |-> iter[1 .. n]]
<1>1. f[0] = base
  <2>1. 1 .. 0 = {}
    OBVIOUS
  <2> QED  BY <2>1
<1>2. \A n \in 1 .. N : /\ f[n] = iter[1 .. n]
                        /\ f[n - 1] = iter[1 .. n - 1]
                        /\ f[n - 1] \in A => <<n, f[n - 1]>> \in (1 .. N) \X A
  OBVIOUS
<1>3. \A n \in 1 .. N : f[n - 1] \in A => f[n] = step[<<n, f[n - 1]>>] /\ f[n] \in A
  <2> HIDE DEF f
  <2> QED  BY <1>2
<1>4. \A n \in 0 .. N : f[n] \in A
  <2> HIDE DEF f
  <2> QED  BY <1>1, <1>3, LoopType
<1>5. f \in [0 .. N -> A]
  BY <1>4
<1>6. \A n \in 1 .. N : f[n] = step[<<n, f[n - 1]>>]
  <2>1. \A n \in 1 .. N : n - 1 \in 0 .. N
    OBVIOUS
  <2> HIDE DEF f
  <2> QED  BY <1>3, <1>4, <2>1
<1> HIDE DEF f
<1>7. f \in LoopFns(N, A, base, step)
  BY <1>1, <1>5, <1>6 DEF LoopFns
<1> QED  BY <1>7 DEF f

-----------------------------------------------------------------------------
(* Filter *)

FilterStep(S, list, kept) ==
    [p \in (1 .. Len(list)) \X Seq(S) |->
        IF list[p[1]] \in kept THEN Append(p[2], list[p[1]]) ELSE p[2]]

LEMMA FilterSteps ==
    ASSUME NEW S, NEW list \in Seq(S), NEW kept
    PROVE  \E ret \in LoopFns(Len(list), Seq(S), <<>>, FilterStep(S, list, kept)) :
              Filter(list, kept) = ret[Len(list)]
<1> DEFINE N == Len(list)
           A == Seq(S)
           Op(a, x) == IF x \in kept THEN Append(a, x) ELSE a
           step == FilterStep(S, list, kept)
           Eq(g) == g = [s \in SUBSET (DOMAIN list) |->
                          IF s = {} THEN <<>> ELSE Op(g[s \ {Max(s)}], list[Max(s)])]
           iter == CHOOSE g : Eq(g)
           ret == [n \in 0 .. N |-> iter[1 .. n]]
<1>1. N \in Nat /\ DOMAIN list = 1 .. N /\ <<>> \in A
  OBVIOUS
<1>2. ASSUME NEW n \in 1 .. N, NEW a \in A
      PROVE  Op(a, list[n]) \in A /\ step[<<n, a>>] = Op(a, list[n])
  BY DEF FilterStep
<1>3. step \in [(1 .. N) \X A -> A]
  BY <1>2 DEF FilterStep
<1> HIDE DEF A, Op, step
<1>4. Filter(list, kept) = iter[1 .. N]
  BY <1>1 DEF Filter, FoldLeft, MapThenFoldSet, Op
<1>5. Eq(iter)
  <2>1. FoldFns(N, A, <<>>, step) # {}
    <3> HIDE DEF N, Eq
    <3> QED  BY <1>1, <1>3, FoldExists
  <2>2. PICK f \in [SUBSET (1 .. N) -> A] : \A s \in SUBSET (1 .. N) :
              f[s] = IF s = {} THEN <<>> ELSE step[<<Max(s), f[s \ {Max(s)}]>>]
    BY <2>1 DEF FoldFns
  <2>3. ASSUME NEW s \in SUBSET (1 .. N), s # {}
        PROVE  step[<<Max(s), f[s \ {Max(s)}]>>] = Op(f[s \ {Max(s)}], list[Max(s)])
    <3>1. Max(s) \in 1 .. N /\ s \ {Max(s)} \in SUBSET (1 .. N)
      BY <1>1, <2>3, MaxInInterval
    <3> QED  BY <1>2, <3>1
  <2>4. Eq(f)
    BY <1>1, <2>2, <2>3
  <2> HIDE DEF Eq
  <2> QED  BY <2>4
<1> HIDE DEF iter
<1>6. iter[{}] = <<>>
  BY <1>5
<1>7. ASSUME NEW n \in 1 .. N
      PROVE  iter[1 .. n] = Op(iter[1 .. n - 1], list[n])
  <2>1. n \in Nat \ {0} /\ 1 .. n \in SUBSET (DOMAIN list) /\ 1 .. n # {}
    BY <1>1
  <2>2. iter[1 .. n] = Op(iter[(1 .. n) \ {Max(1 .. n)}], list[Max(1 .. n)])
    BY <1>5, <2>1
  <2> QED  BY <2>1, <2>2, MaxOfInterval
<1>8. ret \in LoopFns(N, A, <<>>, step)
  <2>1. \A n \in 1 .. N : iter[1 .. n - 1] \in A => iter[1 .. n] = step[<<n, iter[1 .. n - 1]>>]
    BY <1>2, <1>7
  <2> HIDE DEF N, Eq
  <2> QED  BY <1>1, <1>3, <1>6, <2>1, FoldSteps
<1>9. Filter(list, kept) = ret[N]
  BY <1>1, <1>4
<1> QED  BY <1>8, <1>9 DEF A, step

\* Where the items of a part of a list are in it, one after the other.
PlacesIn(list, part) ==
    {idx \in [DOMAIN part -> DOMAIN list] :
        /\ \A i \in DOMAIN part : part[i] = list[idx[i]]
        /\ \A i, j \in DOMAIN part : i < j => idx[i] < idx[j]}

\* Filter keeps the items that are in the set, each once and in their order.
LEMMA FilterFacts ==
    ASSUME NEW S, NEW list \in Seq(S), NEW kept
    PROVE  /\ Filter(list, kept) \in Seq(S)
           /\ ToSet(Filter(list, kept)) = ToSet(list) \cap kept
           /\ PlacesIn(list, Filter(list, kept)) # {}
<1> DEFINE N == Len(list)
<1>a. PICK ret \in LoopFns(N, Seq(S), <<>>, FilterStep(S, list, kept)) : Filter(list, kept) = ret[N]
  BY FilterSteps
<1>2. N \in Nat /\ DOMAIN list = 1 .. N
  OBVIOUS
<1>1. /\ ret \in [0 .. N -> Seq(S)]
      /\ ret[0] = <<>>
      /\ \A n \in 1 .. N :
            ret[n] = IF list[n] \in kept THEN Append(ret[n - 1], list[n]) ELSE ret[n - 1]
      /\ Filter(list, kept) = ret[N]
  <2>1. /\ ret \in [0 .. N -> Seq(S)] /\ ret[0] = <<>>
        /\ \A n \in 1 .. N : ret[n] = FilterStep(S, list, kept)[<<n, ret[n - 1]>>]
    BY <1>a DEF LoopFns
  <2>2. \A n \in 1 .. N : <<n, ret[n - 1]>> \in (1 .. N) \X Seq(S)
    <3> HIDE DEF N
    <3> QED  BY <1>2, <2>1
  <2>3. \A n \in 1 .. N : FilterStep(S, list, kept)[<<n, ret[n - 1]>>]
               = IF list[n] \in kept THEN Append(ret[n - 1], list[n]) ELSE ret[n - 1]
    BY <2>2 DEF FilterStep
  <2> QED  BY <1>a, <2>1, <2>3
<1> HIDE DEF N
<1> DEFINE Members(n) == \A x : (\E i \in 1 .. Len(ret[n]) : ret[n][i] = x)
                                  <=> x \in kept /\ \E k \in 1 .. n : list[k] = x
           Places(n, idx) == /\ \A i \in 1 .. Len(ret[n]) : ret[n][i] = list[idx[i]]
                             /\ \A i, j \in 1 .. Len(ret[n]) : i < j => idx[i] < idx[j]
           Placed(n) == \E idx \in [1 .. Len(ret[n]) -> 1 .. n] : Places(n, idx)
           T == {n \in 0 .. N : Members(n) /\ Placed(n)}
<1>3. 0 \in T
  <2>1. Members(0)
    BY <1>1
  <2>2. Placed(0)
    <3> DEFINE f == [i \in 1 .. 0 |-> 0]
    <3>1. Len(ret[0]) = 0 /\ 1 .. 0 = {}
      BY <1>1
    <3>2. f \in [1 .. Len(ret[0]) -> 1 .. 0] /\ Places(0, f)
      BY <3>1
    <3> QED  BY <3>2
  <2>3. 0 \in 0 .. N
    BY <1>2
  <2> HIDE DEF Members, Placed
  <2> QED  BY <2>1, <2>2, <2>3
<1>4. ASSUME NEW n \in 0 .. N, n \in T, n < N
      PROVE  n + 1 \in T
  <2>1. n + 1 \in 1 .. N /\ (n + 1) - 1 = n /\ n + 1 \in 0 .. N /\ n \in Nat
    BY <1>2, <1>4
  <2>2. PICK idx \in [1 .. Len(ret[n]) -> 1 .. n] : Places(n, idx)
    BY <1>4
  <2>3. Members(n)
    BY <1>4
  <2>4. ret[n] \in Seq(S) /\ ret[n + 1] \in Seq(S) /\ list[n + 1] \in S
    BY <1>1, <1>2, <2>1
  <2>5. CASE list[n + 1] \in kept
    <3> DEFINE L == Len(ret[n])
               f == [i \in 1 .. L + 1 |-> IF i = L + 1 THEN n + 1 ELSE idx[i]]
    <3>1. ret[n + 1] = Append(ret[n], list[n + 1])
      BY <1>1, <2>1, <2>5
    <3>2. /\ Len(ret[n + 1]) = L + 1
          /\ \A i \in 1 .. L : ret[n + 1][i] = ret[n][i]
          /\ ret[n + 1][L + 1] = list[n + 1]
      BY <2>4, <3>1
    <3>3. L \in Nat /\ L + 1 \in 1 .. L + 1 /\ \A i \in 1 .. L + 1 : i \in 1 .. L \/ i = L + 1
      BY <2>4
    <3>4. Members(n + 1)
      <4> SUFFICES ASSUME NEW x
                   PROVE  (\E i \in 1 .. L + 1 : ret[n + 1][i] = x)
                             <=> x \in kept /\ \E k \in 1 .. n + 1 : list[k] = x
        BY <3>2
      <4>1. (\E i \in 1 .. L + 1 : ret[n + 1][i] = x)
               <=> (\E i \in 1 .. L : ret[n][i] = x) \/ x = list[n + 1]
        <5>1. 1 .. L \subseteq 1 .. L + 1
          BY <3>3
        <5> HIDE DEF L, Members, Placed, T, f
        <5> QED  BY <3>2, <3>3, <5>1
      <4>2. (\E k \in 1 .. n + 1 : list[k] = x) <=> (\E k \in 1 .. n : list[k] = x) \/ x = list[n + 1]
        BY <2>1
      <4>3. (\E i \in 1 .. L : ret[n][i] = x) <=> x \in kept /\ \E k \in 1 .. n : list[k] = x
        BY <2>3
      <4> QED  BY <2>5, <4>1, <4>2, <4>3
    <3>5. f \in [1 .. L + 1 -> 1 .. n + 1]
      BY <2>1, <3>3
    <3>6. f[L + 1] = n + 1 /\ \A i \in 1 .. L : f[i] = idx[i] /\ idx[i] \in 1 .. n
      BY <3>3
    <3> HIDE DEF f, L
    <3>7. Places(n + 1, f)
      <4>1. \A i \in 1 .. L : ret[n][i] = list[idx[i]]
        BY <2>2 DEF L
      <4>2. \A i, j \in 1 .. L : i < j => idx[i] < idx[j]
        BY <2>2 DEF L
      <4>3. \A i \in 1 .. L + 1 : i \in 1 .. L \/ i = L + 1
        BY <3>3
      <4>4. \A i \in 1 .. L + 1 : ret[n + 1][i] = list[f[i]]
        BY <3>2, <3>6, <4>1, <4>3
      <4>5. ASSUME NEW i \in 1 .. L + 1, NEW j \in 1 .. L + 1, i < j
            PROVE  f[i] < f[j]
        <5>1. i \in 1 .. L
          BY <3>3, <4>5
        <5>2. CASE j = L + 1
          BY <2>1, <3>6, <5>1, <5>2
        <5>3. CASE j \in 1 .. L
          BY <3>6, <4>2, <4>5, <5>1, <5>3
        <5> QED  BY <4>3, <5>2, <5>3
      <4> QED  BY <3>2, <4>4, <4>5
    <3>8. Placed(n + 1)
      <4> HIDE DEF Places
      <4> QED  BY <3>2, <3>5, <3>7
    <3> QED  BY <2>1, <3>4, <3>8
  <2>6. CASE list[n + 1] \notin kept
    <3>1. ret[n + 1] = ret[n]
      BY <1>1, <2>1, <2>6
    <3>2. Members(n + 1)
      <4> SUFFICES ASSUME NEW x
                   PROVE  (\E i \in 1 .. Len(ret[n]) : ret[n][i] = x)
                             <=> x \in kept /\ \E k \in 1 .. n + 1 : list[k] = x
        BY <3>1
      <4>1. (\E k \in 1 .. n + 1 : list[k] = x) <=> (\E k \in 1 .. n : list[k] = x) \/ x = list[n + 1]
        BY <2>1
      <4> QED  BY <2>3, <2>6, <4>1
    <3>3. idx \in [1 .. Len(ret[n + 1]) -> 1 .. n + 1]
      BY <2>1, <3>1
    <3>4. Places(n + 1, idx)
      BY <2>2, <3>1
    <3>5. Placed(n + 1)
      <4> HIDE DEF Places
      <4> QED  BY <3>3, <3>4
    <3> QED  BY <2>1, <3>2, <3>5
  <2> QED  BY <2>5, <2>6
<1>5. 0 .. N \subseteq T
  <2> HIDE DEF T
  <2> QED  BY <1>2, <1>3, <1>4, IntervalInduction
<1>6. N \in T
  <2> HIDE DEF T
  <2> QED  BY <1>2, <1>5
<1>7. ret[N] \in Seq(S) /\ DOMAIN ret[N] = 1 .. Len(ret[N])
  BY <1>1, <1>2
<1>8. ToSet(ret[N]) = ToSet(list) \cap kept
  <2>1. ToSet(ret[N]) = {ret[N][i] : i \in 1 .. Len(ret[N])} /\ ToSet(list) = {list[k] : k \in 1 .. N}
    BY <1>2, <1>7 DEF ToSet
  <2>2. Members(N)
    BY <1>6
  <2> HIDE DEF T, Placed
  <2> QED  BY <2>1, <2>2
<1>9. PICK idx \in [1 .. Len(ret[N]) -> 1 .. N] : Places(N, idx)
  BY <1>6
<1>10. idx \in PlacesIn(list, ret[N])
  BY <1>2, <1>7, <1>9 DEF PlacesIn
<1> QED  BY <1>1, <1>7, <1>8, <1>10


-----------------------------------------------------------------------------
(* Masks *)

LEMMA BitsOfFeatures ==
    /\ FeatureToBitValue("APP_CONFIG") = 1
    /\ FeatureToBitValue("USER_CONFIG") = 2
    /\ FeatureToBitValue("COUNTER") = 4
    /\ FeatureToBitValue("CLIENT_MONITOR") = 256
<1> DEFINE a == [feature |-> "APP_CONFIG",     bitValue |-> 1]
           b == [feature |-> "USER_CONFIG",    bitValue |-> 2]
           c == [feature |-> "COUNTER",        bitValue |-> 4]
           d == [feature |-> "CLIENT_MONITOR", bitValue |-> 256]
<1>1. ToSet(FEATURE_CONFIG) = {a, b, c, d}
  BY DEF ToSet, FEATURE_CONFIG
<1>2. /\ a.feature = "APP_CONFIG" /\ b.feature = "USER_CONFIG"
      /\ c.feature = "COUNTER" /\ d.feature = "CLIENT_MONITOR"
      /\ a.bitValue = 1 /\ b.bitValue = 2 /\ c.bitValue = 4 /\ d.bitValue = 256
  OBVIOUS
<1> HIDE DEF a, b, c, d
<1>3. /\ ConfigOfFeature("APP_CONFIG") = a
      /\ ConfigOfFeature("USER_CONFIG") = b
      /\ ConfigOfFeature("COUNTER") = c
      /\ ConfigOfFeature("CLIENT_MONITOR") = d
  BY <1>1, <1>2 DEF ConfigOfFeature
<1> QED  BY <1>2, <1>3 DEF FeatureToBitValue

FeatureBits == {1, 2, 4, 256}

LEMMA SetBits ==
    ASSUME NEW x \in Nat, NEW b \in FeatureBits
    PROVE  /\ \A c \in FeatureBits : HasBit(WithBit(x, b), c) <=> HasBit(x, c) \/ c = b
           /\ \A c \in FeatureBits : HasBit(WithoutBit(x, b), c) <=> HasBit(x, c) /\ c # b
           /\ WithBit(x, b) - WithoutBit(x, b) = b
           /\ x \in {WithBit(x, b), WithoutBit(x, b)}
<1>1. CASE b = 1
  BY <1>1 DEF HasBit, WithBit, WithoutBit, FeatureBits
<1>2. CASE b = 2
  BY <1>2 DEF HasBit, WithBit, WithoutBit, FeatureBits
<1>3. CASE b = 4
  BY <1>3 DEF HasBit, WithBit, WithoutBit, FeatureBits
<1>4. CASE b = 256
  BY <1>4 DEF HasBit, WithBit, WithoutBit, FeatureBits
<1> QED  BY <1>1, <1>2, <1>3, <1>4 DEF FeatureBits

\* The meaning of a mask after a change is that before it with the feature or without.
LEMMA ChangesOfMasks ==
    ASSUME NEW features \in Nat, NEW f \in Feature
    PROVE  ChangesAreSetOperations(features, f)
<1>1. \A g \in Feature : FeatureToBitValue(g) \in FeatureBits
  BY BitsOfFeatures DEF Feature, FeatureBits
<1>2. \A g, h \in Feature : FeatureToBitValue(g) = FeatureToBitValue(h) => g = h
  BY BitsOfFeatures DEF Feature
<1> DEFINE bit == FeatureToBitValue(f)
           with == WithBit(features, bit)
           without == WithoutBit(features, bit)
<1>3. /\ \A g \in Feature : HasBit(with, FeatureToBitValue(g))
                               <=> HasBit(features, FeatureToBitValue(g)) \/ g = f
      /\ \A g \in Feature : HasBit(without, FeatureToBitValue(g))
                               <=> HasBit(features, FeatureToBitValue(g)) /\ g # f
      /\ with - without = bit
      /\ features \in {with, without}
  <2>1. bit \in FeatureBits
    BY <1>1
  <2>2. ASSUME NEW g \in Feature
        PROVE  /\ HasBit(with, FeatureToBitValue(g))
                      <=> HasBit(features, FeatureToBitValue(g)) \/ g = f
               /\ HasBit(without, FeatureToBitValue(g))
                      <=> HasBit(features, FeatureToBitValue(g)) /\ g # f
    <3> DEFINE c == FeatureToBitValue(g)
    <3>1. c \in FeatureBits /\ (c = bit <=> g = f)
      BY <1>1, <1>2
    <3> HIDE DEF c, bit
    <3>2. /\ HasBit(with, c) <=> HasBit(features, c) \/ c = bit
          /\ HasBit(without, c) <=> HasBit(features, c) /\ c # bit
      BY <2>1, <3>1, SetBits
    <3> QED  BY <3>1, <3>2 DEF c
  <2> HIDE DEF bit
  <2>3. with - without = bit /\ features \in {with, without}
    BY <2>1, SetBits
  <2> QED  BY <2>2, <2>3
<1> HIDE DEF with, without
<1>4. Meaning(with) = Meaning(features) \cup {f} /\ Meaning(without) = Meaning(features) \ {f}
  BY <1>3 DEF Meaning, IsFeatureExistInBitValues
<1>5. with = AddFeatureToBitValues(features, f) /\ without = RemoveFeatureFromBitValues(features, f)
  BY DEF AddFeatureToBitValues, RemoveFeatureFromBitValues, with, without
<1> QED  BY <1>3, <1>4, <1>5 DEF ChangesAreSetOperations

\* The list of a mask is that of its features.
LEMMA ListsOfMasks ==
    ASSUME NEW features \in Nat
    PROVE  ListsAreMeanings(features)
<1> DEFINE a == [feature |-> "APP_CONFIG",     bitValue |-> 1]
           b == [feature |-> "USER_CONFIG",    bitValue |-> 2]
           c == [feature |-> "COUNTER",        bitValue |-> 4]
           d == [feature |-> "CLIENT_MONITOR", bitValue |-> 256]
           S == {a, b, c, d}
           kept == {cfg \in ToSet(FEATURE_CONFIG) : HasBit(features, cfg.bitValue)}
           cfgs == FeatureBitsToFeatureConfigs(features)
<1>1. FEATURE_CONFIG = <<a, b, c, d>> /\ FEATURE_CONFIG \in Seq(S) /\ DOMAIN FEATURE_CONFIG = 1 .. 4
  BY DEF FEATURE_CONFIG
<1>2. ToSet(FEATURE_CONFIG) = S
  BY <1>1 DEF ToSet
<1>3. \A cfg \in S : /\ cfg.feature \in Feature
                     /\ cfg.bitValue = FeatureToBitValue(cfg.feature)
                     /\ ConfigOfBit(cfg.bitValue) = cfg
  <2>1. /\ a.feature = "APP_CONFIG" /\ b.feature = "USER_CONFIG"
        /\ c.feature = "COUNTER" /\ d.feature = "CLIENT_MONITOR"
        /\ a.bitValue = 1 /\ b.bitValue = 2 /\ c.bitValue = 4 /\ d.bitValue = 256
    OBVIOUS
  <2> HIDE DEF a, b, c, d
  <2>2. ConfigOfBit(1) = a /\ ConfigOfBit(2) = b /\ ConfigOfBit(4) = c /\ ConfigOfBit(256) = d
    BY <1>2, <2>1 DEF ConfigOfBit
  <2> QED  BY <2>1, <2>2, BitsOfFeatures DEF Feature
<1>4. \A f \in Feature : \E cfg \in S : cfg.feature = f
  BY DEF Feature
<1>5. \A i, j \in 1 .. 4 : i < j => FEATURE_CONFIG[i].bitValue < FEATURE_CONFIG[j].bitValue
  BY <1>1
<1> HIDE DEF S
<1>6. /\ ToSet(cfgs) = S \cap kept
      /\ \E idx \in [DOMAIN cfgs -> 1 .. 4] :
            /\ \A i \in DOMAIN cfgs : cfgs[i] = FEATURE_CONFIG[idx[i]]
            /\ \A i, j \in DOMAIN cfgs : i < j => idx[i] < idx[j]
  <2>1. cfgs = Filter(FEATURE_CONFIG, kept)
    BY DEF FeatureBitsToFeatureConfigs
  <2> HIDE DEF kept, cfgs, a, b, c, d
  <2>2. /\ ToSet(cfgs) = ToSet(FEATURE_CONFIG) \cap kept
        /\ PlacesIn(FEATURE_CONFIG, cfgs) # {}
    BY <1>1, <2>1, FilterFacts
  <2> QED  BY <1>1, <1>2, <2>2 DEF PlacesIn
<1> HIDE DEF cfgs
<1>7. {cfg.feature : cfg \in ToSet(cfgs)} = Meaning(features)
  BY <1>2, <1>3, <1>4, <1>6 DEF Meaning, IsFeatureExistInBitValues
<1>8. \A i, j \in DOMAIN cfgs : i < j => cfgs[i].bitValue < cfgs[j].bitValue
  BY <1>5, <1>6
<1>9. \A cfg \in ToSet(cfgs) : ConfigOfBit(cfg.bitValue) = cfg
  BY <1>3, <1>6
<1> QED  BY <1>7, <1>8, <1>9 DEF ListsAreMeanings, cfgs

LEMMA RunsOfBits ==
    ASSUME NEW x \in Nat, x < 16777216
    PROVE  /\ BitsOf(x, <<1, 256>>) + BitsOf(x, <<256, 65536>>) + BitsOf(x, <<65536, 16777216>>) = x
           /\ BitsOf(BitsOf(x, <<1, 256>>), <<1, 256>>) = BitsOf(x, <<1, 256>>)
           /\ BitsOf(BitsOf(x, <<256, 65536>>), <<256, 65536>>) = BitsOf(x, <<256, 65536>>)
           /\ BitsOf(BitsOf(x, <<65536, 16777216>>), <<65536, 16777216>>)
                  = BitsOf(x, <<65536, 16777216>>)
           /\ \A bit \in {1, 2, 4} : ~HasBit(BitsOf(x, <<256, 65536>>), bit)
           /\ HasBit(BitsOf(x, <<256, 65536>>), 256) <=> HasBit(x, 256)
<1> DEFINE p == x % 256
           q == x % 65536
<1>2. /\ BitsOf(x, <<1, 256>>) = p
      /\ BitsOf(x, <<256, 65536>>) = q - p
      /\ BitsOf(x, <<65536, 16777216>>) = x - q
  BY SMT DEF BitsOf
<1>3. p \in Nat /\ q \in Nat /\ x - q \in Nat /\ q - p \in Nat
  BY SMT
<1>4. (p % 256) - (p % 1) = p
  BY SMT
<1>5. ((q - p) % 65536) - ((q - p) % 256) = q - p
  BY SMT
<1>6. ((x - q) % 16777216) - ((x - q) % 65536) = x - q
  BY SMT
<1>7. /\ ((q - p) \div 1) % 2 # 1 /\ ((q - p) \div 2) % 2 # 1 /\ ((q - p) \div 4) % 2 # 1
  BY SMT
<1>8. ((q - p) \div 256) % 2 = (x \div 256) % 2
  BY SMT
<1> HIDE DEF p, q
<1> QED  BY <1>2, <1>3, <1>4, <1>5, <1>6, <1>7, <1>8, SMT DEF BitsOf, HasBit

LEMMA MasksAreNumbers == \A features \in Masks : features \in Nat /\ features < 16777216
<1> SUFFICES ASSUME NEW features \in Masks
             PROVE  features \in Nat /\ features < 16777216
  OBVIOUS
<1>1. features \in 0 .. 2^(3 * FEATURE_ROLE_BITS_RANGE_LEN) - 1
  BY MasksAssumption
<1> QED  BY <1>1, SMT DEF FEATURE_ROLE_BITS_RANGE_LEN

LEMMA RangesOfMasks ==
    ASSUME NEW features \in Masks, NEW role \in DecisionRole
    PROVE  RangesPartition(features, role)
<1> DEFINE bits(r) == FeatureBitsOfRole(features, r)
<1>1. features \in Nat /\ features < 16777216
  BY MasksAreNumbers
<1>2. /\ FEATURE_ROLE_BITMASK_COMMON = <<1, 256>>
      /\ FEATURE_ROLE_BITMASK_ADMIN = <<256, 65536>>
      /\ FEATURE_ROLE_BITMASK_USER = <<65536, 16777216>>
  BY SMT DEF FEATURE_ROLE_BITMASK_COMMON, FEATURE_ROLE_BITMASK_ADMIN, FEATURE_ROLE_BITMASK_USER,
             FEATURE_ROLE_BITS_RANGE_LEN
<1>3. \A x : /\ FeatureBitsOfRole(x, "none") = BitsOf(x, <<1, 256>>)
             /\ FeatureBitsOfRole(x, "admin") = BitsOf(x, <<256, 65536>>)
             /\ FeatureBitsOfRole(x, "user") = BitsOf(x, <<65536, 16777216>>)
             /\ FeatureBitsOfRole(x, "all") = x
  BY <1>2, SMT DEF FeatureBitsOfRole
<1>4. bits("none") + bits("admin") + bits("user") = bits("all")
  BY <1>1, <1>3, RunsOfBits, SMT
<1>5. Meaning(bits("admin")) = {f \in Meaning(features) : InitialDataRoles(f) = {"admin"}}
  <2>1. \A f \in Feature : InitialDataRoles(f) = {"admin"} <=> f = "CLIENT_MONITOR"
    <3>1. {"all"} # {"admin"}
      OBVIOUS
    <3> QED  BY <3>1 DEF InitialDataRoles
  <2>2. /\ \A bit \in {1, 2, 4} : ~HasBit(bits("admin"), bit)
        /\ HasBit(bits("admin"), 256) <=> HasBit(features, 256)
    BY <1>1, <1>3, RunsOfBits, SMT
  <2> HIDE DEF bits
  <2>3. \A f \in Feature : IsFeatureExistInBitValues(bits("admin"), f)
                              <=> IsFeatureExistInBitValues(features, f) /\ f = "CLIENT_MONITOR"
    BY <2>2, BitsOfFeatures DEF Feature, IsFeatureExistInBitValues
  <2> QED  BY <2>1, <2>3 DEF Meaning
<1>6. FeatureBitsOfRole(bits(role), role) = bits(role)
  <2>1. role \in {"none", "admin", "user", "all"}
    BY DEF DecisionRole, Role
  <2> QED  BY <1>1, <1>3, <2>1, RunsOfBits, SMT
<1> QED  BY <1>4, <1>5, <1>6 DEF RangesPartition

(***************************************************************************)
(* An input is chosen once and kept, so an invariant is a fact about the   *)
(* functions for every input.                                              *)
(***************************************************************************)
LEMMA InputIsKept == Spec => []Init
<1>1. Init /\ [UNCHANGED input]_input => Init'
  BY DEF Init
<1> QED  BY <1>1, PTL DEF Spec

LEMMA InputsOfAKind ==
    ASSUME Init
    PROVE  /\ input.of = "mask" => input \in MaskInput
           /\ input.of = "roles" => input \in RolesInput
           /\ input.of = "decision" => input \in DecisionInput
           /\ input.of = "load" => input \in LoadInput
           /\ input.of = "set" => input \in SetInput
           /\ input.of = "transform" => input \in TransformInput
           /\ input.of = "trace" => input \in TraceInput
           /\ input.of = "list" => input \in ListInput
<1>1. \A i : /\ i \in MaskInput => i.of = "mask"
             /\ i \in RolesInput => i.of = "roles"
             /\ i \in DecisionInput => i.of = "decision"
             /\ i \in LoadInput => i.of = "load"
             /\ i \in SetInput => i.of = "set"
             /\ i \in TransformInput => i.of = "transform"
             /\ i \in TraceInput => i.of = "trace"
             /\ i \in ListInput => i.of = "list"
  BY DEF MaskInput, RolesInput, DecisionInput, LoadInput, SetInput, TransformInput, TraceInput,
         ListInput
<1> QED  BY <1>1 DEF Init

\* The arithmetic of feature-utils.ts treats a mask as the set of the features whose bits
\* it has, for all masks of the catalogue's three ranges: adding and removing a feature,
\* listing a mask and taking the range of a role out of it.
THEOREM FeatureMasksAreSets == Spec => []MasksAreSets
<1>1. Init => MasksAreSets
  <2> SUFFICES ASSUME Init, input.of = "mask"
               PROVE  /\ ChangesAreSetOperations(input.features, input.feature)
                      /\ ListsAreMeanings(input.features)
                      /\ RangesPartition(input.features, input.role)
    BY DEF MasksAreSets
  <2>1. input.features \in Masks /\ input.feature \in Feature /\ input.role \in DecisionRole
    BY InputsOfAKind DEF MaskInput
  <2>2. input.features \in Nat
    BY <2>1, MasksAreNumbers
  <2> QED  BY <2>1, <2>2, ChangesOfMasks, ListsOfMasks, RangesOfMasks
<1> QED  BY <1>1, InputIsKept, PTL

-----------------------------------------------------------------------------
(* Decisions *)

LEMMA BoundedSeqs ==
    ASSUME NEW S, NEW s \in BoundedSeq(S, MaxItems)
    PROVE  s \in Seq(S) /\ Len(s) <= MaxItems
BY DecisionBounds DEF BoundedSeq, SeqOf

LEMMA SeqsAreBounded ==
    ASSUME NEW S, NEW s \in Seq(S), Len(s) <= MaxItems
    PROVE  s \in BoundedSeq(S, MaxItems)
BY DecisionBounds DEF BoundedSeq, SeqOf

Simplest == {HasRole(role) : role \in DecisionRole}

Composed(D) == {Decisions(op, items) : op \in {"AND", "OR"}, items \in BoundedSeq(D, MaxItems)}

LEMMA DepthsExist ==
    DecisionsOfDepth = [n \in 0 .. MaxDepth |->
                           IF n = 0 THEN Simplest
                           ELSE DecisionsOfDepth[n - 1] \cup Composed(DecisionsOfDepth[n - 1])]
<1> DEFINE Deeper(D) == D \cup Composed(D)
           Eq(f, m) == f = [n \in 0 .. m |-> IF n = 0 THEN Simplest ELSE Deeper(f[n - 1])]
           T == {m \in 0 .. MaxDepth : \E f : Eq(f, m)}
<1>1. MaxDepth \in Nat
  BY DecisionBounds
<1> HIDE DEF Deeper
<1>2. 0 \in T
  <2>1. Eq([n \in 0 .. 0 |-> Simplest], 0)
    OBVIOUS
  <2>2. \E f : Eq(f, 0)
    BY <2>1
  <2> HIDE DEF Eq
  <2> QED  BY <1>1, <2>2
<1>3. ASSUME NEW m \in 0 .. MaxDepth, m \in T, m < MaxDepth
      PROVE  m + 1 \in T
  <2>1. PICK f : Eq(f, m)
    BY <1>3
  <2> DEFINE g == [n \in 0 .. m + 1 |-> IF n = 0 THEN Simplest ELSE Deeper(f[n - 1])]
  <2>2. \A n \in 0 .. m : g[n] = f[n]
    BY <2>1
  <2>3. \A n \in 0 .. m + 1 : n # 0 => n - 1 \in 0 .. m
    OBVIOUS
  <2>4. \A n \in 0 .. m + 1 : g[n] = IF n = 0 THEN Simplest ELSE Deeper(g[n - 1])
    <3> SUFFICES ASSUME NEW n \in 0 .. m + 1
                 PROVE  g[n] = IF n = 0 THEN Simplest ELSE Deeper(g[n - 1])
      OBVIOUS
    <3>1. g[n] = IF n = 0 THEN Simplest ELSE Deeper(f[n - 1])
      OBVIOUS
    <3> HIDE DEF g
    <3> QED  BY <2>2, <2>3, <3>1
  <2>5. g = [n \in 0 .. m + 1 |-> g[n]]
    OBVIOUS
  <2> HIDE DEF g
  <2>6. Eq(g, m + 1)
    BY <2>4, <2>5
  <2>7. m + 1 \in 0 .. MaxDepth
    BY <1>1, <1>3
  <2> HIDE DEF Eq
  <2> QED  BY <2>6, <2>7
<1>4. \E f : Eq(f, MaxDepth)
  <2>1. 0 .. MaxDepth \subseteq T
    <3> HIDE DEF T
    <3> QED  BY <1>1, <1>2, <1>3, IntervalInduction
  <2> QED  BY <1>1, <2>1
<1>5. DecisionsOfDepth = CHOOSE f : Eq(f, MaxDepth)
  BY DEF DecisionsOfDepth, Deeper, Composed, Simplest
<1>6. Eq(DecisionsOfDepth, MaxDepth)
  <2> HIDE DEF Eq
  <2> QED  BY <1>4, <1>5
<1> QED  BY <1>6 DEF Deeper

\* Decisions of the least depth are roles, others of each depth combine some of less depth.
LEMMA DecisionForms ==
    ASSUME NEW n \in 0 .. MaxDepth
    PROVE  /\ DecisionsOfDepth[0] = Simplest
           /\ n # 0 => /\ n - 1 \in 0 .. MaxDepth
                       /\ DecisionsOfDepth[n] =
                              DecisionsOfDepth[n - 1] \cup Composed(DecisionsOfDepth[n - 1])
<1>1. MaxDepth \in Nat /\ 0 \in 0 .. MaxDepth
  BY DecisionBounds
<1>2. \A m \in 0 .. MaxDepth :
         DecisionsOfDepth[m] = IF m = 0 THEN Simplest
                               ELSE DecisionsOfDepth[m - 1] \cup Composed(DecisionsOfDepth[m - 1])
  BY DepthsExist, Zenon
<1>3. n # 0 => n - 1 \in 0 .. MaxDepth
  BY <1>1
<1> QED  BY <1>1, <1>2, <1>3


LEMMA DecisionsAreDeepEnough ==
    /\ Decision = DecisionsOfDepth[MaxDepth]
    /\ \A n \in 0 .. MaxDepth : Simplest \subseteq DecisionsOfDepth[n]
    /\ \A n \in 0 .. MaxDepth : DecisionsOfDepth[n] \subseteq Decision
    /\ Composed(Simplest) \subseteq Decision
<1>1. MaxDepth \in Nat /\ MaxDepth # 0
  BY DecisionBounds
<1> DEFINE T == {n \in 0 .. MaxDepth : Simplest \subseteq DecisionsOfDepth[n]}
           U == {n \in 0 .. MaxDepth : DecisionsOfDepth[MaxDepth - n] \subseteq Decision}
<1>2. 0 .. MaxDepth \subseteq T
  <2>1. 0 \in T
    BY <1>1, DecisionForms
  <2>2. ASSUME NEW n \in 0 .. MaxDepth, n \in T, n < MaxDepth
        PROVE  n + 1 \in T
    <3>1. n + 1 \in 0 .. MaxDepth /\ n + 1 # 0 /\ (n + 1) - 1 = n
      BY <1>1, <2>2
    <3> QED  BY <2>2, <3>1, DecisionForms
  <2> HIDE DEF T
  <2> QED  BY <1>1, <2>1, <2>2, IntervalInduction
<1>3. 0 .. MaxDepth \subseteq U
  <2>1. 0 \in U
    BY <1>1 DEF Decision
  <2>2. ASSUME NEW n \in 0 .. MaxDepth, n \in U, n < MaxDepth
        PROVE  n + 1 \in U
    <3>1. /\ MaxDepth - n \in 0 .. MaxDepth /\ MaxDepth - n # 0
          /\ (MaxDepth - n) - 1 = MaxDepth - (n + 1)
          /\ n + 1 \in 0 .. MaxDepth
      BY <1>1, <2>2
    <3>2. DecisionsOfDepth[MaxDepth - (n + 1)] \subseteq DecisionsOfDepth[MaxDepth - n]
      BY <3>1, DecisionForms
    <3> QED  BY <2>2, <3>1, <3>2
  <2> HIDE DEF U
  <2> QED  BY <1>1, <2>1, <2>2, IntervalInduction
<1>4. \A n \in 0 .. MaxDepth : DecisionsOfDepth[n] \subseteq Decision
  <2> SUFFICES ASSUME NEW n \in 0 .. MaxDepth
               PROVE  DecisionsOfDepth[n] \subseteq Decision
    OBVIOUS
  <2>1. MaxDepth - n \in U /\ MaxDepth - (MaxDepth - n) = n
    BY <1>1, <1>3
  <2> QED  BY <2>1
<1>5. Composed(Simplest) \subseteq Decision
  <2>1. 1 \in 0 .. MaxDepth /\ 1 - 1 = 0
    BY <1>1
  <2>2. Composed(Simplest) \subseteq DecisionsOfDepth[1]
    BY <2>1, DecisionForms
  <2> QED  BY <1>4, <2>1, <2>2
<1> QED  BY <1>2, <1>4, <1>5 DEF Decision

LEMMA DecisionCases ==
    ASSUME NEW n \in 0 .. MaxDepth, NEW d \in DecisionsOfDepth[n]
    PROVE  \/ d.op = "role" /\ d.role \in DecisionRole
           \/ /\ d.op \in {"AND", "OR"}
              /\ n # 0 /\ n - 1 \in 0 .. MaxDepth
              /\ d.items \in Seq(DecisionsOfDepth[n - 1])
<1> DEFINE Simple(x) == x.op = "role" /\ x.role \in DecisionRole
           Of(x, m) == /\ x.op \in {"AND", "OR"}
                       /\ m # 0 /\ x.items \in Seq(DecisionsOfDepth[m - 1])
           T == {m \in 0 .. MaxDepth : \A x \in DecisionsOfDepth[m] : Simple(x) \/ Of(x, m)}
<1>1. MaxDepth \in Nat
  BY DecisionBounds
<1>2. 0 \in T
  <2>1. \A x \in Simplest : Simple(x)
    BY DEF Simplest, HasRole
  <2> QED  BY <1>1, <2>1, DecisionForms
<1>3. ASSUME NEW m \in 0 .. MaxDepth, m \in T, m < MaxDepth
      PROVE  m + 1 \in T
  <2>1. m + 1 \in 0 .. MaxDepth /\ m + 1 # 0 /\ (m + 1) - 1 = m
    BY <1>1, <1>3
  <2>2. DecisionsOfDepth[m + 1] = DecisionsOfDepth[m] \cup Composed(DecisionsOfDepth[m])
    BY <2>1, DecisionForms
  <2>3. ASSUME NEW x \in DecisionsOfDepth[m], Of(x, m)
        PROVE  Of(x, m + 1)
    <3>1. DecisionsOfDepth[m - 1] \subseteq DecisionsOfDepth[m]
      BY <2>3, DecisionForms
    <3>2. x.items \in Seq(DecisionsOfDepth[m])
      BY <2>3, <3>1
    <3> QED  BY <2>1, <2>3, <3>2
  <2>4. ASSUME NEW x \in Composed(DecisionsOfDepth[m])
        PROVE  Of(x, m + 1)
    <3>1. PICK op \in {"AND", "OR"}, items \in BoundedSeq(DecisionsOfDepth[m], MaxItems) :
              x = [op |-> op, items |-> items]
      BY <2>4 DEF Composed, Decisions
    <3>2. x.op = op /\ x.items = items /\ items \in Seq(DecisionsOfDepth[m])
      BY <3>1, BoundedSeqs
    <3> QED  BY <2>1, <3>2
  <2> HIDE DEF Simple, Of
  <2> QED  BY <1>3, <2>1, <2>2, <2>3, <2>4
<1>4. n \in T
  <2> HIDE DEF T
  <2> QED  BY <1>1, <1>2, <1>3, IntervalInduction
<1>5. n # 0 => n - 1 \in 0 .. MaxDepth
  BY <1>1
<1> QED  BY <1>4, <1>5

\* A user, or nobody, is a list of these.
WhoNames == Role \cup {"nobody"}

\* What a decision says when value[x] is what its item x says.
Verdict(value, d, who) ==
    CASE d.op = "role" -> who # Nobody /\ Contains(who, d.role)
      [] d.op = "AND"  -> \A i \in DOMAIN d.items : value[d.items[i]]
      [] d.op = "OR"   -> \E i \in DOMAIN d.items : value[d.items[i]]

\* The loop over the items of a decision gives what the quantifier of its operation says.
LEMMA ItemsEvaluated ==
    ASSUME NEW S, NEW d, d.op \in {"AND", "OR"}, d.items \in Seq(S),
           NEW value, \A x \in S : value[x] \in BOOLEAN, NEW who
    PROVE  EvaluateItems(d, value) = Verdict(value, d, who)
<1> DEFINE N == Len(d.items)
           v(n) == value[d.items[n]]
           base == d.op = "AND"
           step == [p \in (1 .. N) \X BOOLEAN |-> IF base THEN p[2] /\ v(p[1]) ELSE p[2] \/ v(p[1])]
           Eq(ret) == ret = [n \in 0 .. N |->
                                IF n = 0 THEN Start(d)
                                ELSE CASE d.op = "AND" -> ret[n - 1] /\ value[d.items[n]]
                                       [] d.op = "OR"  -> ret[n - 1] \/ value[d.items[n]]]
           r == CHOOSE ret : Eq(ret)
<1>1. N \in Nat /\ DOMAIN d.items = 1 .. N /\ base \in BOOLEAN /\ Start(d) = base
  BY DEF Start
<1>2. \A n \in 1 .. N : v(n) \in BOOLEAN
  OBVIOUS
<1>3. EvaluateItems(d, value) = r[N]
  BY DEF EvaluateItems
<1>4. step \in [(1 .. N) \X BOOLEAN -> BOOLEAN]
  BY <1>2
<1>5. \A n \in 1 .. N, b \in BOOLEAN :
         step[<<n, b>>] = IF base THEN b /\ v(n) ELSE b \/ v(n)
  OBVIOUS
<1>6. PICK f \in [0 .. N -> BOOLEAN] :
         f[0] = base /\ \A n \in 1 .. N : f[n] = step[<<n, f[n - 1]>>]
  <2>1. LoopFns(N, BOOLEAN, base, step) # {}
    <3> HIDE DEF N, step, base
    <3> QED  BY <1>1, <1>4, LoopExists
  <2> QED  BY <2>1 DEF LoopFns
<1>7. \A n \in 1 .. N : n - 1 \in 0 .. N /\ n \in 0 .. N
  BY <1>1
<1> HIDE DEF step
<1>8. Eq(f)
  <2>1. \A n \in 0 .. N : n # 0 => n \in 1 .. N
    OBVIOUS
  <2>2. \A n \in 1 .. N : f[n] = IF base THEN f[n - 1] /\ v(n) ELSE f[n - 1] \/ v(n)
    <3>1. \A n \in 1 .. N : f[n] = step[<<n, f[n - 1]>>] /\ f[n - 1] \in BOOLEAN
      BY <1>6, <1>7
    <3> HIDE DEF N, v, base, Eq, r
    <3> QED  BY <1>5, <3>1
  <2> QED  BY <1>1, <1>6, <2>1, <2>2
<1>9. Eq(r)
  <2> HIDE DEF Eq
  <2> QED  BY <1>8
<1> HIDE DEF r
<1>10. /\ r[0] = base
       /\ \A n \in 1 .. N : r[n] = IF base THEN r[n - 1] /\ v(n) ELSE r[n - 1] \/ v(n)
  <2>1. \A n \in 0 .. N : r[n] = IF n = 0 THEN Start(d)
                                ELSE CASE d.op = "AND" -> r[n - 1] /\ value[d.items[n]]
                                       [] d.op = "OR"  -> r[n - 1] \/ value[d.items[n]]
    BY <1>9, Zenon
  <2> QED  BY <1>1, <1>7, <2>1
<1> DEFINE T == {n \in 0 .. N : r[n] = IF base THEN \A i \in 1 .. n : v(i) ELSE \E i \in 1 .. n : v(i)}
<1>11. 0 \in T
  <2>1. 0 \in 0 .. N /\ 1 .. 0 = {}
    BY <1>1
  <2> HIDE DEF N, v, Eq
  <2> QED  BY <1>10, <2>1
<1>12. ASSUME NEW n \in 0 .. N, n \in T, n < N
       PROVE  n + 1 \in T
  <2>1. n + 1 \in 1 .. N /\ (n + 1) - 1 = n /\ n + 1 \in 0 .. N
    BY <1>1, <1>12
  <2>2. r[n + 1] = IF base THEN r[n] /\ v(n + 1) ELSE r[n] \/ v(n + 1)
    BY <1>10, <2>1
  <2>3. \A i : i \in 1 .. n + 1 <=> i \in 1 .. n \/ i = n + 1
    BY <1>1, <2>1
  <2> HIDE DEF v, base, N
  <2>4. CASE base
    BY <1>12, <2>1, <2>2, <2>3, <2>4
  <2>5. CASE ~base
    BY <1>12, <2>1, <2>2, <2>3, <2>5
  <2> QED  BY <2>4, <2>5
<1>13. N \in T
  <2> HIDE DEF T, N
  <2>1. 0 .. N \subseteq T
    BY <1>1, <1>11, <1>12, IntervalInduction
  <2> QED  BY <1>1, <2>1
<1>14. CASE base
  BY <1>1, <1>3, <1>13, <1>14 DEF Verdict
<1>15. CASE ~base
  BY <1>1, <1>3, <1>13, <1>15 DEF Verdict
<1> QED  BY <1>14, <1>15


(***************************************************************************)
(* The verdicts on a set of decisions: a function that gives each decision *)
(* what its operation says of the verdicts on its items.                   *)
(***************************************************************************)

Verdicts(D, who) == {f \in [D -> BOOLEAN] : \A x \in D : f[x] = Verdict(f, x, who)}

\* A verdict depends on those of the items only.
LEMMA VerdictOfItems ==
    ASSUME NEW n \in 0 .. MaxDepth, NEW x \in DecisionsOfDepth[n], NEW who, NEW f, NEW g,
           n # 0 => \A y \in DecisionsOfDepth[n - 1] : f[y] = g[y]
    PROVE  /\ Verdict(f, x, who) = Verdict(g, x, who)
           /\ Verdict(f, x, who) \in BOOLEAN
<1>1. CASE x.op = "role"
  BY <1>1 DEF Verdict
<1>2. CASE x.op \in {"AND", "OR"} /\ n # 0 /\ x.items \in Seq(DecisionsOfDepth[n - 1])
  <2>1. \A i \in DOMAIN x.items : f[x.items[i]] = g[x.items[i]]
    BY <1>2
  <2>2. CASE x.op = "AND"
    BY <2>1, <2>2 DEF Verdict
  <2>3. CASE x.op = "OR"
    BY <2>1, <2>3 DEF Verdict
  <2> QED  BY <1>2, <2>2, <2>3
<1> QED  BY <1>1, <1>2, DecisionCases

LEMMA VerdictsExist ==
    ASSUME NEW who
    PROVE  Verdicts(Decision, who) # {}
<1> DEFINE D(n) == DecisionsOfDepth[n]
           T == {n \in 0 .. MaxDepth : Verdicts(D(n), who) # {}}
<1>1. MaxDepth \in Nat
  BY DecisionBounds
<1>2. 0 \in T
  <2> DEFINE f == [x \in D(0) |-> Verdict(<<>>, x, who)]
  <2>1. 0 \in 0 .. MaxDepth
    BY <1>1
  <2>2. \A x \in D(0) : Verdict(<<>>, x, who) = Verdict(f, x, who) /\ Verdict(<<>>, x, who) \in BOOLEAN
    BY <2>1, VerdictOfItems
  <2>3. f \in Verdicts(D(0), who)
    BY <2>2 DEF Verdicts
  <2> QED  BY <2>1, <2>3
<1>3. ASSUME NEW n \in 0 .. MaxDepth, n \in T, n < MaxDepth
      PROVE  n + 1 \in T
  <2>1. n + 1 \in 0 .. MaxDepth /\ n + 1 # 0 /\ (n + 1) - 1 = n
    BY <1>1, <1>3
  <2>2. PICK f \in [D(n) -> BOOLEAN] : \A x \in D(n) : f[x] = Verdict(f, x, who)
    BY <1>3 DEF Verdicts
  <2> DEFINE g == [x \in D(n + 1) |-> Verdict(f, x, who)]
  <2>3. D(n) \subseteq D(n + 1)
    BY <2>1, DecisionForms
  <2>4. \A x \in D(n) : f[x] = g[x]
    BY <2>2, <2>3
  <2>5. \A x \in D(n + 1) : Verdict(f, x, who) = Verdict(g, x, who) /\ Verdict(f, x, who) \in BOOLEAN
    <3> HIDE DEF g
    <3> QED  BY <2>1, <2>4, VerdictOfItems
  <2>6. g \in Verdicts(D(n + 1), who)
    BY <2>5 DEF Verdicts
  <2> QED  BY <2>1, <2>6
<1>4. MaxDepth \in T
  <2> HIDE DEF T
  <2>1. 0 .. MaxDepth \subseteq T
    BY <1>1, <1>2, <1>3, IntervalInduction
  <2> QED  BY <1>1, <2>1
<1> QED  BY <1>4 DEF Decision

\* Functions that agree with each other on the items of a decision agree on it, and
\* therefore on every decision.
LEMMA VerdictsAgree ==
    ASSUME NEW who, NEW f, NEW g,
           \A x \in Decision : f[x] = Verdict(f, x, who) /\ g[x] = Verdict(g, x, who)
    PROVE  \A x \in Decision : f[x] = g[x] /\ f[x] \in BOOLEAN
<1> DEFINE D(n) == DecisionsOfDepth[n]
           T == {n \in 0 .. MaxDepth : \A x \in D(n) : f[x] = g[x] /\ f[x] \in BOOLEAN}
<1>1. MaxDepth \in Nat
  BY DecisionBounds
<1>2. \A n \in 0 .. MaxDepth : \A x \in D(n) : f[x] = Verdict(f, x, who) /\ g[x] = Verdict(g, x, who)
  BY DecisionsAreDeepEnough
<1>3. 0 \in T
  <2>1. 0 \in 0 .. MaxDepth
    BY <1>1
  <2>2. \A x \in D(0) : Verdict(f, x, who) = Verdict(g, x, who) /\ Verdict(f, x, who) \in BOOLEAN
    BY <2>1, VerdictOfItems
  <2> QED  BY <1>2, <2>1, <2>2
<1>4. ASSUME NEW n \in 0 .. MaxDepth, n \in T, n < MaxDepth
      PROVE  n + 1 \in T
  <2>1. n + 1 \in 0 .. MaxDepth /\ n + 1 # 0 /\ (n + 1) - 1 = n
    BY <1>1, <1>4
  <2>2. \A x \in D(n + 1) : Verdict(f, x, who) = Verdict(g, x, who) /\ Verdict(f, x, who) \in BOOLEAN
    BY <1>4, <2>1, VerdictOfItems
  <2> QED  BY <1>2, <2>1, <2>2
<1>5. MaxDepth \in T
  <2> HIDE DEF T
  <2>1. 0 .. MaxDepth \subseteq T
    BY <1>1, <1>3, <1>4, IntervalInduction
  <2> QED  BY <1>1, <2>1
<1> QED  BY <1>5 DEF Decision

LEMMA HoldsIsTheVerdict ==
    ASSUME NEW who \in Seq(WhoNames), NEW f \in Verdicts(Decision, who)
    PROVE  \A x \in Decision : Holds(x, who) = f[x]
<1> DEFINE Body(g, x) == IF x.op = "role" THEN who # Nobody /\ x.role \in ToSet(who)
                         ELSE ItemsHold(x, g)
           Eq(g) == g = [x \in Decision |-> Body(g, x)]
           h == CHOOSE g : Eq(g)
<1>1. ASSUME NEW x \in Decision, NEW g
      PROVE  Verdict(g, x, who) = Body(g, x)
  <2>1. x.op \in {"role", "AND", "OR"}
    <3>1. MaxDepth \in 0 .. MaxDepth /\ x \in DecisionsOfDepth[MaxDepth]
      BY DecisionBounds DEF Decision
    <3> QED  BY <3>1, DecisionCases
  <2>2. CASE x.op = "role"
    BY <2>2 DEF Verdict, Contains, ToSet
  <2>3. CASE x.op = "AND"
    BY <2>3 DEF Verdict, ToSet, ItemsHold
  <2>4. CASE x.op = "OR"
    BY <2>4 DEF Verdict, ToSet, ItemsHold
  <2> QED  BY <2>1, <2>2, <2>3, <2>4
<1>4. \A x \in Decision : Holds(x, who) = h[x]
  BY DEF Holds
<1> HIDE DEF Body
<1>2. \E g : Eq(g)
  BY <1>1 DEF Verdicts
<1>3. Eq(h)
  <2> HIDE DEF Eq
  <2> QED  BY <1>2
<1> HIDE DEF h
<1>5. \A x \in Decision : h[x] = Verdict(h, x, who)
  BY <1>1, <1>3, Zenon
<1>6. \A x \in Decision : f[x] = Verdict(f, x, who)
  BY DEF Verdicts
<1> QED  BY <1>4, <1>5, <1>6, VerdictsAgree

LEMMA EvaluateIsTheVerdict ==
    ASSUME NEW who, NEW f \in Verdicts(Decision, who)
    PROVE  \A x \in Decision : Evaluate(x, who) = f[x]
<1> DEFINE D(n) == DecisionsOfDepth[n]
           Body(e, x) == IF x.op = "role" THEN RoleDecision(x, who) ELSE EvaluateItems(x, e)
           Eq(e) == e = [x \in Decision |-> Body(e, x)]
           e == CHOOSE g : Eq(g)
<1>1. MaxDepth \in Nat
  BY DecisionBounds
<1>2. ASSUME NEW n \in 0 .. MaxDepth, NEW g, n # 0 => \A y \in D(n - 1) : g[y] \in BOOLEAN,
             NEW x \in D(n)
      PROVE  Body(g, x) = Verdict(g, x, who)
  <2>1. CASE x.op = "role"
    BY <2>1 DEF Verdict, RoleDecision
  <2>2. CASE x.op \in {"AND", "OR"} /\ n # 0 /\ x.items \in Seq(D(n - 1))
    <3> DEFINE S == D(n - 1)
    <3>a. x.items \in Seq(S) /\ \A y \in S : g[y] \in BOOLEAN
      BY <1>2, <2>2
    <3> HIDE DEF S
    <3>1. EvaluateItems(x, g) = Verdict(g, x, who)
      BY <2>2, <3>a, ItemsEvaluated
    <3> QED  BY <2>2, <3>1
  <2> QED  BY <2>1, <2>2, DecisionCases
<1>3. \A x \in Decision : f[x] = Verdict(f, x, who) /\ f[x] \in BOOLEAN
  BY DEF Verdicts
<1>4. Eq(f)
  <2>1. \A n \in 0 .. MaxDepth : \A y \in D(n) : f[y] \in BOOLEAN
    BY <1>3, DecisionsAreDeepEnough
  <2>2. MaxDepth \in 0 .. MaxDepth /\ (MaxDepth # 0 => MaxDepth - 1 \in 0 .. MaxDepth)
    BY <1>1
  <2>3. \A x \in D(MaxDepth) : Body(f, x) = Verdict(f, x, who)
    <3> HIDE DEF Body
    <3> QED  BY <1>2, <2>1, <2>2
  <2>4. f = [x \in Decision |-> f[x]]
    BY DEF Verdicts
  <2> HIDE DEF Body
  <2> QED  BY <1>3, <2>3, <2>4 DEF Decision
<1>5. Eq(e)
  <2> HIDE DEF Eq
  <2> QED  BY <1>4
<1>6. \A x \in Decision : Evaluate(x, who) = e[x]
  BY DEF Evaluate
<1> HIDE DEF e, Body
<1>7. \A x \in Decision : e[x] = Body(e, x)
  BY <1>5, Zenon
<1> DEFINE T == {n \in 0 .. MaxDepth : \A x \in D(n) : e[x] = Verdict(e, x, who) /\ e[x] \in BOOLEAN}
<1>8. \A n \in 0 .. MaxDepth : \A x \in D(n) : e[x] = Body(e, x)
  BY <1>7, DecisionsAreDeepEnough
<1>9. 0 \in T
  <2>1. 0 \in 0 .. MaxDepth
    BY <1>1
  <2>2. \A x \in D(0) : Body(e, x) = Verdict(e, x, who) /\ Verdict(e, x, who) \in BOOLEAN
    BY <1>2, <2>1, VerdictOfItems
  <2> QED  BY <1>8, <2>1, <2>2
<1>10. ASSUME NEW n \in 0 .. MaxDepth, n \in T, n < MaxDepth
       PROVE  n + 1 \in T
  <2>1. n + 1 \in 0 .. MaxDepth /\ n + 1 # 0 /\ (n + 1) - 1 = n
    BY <1>1, <1>10
  <2>2. \A x \in D(n + 1) : Body(e, x) = Verdict(e, x, who) /\ Verdict(e, x, who) \in BOOLEAN
    BY <1>2, <1>10, <2>1, VerdictOfItems
  <2> QED  BY <1>8, <2>1, <2>2
<1>11. MaxDepth \in T
  <2> HIDE DEF T
  <2>1. 0 .. MaxDepth \subseteq T
    BY <1>1, <1>9, <1>10, IntervalInduction
  <2> QED  BY <1>1, <2>1
<1>12. \A x \in Decision : e[x] = Verdict(e, x, who)
  BY <1>11 DEF Decision
<1> QED  BY <1>3, <1>6, <1>12, VerdictsAgree

\* What an evaluated decision means.
LEMMA EvaluateMeans ==
    ASSUME NEW who \in Seq(WhoNames), NEW d \in Decision
    PROVE  /\ Evaluate(d, who) = Holds(d, who)
           /\ Evaluate(d, who) \in BOOLEAN
           /\ d.op = "role" => (Evaluate(d, who) <=> who # Nobody /\ Contains(who, d.role))
           /\ d.op = "AND" => (Evaluate(d, who) <=> \A i \in DOMAIN d.items : Evaluate(d.items[i], who))
           /\ d.op = "OR" => (Evaluate(d, who) <=> \E i \in DOMAIN d.items : Evaluate(d.items[i], who))
<1>1. PICK f : f \in Verdicts(Decision, who)
  BY VerdictsExist
<1>2. \A x \in Decision : /\ Evaluate(x, who) = f[x] /\ Holds(x, who) = f[x]
                          /\ f[x] \in BOOLEAN /\ f[x] = Verdict(f, x, who)
  BY <1>1, EvaluateIsTheVerdict, HoldsIsTheVerdict DEF Verdicts
<1>3. d.op \in {"AND", "OR"} => \A i \in DOMAIN d.items : d.items[i] \in Decision
  <2>1. MaxDepth \in 0 .. MaxDepth /\ d \in DecisionsOfDepth[MaxDepth]
    BY DecisionBounds DEF Decision
  <2>2. ASSUME d.op \in {"AND", "OR"}
        PROVE  /\ MaxDepth - 1 \in 0 .. MaxDepth
               /\ d.items \in Seq(DecisionsOfDepth[MaxDepth - 1])
    BY <2>1, <2>2, DecisionCases
  <2> QED  BY <2>2, DecisionsAreDeepEnough
<1>4. CASE d.op = "role"
  BY <1>2, <1>4 DEF Verdict
<1>5. CASE d.op = "AND"
  BY <1>2, <1>3, <1>5 DEF Verdict
<1>6. CASE d.op = "OR"
  BY <1>2, <1>3, <1>6 DEF Verdict
<1> QED  BY <1>2, <1>4, <1>5, <1>6

-----------------------------------------------------------------------------
(* Lists of roles *)

LEMMA BitsOfRoles ==
    ASSUME NEW list
    PROVE  /\ HasBit(BitsFromRoles(list), 1) <=> Contains(list, "admin")
           /\ HasBit(BitsFromRoles(list), 2) <=> Contains(list, "user")
<1>1. CASE Contains(list, "admin") /\ Contains(list, "user")
  BY <1>1 DEF BitsFromRoles, HasBit
<1>2. CASE Contains(list, "admin") /\ ~Contains(list, "user")
  BY <1>2 DEF BitsFromRoles, HasBit
<1>3. CASE ~Contains(list, "admin") /\ Contains(list, "user")
  BY <1>3 DEF BitsFromRoles, HasBit
<1>4. CASE ~Contains(list, "admin") /\ ~Contains(list, "user")
  BY <1>4 DEF BitsFromRoles, HasBit
<1> QED  BY <1>1, <1>2, <1>3, <1>4

LEMMA RolesOfUsers ==
    ASSUME NEW who \in Who
    PROVE  /\ who \in Seq(WhoNames)
           /\ who # Nobody => who \in Seq(Role)
<1>1. Nobody \in Seq(WhoNames)
  BY DEF Nobody, WhoNames
<1>2. ASSUME NEW list \in Lists(Role)
      PROVE  list \in Seq(Role) /\ list \in Seq(WhoNames)
  <2>1. list \in Seq(Role)
    BY BoundedSeqs DEF Lists
  <2>2. Role \subseteq WhoNames
    BY DEF WhoNames
  <2> QED  BY <2>1, <2>2
<1> QED  BY <1>1, <1>2 DEF Who

LEMMA ListsOfRoles ==
    ASSUME NEW valid \in Lists(DecisionRole)
    PROVE  /\ valid \in Seq(DecisionRole)
           /\ AnyOf(valid) \in Decision /\ AnyOf(valid).op = "OR"
           /\ AllOf(valid) \in Decision /\ AllOf(valid).op = "AND"
           /\ DOMAIN AnyOf(valid).items = DOMAIN valid
           /\ DOMAIN AllOf(valid).items = DOMAIN valid
           /\ \A i \in DOMAIN valid : /\ AnyOf(valid).items[i] = HasRole(valid[i])
                                      /\ AllOf(valid).items[i] = HasRole(valid[i])
<1> DEFINE items == [i \in DOMAIN valid |-> HasRole(valid[i])]
<1>1. valid \in Seq(DecisionRole) /\ Len(valid) <= MaxItems
  BY BoundedSeqs DEF Lists
<1>2. items \in Seq(Simplest) /\ Len(items) = Len(valid)
  BY <1>1 DEF Simplest
<1>3. items \in BoundedSeq(Simplest, MaxItems)
  <2> HIDE DEF items
  <2> QED  BY <1>1, <1>2, SeqsAreBounded
<1>4. Decisions("OR", items) \in Decision /\ Decisions("AND", items) \in Decision
  <2> HIDE DEF items
  <2> QED  BY <1>3, DecisionsAreDeepEnough DEF Composed
<1> QED  BY <1>1, <1>4 DEF AnyOf, AllOf, Decisions

LEMMA EvaluateRoles ==
    ASSUME NEW who \in Seq(WhoNames), NEW role \in DecisionRole
    PROVE  /\ Evaluate(HasRole(role), who) <=> who # Nobody /\ Contains(who, role)
           /\ Evaluate(HasRole(role), who) \in BOOLEAN
<1>1. HasRole(role) \in Decision
  <2>1. HasRole(role) \in Simplest /\ MaxDepth \in 0 .. MaxDepth
    BY DecisionBounds DEF Simplest
  <2> QED  BY <2>1, DecisionsAreDeepEnough
<1>2. HasRole(role).op = "role" /\ HasRole(role).role = role
  BY DEF HasRole
<1> QED  BY <1>1, <1>2, EvaluateMeans

LEMMA GuardsAgree ==
    ASSUME NEW valid \in Lists(DecisionRole), NEW who \in Who
    PROVE  /\ GuardEnabled(valid, who) = WsGuardEnabled(valid, who)
           /\ GuardEnabled(valid, who) = Evaluate(AnyOf(valid), who)
           /\ who # Nobody =>
                 /\ GuardEnabled(valid, who) = RolesContainAnyOf(valid, who)
                 /\ RolesContainAllOf(who, valid) <=>
                       Evaluate(AllOf(valid), who) /\ (valid = <<>> => who = <<>>)
                 /\ InRoleBits(1, BitsFromRoles(who)) = Evaluate(HasRole("admin"), who)
                 /\ InRoleBits(2, BitsFromRoles(who)) = Evaluate(HasRole("user"), who)
<1>1. valid \in Seq(DecisionRole) /\ who \in Seq(WhoNames) /\ (who # Nobody => who \in Seq(Role))
  BY ListsOfRoles, RolesOfUsers
<1>2. \A i \in DOMAIN valid : Evaluate(HasRole(valid[i]), who) <=> who # Nobody /\ Contains(who, valid[i])
  BY <1>1, EvaluateRoles
<1>3. /\ Evaluate(AnyOf(valid), who) \in BOOLEAN /\ Evaluate(AllOf(valid), who) \in BOOLEAN
      /\ Evaluate(AnyOf(valid), who)
            <=> \E i \in DOMAIN valid : who # Nobody /\ Contains(who, valid[i])
      /\ Evaluate(AllOf(valid), who)
            <=> \A i \in DOMAIN valid : who # Nobody /\ Contains(who, valid[i])
  BY <1>1, <1>2, ListsOfRoles, EvaluateMeans
<1>4. GuardEnabled(valid, who) <=> Evaluate(AnyOf(valid), who)
  BY <1>3 DEF GuardEnabled
<1>a. GuardEnabled(valid, who) \in BOOLEAN /\ WsGuardEnabled(valid, who) \in BOOLEAN
  BY DEF GuardEnabled, WsGuardEnabled
<1>5. CASE who = Nobody
  <2>1. ~HasBit(0, 1) /\ ~HasBit(0, 2)
    BY DEF HasBit
  <2>2. ~WsGuardEnabled(valid, who)
    BY <1>5, <2>1 DEF WsGuardEnabled
  <2> QED  BY <1>3, <1>4, <1>5, <2>2 DEF GuardEnabled, WsGuardEnabled
<1>6. CASE who # Nobody
  <2>1. who \in Seq(Role)
    BY <1>1, <1>6
  <2>a. /\ \A role : Contains(valid, role) <=> \E i \in DOMAIN valid : valid[i] = role
        /\ \A role : Contains(who, role) <=> \E n \in DOMAIN who : who[n] = role
    BY <1>1 DEF Contains
  <2>2. GuardEnabled(valid, who) <=> \E role : Contains(valid, role) /\ Contains(who, role)
    BY <1>6, <2>a, Zenon DEF GuardEnabled
  <2>3. \A role : Contains(who, role) => role \in {"admin", "user"}
    BY <2>1 DEF Contains, Role
  <2>4. WsGuardEnabled(valid, who) <=> \/ Contains(valid, "admin") /\ Contains(who, "admin")
                                       \/ Contains(valid, "user") /\ Contains(who, "user")
    BY <1>6, BitsOfRoles DEF WsGuardEnabled
  <2>5. RolesContainAnyOf(valid, who) <=> \E role : Contains(valid, role) /\ Contains(who, role)
    <3>1. (\E role : Contains(valid, role) /\ Contains(who, role)) => Len(who) # 0
      BY <2>1 DEF Contains
    <3>2. (\E role : Contains(valid, role) /\ Contains(who, role))
             <=> \E n \in DOMAIN who : Contains(valid, who[n])
      BY <2>a, Zenon
    <3> QED  BY <3>1, <3>2 DEF RolesContainAnyOf
  <2>6. RolesContainAllOf(who, valid) <=>
            Evaluate(AllOf(valid), who) /\ (valid = <<>> => who = <<>>)
    BY <1>1, <1>3, <1>6 DEF RolesContainAllOf
  <2>7. /\ InRoleBits(1, BitsFromRoles(who)) <=> Evaluate(HasRole("admin"), who)
        /\ InRoleBits(2, BitsFromRoles(who)) <=> Evaluate(HasRole("user"), who)
    BY <1>1, <1>6, BitsOfRoles, EvaluateRoles DEF InRoleBits, DecisionRole, Role
  <2>8. RolesContainAnyOf(valid, who) \in BOOLEAN
    BY DEF RolesContainAnyOf
  <2>9. /\ InRoleBits(1, BitsFromRoles(who)) \in BOOLEAN /\ InRoleBits(2, BitsFromRoles(who)) \in BOOLEAN
        /\ Evaluate(HasRole("admin"), who) \in BOOLEAN /\ Evaluate(HasRole("user"), who) \in BOOLEAN
    BY <1>1, EvaluateRoles DEF InRoleBits, HasBit, DecisionRole, Role
  <2>10. /\ GuardEnabled(valid, who) <=> WsGuardEnabled(valid, who)
         /\ GuardEnabled(valid, who) <=> RolesContainAnyOf(valid, who)
    BY <2>2, <2>3, <2>4, <2>5
  <2> QED  BY <1>3, <1>4, <1>a, <2>6, <2>7, <2>8, <2>9, <2>10
<1> QED  BY <1>5, <1>6

\* RolesGuard, WsConnectionGuard, RoleUtils and the client's decisions answer alike, for
\* all lists of roles and users; and a decision of any depth evaluates to what its
\* quantifiers say.
THEOREM RoleChecksAnswerAlike == Spec => []RoleChecksAgree
<1>1. Init => RoleChecksAgree
  <2> SUFFICES ASSUME Init
               PROVE  RoleChecksAgree
    OBVIOUS
  <2>1. CASE input.of = "roles"
    <3>1. input.valid \in Lists(DecisionRole) /\ input.who \in Who
      BY <2>1, InputsOfAKind DEF RolesInput
    <3> QED  BY <2>1, <3>1, GuardsAgree DEF RoleChecksAgree
  <2>2. CASE input.of = "decision"
    <3>1. input.decision \in Decision /\ input.who \in Who
      BY <2>2, InputsOfAKind DEF DecisionInput
    <3> QED  BY <2>2, <3>1, EvaluateMeans, RolesOfUsers DEF RoleChecksAgree
  <2> QED  BY <2>1, <2>2 DEF RoleChecksAgree
<1> QED  BY <1>1, InputIsKept, PTL

-----------------------------------------------------------------------------
(* Values and texts *)

\* The kind of a value and what it holds.
LEMMA Kinds ==
    /\ \A t : Kind(Str(t)) = "String" /\ Content(Str(t)) = t
    /\ \A w : Kind(Num(w)) = "Number" /\ Content(Num(w)) = Text(w)
    /\ \A b : Kind(Bool(b)) = "Boolean"
    /\ \A ts : Kind(Arr(ts)) = "Array" /\ Content(Arr(ts)) = ts
    /\ Kind(Undefined) = "undefined" /\ Kind(Null) = "null" /\ Kind(Throws) = "throws"
BY DEF Kind, Content, Str, Num, Bool, Arr, Undefined, Null, Throws

LEMMA TextsOfWords ==
    ASSUME NEW w, NEW x
    PROVE  /\ Text(w) = Text(x) => w = x
           /\ Trim(Text(w)) = Text(w)
           /\ Text(w)[1].word = w
           /\ Num(w) = Num(x) => w = x
<1>1. Word(w).word = w /\ Word(x).word = x
  BY DEF Word
<1>2. Text(w)[1] = Word(w) /\ Text(x)[1] = Word(x) /\ DOMAIN Text(w) = {1} /\ Len(Text(w)) = 1
  BY DEF Text
<1>3. Trim(Text(w)) = [i \in {1} |-> Word(w)]
  BY <1>1, <1>2 DEF Trim
<1>4. [i \in {1} |-> Word(w)] = Text(w)
  BY DEF Text
<1>5. Num(w) = Num(x) => Text(w) = Text(x)
  BY Kinds
<1> QED  BY <1>1, <1>2, <1>3, <1>4, <1>5

\* Number() reads its own texts as they are, and gives a number in any case.
LEMMA NumbersRead ==
    /\ \A t : \E w : NumberOf(t) = Num(w) /\ w \in Numerals \cup {"NaN"}
    /\ \A w \in Numerals : NumberOf(Text(w)) = Num(w)
<1>1. ASSUME NEW t, Trim(t) = Text("")
      PROVE  NumberOf(t) = Num("0")
  BY <1>1, TextsOfWords, NumeralsAssumption DEF NumberOf
<1>2. ASSUME NEW t, NEW w \in Numerals, Trim(t) = Text(w)
      PROVE  NumberOf(t) = Num(w)
  <2>1. Trim(t) # Text("") /\ Trim(t)[1].word = w
    BY <1>2, TextsOfWords, NumeralsAssumption
  <2> QED  BY <1>2, <2>1 DEF NumberOf
<1>3. ASSUME NEW t, Trim(t) # Text(""), \A w \in Numerals : Trim(t) # Text(w)
      PROVE  NumberOf(t) = Num("NaN")
  BY <1>3 DEF NumberOf
<1> QED  BY <1>1, <1>2, <1>3, TextsOfWords, NumeralsAssumption

LEMMA TypeNames ==
    /\ TypeName["S"] = "String" /\ TypeName["N"] = "Number" /\ TypeName["B"] = "Boolean"
BY DEF TypeName

LEMMA TextsAsValues ==
    ASSUME NEW type \in Scalar, NEW t
    PROVE  /\ Kind(ValueFromString(type, t)) = TypeName[type]
           /\ ValueFromString(type, t) \notin {Undefined, Null, Throws}
<1>1. CASE type = "S"
  <2>1. ValueFromString(type, t) = Str(t)
    BY <1>1 DEF ValueFromString
  <2> QED  BY <1>1, <2>1, Kinds, TypeNames
<1>2. CASE type = "N"
  <2>1. ValueFromString(type, t) = NumberOf(t)
    BY <1>2 DEF ValueFromString
  <2> QED  BY <1>2, <2>1, Kinds, TypeNames, NumbersRead
<1>3. CASE type = "B"
  <2>1. ValueFromString(type, t) = Bool(t = Text("true"))
    BY <1>3 DEF ValueFromString
  <2> QED  BY <1>3, <2>1, Kinds, TypeNames
<1> QED  BY <1>1, <1>2, <1>3 DEF Scalar

\* .env has a value of the type wherever it has a text, and the one the table would have.
LEMMA EnvAsValues ==
    ASSUME NEW type \in Scalar, NEW t
    PROVE  /\ FromEnv(type, Undefined) = Undefined
           /\ Kind(FromEnv(type, Str(t))) = TypeName[type]
           /\ FromEnv(type, Str(t)) # Undefined
           /\ t = Trim(t) /\ t # Text("") => FromEnv(type, Str(t)) = ValueFromString(type, t)
<1>1. Str(t) # Undefined /\ Content(Str(t)) = t /\ (Str(t) = Str(Text("")) <=> t = Text(""))
  BY Kinds
<1>2. CASE type = "S"
  <2>1. FromEnv(type, Undefined) = Undefined
    BY <1>2 DEF FromEnv, GetValue
  <2>2. Str(t) # Throws
    BY Kinds
  <2>3. FromEnv(type, Str(t)) = Str(t)
    BY <1>1, <1>2, <2>2 DEF FromEnv, GetValue
  <2>4. ValueFromString(type, t) = Str(t)
    BY <1>2 DEF ValueFromString
  <2> QED  BY <1>1, <1>2, <2>1, <2>3, <2>4, Kinds, TypeNames
<1>3. CASE type = "N"
  <2> DEFINE v == IF t = Text("") THEN Num("0") ELSE NumberOf(t)
  <2>1. FromEnv(type, Undefined) = Undefined
    BY <1>3, Kinds DEF FromEnv, GetNumberValue
  <2>2. GetNumberValue(Str(t)) = v
    BY <1>1 DEF GetNumberValue
  <2>3. Kind(v) = "Number"
    BY Kinds, NumbersRead
  <2> HIDE DEF v
  <2>4. FromEnv(type, Str(t)) = v
    BY <1>3, <2>2, <2>3, Kinds DEF FromEnv
  <2>5. ValueFromString(type, t) = NumberOf(t)
    BY <1>3 DEF ValueFromString
  <2> QED  BY <1>3, <2>1, <2>3, <2>4, <2>5, Kinds, TypeNames DEF v
<1>4. CASE type = "B"
  <2> DEFINE v == IF t = Text("") THEN Bool(FALSE) ELSE Bool(Trim(t) = Text("true"))
  <2>1. FromEnv(type, Undefined) = Undefined
    BY <1>4, Kinds DEF FromEnv, GetBooleanValue
  <2>2. GetBooleanValue(Str(t)) = v
    BY <1>1 DEF GetBooleanValue
  <2>3. Kind(v) = "Boolean"
    BY Kinds
  <2> HIDE DEF v
  <2>4. FromEnv(type, Str(t)) = v
    BY <1>4, <2>2, <2>3, Kinds DEF FromEnv
  <2>5. ValueFromString(type, t) = Bool(t = Text("true"))
    BY <1>4 DEF ValueFromString
  <2> QED  BY <1>4, <2>1, <2>3, <2>4, <2>5, Kinds, TypeNames DEF v
<1> QED  BY <1>2, <1>3, <1>4 DEF Scalar

LEMMA LoadsValues ==
    ASSUME NEW i \in LoadInput
    PROVE  LoadsAValue(i)
<1> DEFINE type == i.type
           stored == i.override = "yes" /\ i.row \notin {Undefined, Str(Text(""))}
           value == LoadedValue(type, i.env, i.override, i.row, i.default)
<1>1. type \in Scalar /\ \A v \in {i.env, i.row, i.default} : v # Undefined => \E t : v = Str(t)
  BY DEF LoadInput, Maybe, Strings
<1> HIDE DEF type
<1>2. IF value = Throws THEN i.env = Undefined /\ ~stored /\ i.default = Undefined
      ELSE Kind(value) = TypeName[type]
  <2>1. (~stored /\ i.env = Undefined) \/ Kind(Overridden(type, i.env, i.override, i.row)) = TypeName[type]
    BY <1>1, TextsAsValues, EnvAsValues DEF Overridden
  <2>2. TypeName[type] \notin {"undefined", "throws"}
    BY <1>1, TypeNames DEF Scalar
  <2>3. ~stored /\ i.env = Undefined => Overridden(type, i.env, i.override, i.row) = Undefined
    BY <1>1, EnvAsValues DEF Overridden
  <2> QED  BY <1>1, <2>1, <2>2, <2>3, Kinds, TextsAsValues DEF LoadedValue
<1>3. ASSUME NEW t \in Texts, t = Trim(t), t # Text("")
      PROVE  LET inTable == LoadedValue(type, i.env, "yes", Str(t), i.default)
             IN /\ inTable = LoadedValue(type, Str(t), "no", i.row, i.default)
                /\ inTable = LoadedValue(type, Undefined, "no", i.row, Str(t))
  <2>1. Str(t) \notin {Undefined, Str(Text(""))} /\ Content(Str(t)) = t
    BY <1>3, Kinds
  <2>2. ValueFromString(type, t) # Undefined
    BY <1>1, TextsAsValues
  <2>3. Overridden(type, i.env, "yes", Str(t)) = ValueFromString(type, t)
    BY <2>1 DEF Overridden
  <2>4. Overridden(type, Str(t), "no", i.row) = ValueFromString(type, t)
    BY <1>1, <1>3, EnvAsValues DEF Overridden
  <2>5. Overridden(type, Undefined, "no", i.row) = Undefined
    BY <1>1, EnvAsValues DEF Overridden
  <2> QED  BY <2>1, <2>2, <2>3, <2>4, <2>5 DEF LoadedValue
<1> QED  BY <1>2, <1>3 DEF LoadsAValue, type

LEMMA ValuesToSet ==
    ASSUME NEW type \in Scalar, NEW value \in ValuesOf(type)
    PROVE  /\ value \notin {Undefined, Null, Throws}
           /\ StringOf(value) # Text("") => ValueFromString(type, StringOf(value)) = value
<1>1. CASE type = "S"
  <2>1. PICK t : value = Str(t)
    BY <1>1 DEF ValuesOf
  <2>2. StringOf(value) = t
    BY <2>1, Kinds DEF StringOf
  <2>3. ValueFromString(type, t) = Str(t)
    BY <1>1 DEF ValueFromString
  <2> QED  BY <2>1, <2>2, <2>3, Kinds
<1>2. CASE type = "N"
  <2>1. PICK w \in Numerals : value = Num(w)
    BY <1>2 DEF ValuesOf
  <2>2. StringOf(value) = Text(w)
    BY <2>1, Kinds DEF StringOf
  <2>3. ValueFromString(type, Text(w)) = NumberOf(Text(w))
    BY <1>2 DEF ValueFromString
  <2> QED  BY <2>1, <2>2, <2>3, Kinds, NumbersRead
<1>3. CASE type = "B"
  <2>1. PICK b \in BOOLEAN : value = Bool(b)
    BY <1>3 DEF ValuesOf
  <2>2. StringOf(value) = Content(Bool(b))
    BY <2>1, Kinds DEF StringOf
  <2>3. Content(Bool(b)) = Text(IF b THEN "true" ELSE "false")
    BY DEF Content, Bool
  <2>4. Text("false") # Text("true")
    BY TextsOfWords
  <2>5. ValueFromString(type, StringOf(value)) = Bool(StringOf(value) = Text("true"))
    BY <1>3 DEF ValueFromString
  <2>6. CASE b = TRUE
    BY <2>1, <2>2, <2>3, <2>5, <2>6, Kinds
  <2>7. CASE b = FALSE
    <3>1. StringOf(value) = Text("false")
      BY <2>2, <2>3, <2>7
    <3>2. (StringOf(value) = Text("true")) = FALSE
      BY <2>4, <3>1
    <3> QED  BY <2>1, <2>5, <2>7, <3>2, Kinds
  <2> QED  BY <2>6, <2>7
<1> QED  BY <1>1, <1>2, <1>3 DEF Scalar

LEMMA SetsValues ==
    ASSUME NEW i \in SetInput
    PROVE  SetsAValue(i)
<1> DEFINE type == i.type
           value == i.value
           text == StringOf(value)
           row == SetValue(type, i).row
<1>1. type \in Scalar /\ value \in ValuesOf(type)
  BY DEF SetInput
<1>2. SetValue(type, i) = [cached |-> value, row |-> Str(text)]
  BY DEF SetValue
<1> HIDE DEF type, value
<1>3. row = Str(text) /\ SetValue(type, i).cached = value
  BY <1>2
<1>4. ASSUME row # Str(Text(""))
      PROVE  LoadedValue(type, Undefined, "yes", row, Undefined) = SetValue(type, i).cached
  <2>1. row \notin {Undefined, Str(Text(""))} /\ text # Text("") /\ Content(row) = text
    BY <1>3, <1>4, Kinds
  <2>2. Overridden(type, Undefined, "yes", row) = ValueFromString(type, text)
    BY <2>1 DEF Overridden
  <2>3. ValueFromString(type, text) = value /\ value # Undefined
    BY <1>1, <2>1, ValuesToSet
  <2> QED  BY <1>3, <2>2, <2>3 DEF LoadedValue
<1>5. ASSUME NEW asked \in Scalar
      PROVE  /\ (TypedGetter(asked, type, value) = value) <=> (asked = type)
             /\ (SetValue(asked, i).cached = Throws) <=> (asked # type)
  <2>1. value # Throws
    BY <1>1, ValuesToSet
  <2>2. SetValue(asked, i).cached = IF asked # type THEN Throws ELSE value
    BY DEF SetValue, type, value
  <2> QED  BY <2>1, <2>2 DEF TypedGetter
<1> QED  BY <1>4, <1>5 DEF SetsAValue, type, value

LEMMA TracesData ==
    ASSUME NEW i \in TraceInput
    PROVE  TracesWithItsData(i)
<1> DEFINE matches == MatchingFilter(i.msg, i.filter, i.isRegex, i.found)
           lines == Verbose(i.msg, i.filter, i.isRegex, i.found, i.data, i.dataEnabled)
<1>1. /\ i.msg \in Texts /\ i.msg \in Seq([word : STRING, padded : {"yes", "no"}])
      /\ i.dataEnabled \in {"yes", "no"}
  BY TextsAssumption DEF TraceInput
<1>2. "data" \in lines => "message" \in lines /\ i.dataEnabled = "yes" /\ i.data \notin Nullish
  BY <1>1 DEF Verbose, LogData, Nullish
<1>3. Kind(i.filter) \notin {"String", "undefined"} => lines = {}
  BY Kinds DEF Verbose, MatchingFilter
<1>4. ASSUME i.filter = Str(i.msg), i.isRegex = "no"
      PROVE  "message" \in lines
  <2>1. Kind(i.filter) = "String" /\ Content(i.filter) = i.msg
    BY <1>4, Kinds
  <2>2. Includes(i.msg, i.msg)
    <3>1. /\ Len(i.msg) \in Nat /\ 0 \in 0 .. Len(i.msg) - Len(i.msg)
          /\ SubSeq(i.msg, 0 + 1, 0 + Len(i.msg)) = i.msg
      BY <1>1
    <3> QED  BY <3>1 DEF Includes
  <2> QED  BY <1>4, <2>1, <2>2 DEF MatchingFilter, Verbose
<1> QED  BY <1>2, <1>3, <1>4 DEF TracesWithItsData

-----------------------------------------------------------------------------
(* Property transforms: what a transform gives is left alone by it. *)

LEMMA BooleansSettle ==
    ASSUME NEW v
    PROVE  LET b == ToBoolean(v)
           IN (b \in Nullish \/ Kind(b) = "Boolean") /\ ToBoolean(b) = b
<1>1. ToBoolean(v) \in {Undefined, Null, Bool(TRUE), Bool(FALSE)}
  BY DEF ToBoolean
<1>2. Bool(TRUE) # Bool(FALSE)
  <2>1. Content(Bool(TRUE)) = Text("true") /\ Content(Bool(FALSE)) = Text("false")
    BY DEF Content, Bool
  <2> QED  BY <2>1, TextsOfWords
<1>3. /\ Undefined # Null
      /\ \A b : /\ Bool(b) \notin {Undefined, Null}
                /\ \A w : Bool(b) # Num(w) /\ Undefined # Num(w) /\ Null # Num(w)
                /\ \A t : Bool(b) # Str(t) /\ Undefined # Str(t) /\ Null # Str(t)
  BY Kinds
<1>4. /\ ToBoolean(Undefined) = Undefined /\ ToBoolean(Null) = Null
      /\ ToBoolean(Bool(TRUE)) = Bool(TRUE) /\ ToBoolean(Bool(FALSE)) = Bool(FALSE)
  BY <1>2, <1>3 DEF ToBoolean
<1> QED  BY <1>1, <1>4, Kinds DEF Nullish

LEMMA DatesSettle ==
    ASSUME NEW v
    PROVE  LET d == ToDate(v)
           IN (d \in Nullish \/ Kind(d) = "Date") /\ ToDate(d) = d
<1>1. CASE v = Undefined
  BY <1>1 DEF ToDate, Nullish
<1>2. CASE v # Undefined
  <2>1. ToDate(v) = DateOf(v)
    BY <1>2 DEF ToDate
  <2>2. Kind(DateOf(v)) = "Date"
    BY DEF DateOf, Kind
  <2>3. ToDate(DateOf(v)) = DateOf(v)
    BY <2>2, Kinds DEF ToDate, DateOf
  <2> QED  BY <2>1, <2>2, <2>3
<1> QED  BY <1>1, <1>2

LEMMA NumbersSettle ==
    ASSUME NEW v
    PROVE  LET n == ToNumber(v)
           IN (n \in Nullish \/ Kind(n) = "Number") /\ ToNumber(n) = n
<1> DEFINE number == CASE v = Bool(TRUE) -> Num("1")
                       [] v = Bool(FALSE) -> Num("0")
                       [] OTHER -> NumberOf(StringOf(v))
<1>1. \A x \in Nullish : ToNumber(x) = x
  BY DEF ToNumber, Nullish
<1>2. \E w \in Numerals \cup {"NaN"} : number = Num(w)
  <2>1. CASE v = Bool(TRUE)
    BY <2>1, NumeralsAssumption, BooleansSettle, TextsOfWords, Kinds DEF Bool
  <2>2. CASE v = Bool(FALSE) /\ v # Bool(TRUE)
    BY <2>2, NumeralsAssumption
  <2>3. CASE v # Bool(TRUE) /\ v # Bool(FALSE)
    BY <2>3, NumbersRead
  <2> QED  BY <2>1, <2>2, <2>3
<1> HIDE DEF number
<1>3. v \notin Nullish => ToNumber(v) = IF number = Num("NaN") THEN Null ELSE number
  BY DEF ToNumber, Nullish, number
<1>4. ASSUME NEW w \in Numerals
      PROVE  ToNumber(Num(w)) = Num(w)
  <2>1. Num(w) \notin {Undefined, Null, Bool(TRUE), Bool(FALSE)}
    BY Kinds
  <2>2. StringOf(Num(w)) = Text(w)
    BY Kinds DEF StringOf
  <2>3. NumberOf(Text(w)) = Num(w)
    BY NumbersRead
  <2>4. Num(w) # Num("NaN")
    BY TextsOfWords, NumeralsAssumption
  <2> QED  BY <2>1, <2>2, <2>3, <2>4 DEF ToNumber
<1> QED  BY <1>1, <1>2, <1>3, <1>4, Kinds DEF Nullish

LEMMA CasesSettle ==
    ASSUME NEW case \in 1 .. 3, NEW w
    PROVE  InCase(case, InCase(case, w)) = InCase(case, w)
<1> DEFINE forms(x) == {t \in Cases : x \in ToSet(t)}
           chosen(x) == CHOOSE t \in forms(x) : TRUE
<1>1. CASE forms(w) = {}
  BY <1>1 DEF InCase
<1>2. CASE forms(w) # {}
  <2>1. chosen(w) \in forms(w)
    BY <1>2
  <2>2. InCase(case, w) = chosen(w)[case]
    BY <1>2 DEF InCase
  <2>3. chosen(w)[case] \in ToSet(chosen(w))
    <3> HIDE DEF chosen
    <3> QED  BY <2>1, CasesAssumption DEF ToSet
  <2>4. \A t \in forms(chosen(w)[case]) : t = chosen(w)
    <3> HIDE DEF chosen
    <3> QED  BY <2>1, <2>3, CasesAssumption
  <2>5. chosen(chosen(w)[case]) \in forms(chosen(w)[case])
    <3>1. forms(chosen(w)[case]) # {}
      BY <2>1, <2>3
    <3> QED  BY <3>1
  <2>6. InCase(case, chosen(w)[case]) = chosen(chosen(w)[case])[case]
    BY <2>5 DEF InCase
  <2> HIDE DEF chosen, forms
  <2> QED  BY <2>2, <2>4, <2>5, <2>6
<1> QED  BY <1>1, <1>2

FlattenStep(A, seqs) == [p \in (1 .. Len(seqs)) \X Seq(A) |-> p[2] \o seqs[p[1]]]

LEMMA FlattenSteps ==
    ASSUME NEW A, NEW seqs \in Seq(Seq(A))
    PROVE  \E ret \in [0 .. Len(seqs) -> Seq(A)] :
              /\ ret[0] = <<>>
              /\ \A n \in 1 .. Len(seqs) : ret[n] = ret[n - 1] \o seqs[n]
              /\ FlattenSeq(seqs) = ret[Len(seqs)]
<1> DEFINE N == Len(seqs)
           S == Seq(A)
           step == FlattenStep(A, seqs)
           Eq(g) == g = [n \in 1 .. N |-> IF n = 1 THEN seqs[n] ELSE g[n - 1] \o seqs[n]]
           flat == CHOOSE g : Eq(g)
           ret == [n \in 0 .. N |-> IF n = 0 THEN <<>> ELSE flat[n]]
<1>1. N \in Nat /\ <<>> \in S /\ DOMAIN seqs = 1 .. N
  OBVIOUS
<1>2. \A n \in 1 .. N, a \in S : step[<<n, a>>] = a \o seqs[n] /\ a \o seqs[n] \in S /\ seqs[n] \in S
  <2> SUFFICES ASSUME NEW n \in 1 .. N, NEW a \in S
               PROVE  step[<<n, a>>] = a \o seqs[n] /\ a \o seqs[n] \in S /\ seqs[n] \in S
    OBVIOUS
  <2>1. seqs[n] \in S
    OBVIOUS
  <2>2. a \o seqs[n] \in S
    BY <2>1
  <2> QED  BY <2>1, <2>2 DEF FlattenStep
<1>3. step \in [(1 .. N) \X S -> S]
  BY <1>2 DEF FlattenStep
<1>4. PICK f \in [0 .. N -> S] : f[0] = <<>> /\ \A n \in 1 .. N : f[n] = step[<<n, f[n - 1]>>]
  <2>1. LoopFns(N, S, <<>>, step) # {}
    <3> HIDE DEF N, S, step
    <3> QED  BY <1>1, <1>3, LoopExists
  <2> QED  BY <2>1 DEF LoopFns
<1>5. \A n \in 1 .. N : n - 1 \in 0 .. N /\ n \in 0 .. N /\ (n # 1 => n - 1 \in 1 .. N)
  BY <1>1
<1> HIDE DEF step, S
<1>6. \A n \in 1 .. N : f[n] = f[n - 1] \o seqs[n]
  <2>1. \A n \in 1 .. N : f[n - 1] \in S
    BY <1>4, <1>5
  <2> QED  BY <1>2, <1>4, <2>1
<1>7. Eq([n \in 1 .. N |-> f[n]])
  <2>1. 1 \in 1 .. N => f[1] = seqs[1]
    <3>1. ASSUME 1 \in 1 .. N
          PROVE  f[1] = seqs[1]
      <4>a. 1 - 1 = 0
        OBVIOUS
      <4>b. seqs[1] \in S
        BY <1>1, <1>2, <3>1
      <4>c. f[1] = f[1 - 1] \o seqs[1]
        BY <1>6, <3>1, Zenon
      <4>1. f[1] = f[0] \o seqs[1] /\ seqs[1] \in S
        BY <4>a, <4>b, <4>c
      <4>2. f[1] = <<>> \o seqs[1] /\ seqs[1] \in Seq(A)
        BY <1>4, <4>1 DEF S
      <4> QED  BY <4>2
    <3> QED  BY <3>1
  <2> DEFINE g == [n \in 1 .. N |-> f[n]]
  <2>2. \A n \in 1 .. N : g[n] = f[n] /\ (n # 1 => g[n - 1] = f[n - 1])
    BY <1>5
  <2>3. g = [n \in 1 .. N |-> g[n]]
    OBVIOUS
  <2> HIDE DEF g
  <2>4. \A n \in 1 .. N : g[n] = IF n = 1 THEN seqs[n] ELSE g[n - 1] \o seqs[n]
    BY <1>6, <2>1, <2>2
  <2>5. Eq(g)
    <3> HIDE DEF N
    <3> QED  BY <2>3, <2>4
  <2> QED  BY <2>5 DEF g
<1>8. Eq(flat)
  <2> HIDE DEF Eq
  <2> QED  BY <1>7
<1>9. FlattenSeq(seqs) = ret[N]
  <2>1. CASE N = 0
    <3>1. seqs = <<>>
      BY <2>1
    <3> QED  BY <2>1, <3>1 DEF FlattenSeq
  <2>2. CASE N # 0
    <3>1. FlattenSeq(seqs) = flat[N]
      BY <2>2 DEF FlattenSeq
    <3> HIDE DEF flat
    <3> QED  BY <1>1, <2>2, <3>1
  <2> QED  BY <2>1, <2>2
<1> HIDE DEF flat
<1>10. \A n \in 1 .. N : flat[n] = IF n = 1 THEN seqs[n] ELSE flat[n - 1] \o seqs[n]
  BY <1>8, Zenon
<1>11. \A n \in 1 .. N : ret[n] = ret[n - 1] \o seqs[n]
  <2> SUFFICES ASSUME NEW n \in 1 .. N
               PROVE  ret[n] = ret[n - 1] \o seqs[n]
    OBVIOUS
  <2>1. CASE n = 1
    <3>1. ret[1] = seqs[1] /\ ret[0] = <<>> /\ seqs[1] \in Seq(A)
      BY <1>1, <1>2, <1>5, <1>10, <2>1 DEF S
    <3>2. n - 1 = 0
      BY <2>1
    <3> HIDE DEF ret
    <3>3. ret[n - 1] = <<>> /\ ret[n] = seqs[1] /\ seqs[n] = seqs[1]
      BY <2>1, <3>1, <3>2
    <3>4. <<>> \o seqs[1] = seqs[1]
      BY <3>1
    <3> QED  BY <3>3, <3>4
  <2>2. CASE n # 1
    <3>1. flat[n] = flat[n - 1] \o seqs[n]
      BY <1>10, <2>2
    <3>2. ret[n] = flat[n] /\ ret[n - 1] = flat[n - 1]
      BY <1>5, <2>2
    <3> HIDE DEF ret
    <3> QED  BY <3>1, <3>2
  <2> QED  BY <2>1, <2>2
<1>12. ret[0] = <<>>
  BY <1>1
<1> HIDE DEF ret
<1>13. \A n \in 0 .. N : ret[n] \in S
  <2>1. \A n \in 1 .. N : ret[n - 1] \in S => ret[n] \in S
    BY <1>2, <1>11
  <2> HIDE DEF N
  <2> QED  BY <1>1, <1>12, <2>1, LoopType
<1>14. ret \in [0 .. N -> S]
  BY <1>13 DEF ret
<1> QED  BY <1>9, <1>11, <1>12, <1>14 DEF S

LEMMA FlatteningTypes ==
    ASSUME NEW A, NEW seqs \in Seq(Seq(A))
    PROVE  FlattenSeq(seqs) \in Seq(A)
<1>1. PICK ret \in [0 .. Len(seqs) -> Seq(A)] :
         /\ ret[0] = <<>>
         /\ \A n \in 1 .. Len(seqs) : ret[n] = ret[n - 1] \o seqs[n]
         /\ FlattenSeq(seqs) = ret[Len(seqs)]
  BY FlattenSteps
<1>2. Len(seqs) \in 0 .. Len(seqs)
  OBVIOUS
<1> QED  BY <1>1, <1>2


AnyWord == [word : STRING \cup Numerals \cup {"", "true", "false", "NaN"}, padded : {"yes", "no"}]

LEMMA ValuesInBounds ==
    ASSUME NEW v \in AnyValue
    PROVE  \/ v \in Nullish
           \/ \E w \in Numerals \cup {"NaN"} : v = Num(w)
           \/ \E t \in Texts : v = Str(t)
           \/ \E b \in BOOLEAN : v = Bool(b)
           \/ \E ts \in Seq(Texts) : v = Arr(ts)
<1>1. \A ts \in BoundedSeq(Texts, MaxTexts) : ts \in Seq(Texts)
  BY ListBounds DEF BoundedSeq, SeqOf
<1>2. \A type \in Scalar : \A x \in ValuesOf(type) :
         \/ \E w \in Numerals \cup {"NaN"} : x = Num(w)
         \/ \E t \in Texts : x = Str(t)
         \/ \E b \in BOOLEAN : x = Bool(b)
  BY DEF Scalar, ValuesOf
<1> QED  BY <1>1, <1>2 DEF AnyValue, Nullish

LEMMA TextsAreOfWords == Texts \subseteq Seq(AnyWord)
<1> DEFINE words == [word : STRING, padded : {"yes", "no"}]
<1>1. words \subseteq AnyWord
  BY DEF AnyWord
<1>2. ASSUME NEW t \in Seq(words)
      PROVE  t \in Seq(AnyWord)
  <2> HIDE DEF words
  <2> QED  BY <1>1, <1>2
<1> QED  BY <1>2, TextsAssumption

LEMMA StringsOfValues ==
    ASSUME NEW v \in AnyValue, v \notin Nullish
    PROVE  StringOf(v) \in Seq(AnyWord)
<1>1. \A w \in Numerals \cup {"", "true", "false", "NaN"} : Text(w) \in Seq(AnyWord)
  <2>1. \A w \in Numerals \cup {"", "true", "false", "NaN"} : Word(w) \in AnyWord
    BY DEF Word, AnyWord
  <2>2. \A x \in AnyWord : <<x>> \in Seq(AnyWord)
    OBVIOUS
  <2> QED  BY <2>1, <2>2 DEF Text
<1>2. Texts \subseteq Seq(AnyWord)
  BY TextsAreOfWords
<1>3. CASE \E w \in Numerals \cup {"NaN"} : v = Num(w)
  <2>1. PICK w \in Numerals \cup {"NaN"} : v = Num(w)
    BY <1>3
  <2>2. StringOf(v) = Text(w)
    BY <2>1, Kinds DEF StringOf
  <2> QED  BY <1>1, <2>2
<1>4. CASE \E t \in Texts : v = Str(t)
  <2>1. PICK t \in Texts : v = Str(t)
    BY <1>4
  <2>2. StringOf(v) = t
    BY <2>1, Kinds DEF StringOf
  <2> QED  BY <1>2, <2>2
<1>5. CASE \E b \in BOOLEAN : v = Bool(b)
  <2>1. PICK b \in BOOLEAN : v = Bool(b)
    BY <1>5
  <2>2. StringOf(v) = Content(Bool(b))
    BY <2>1, Kinds DEF StringOf
  <2>3. Content(Bool(b)) = Text(IF b THEN "true" ELSE "false")
    BY DEF Content, Bool
  <2>4. CASE b
    BY <1>1, <2>2, <2>3, <2>4
  <2>5. CASE ~b
    BY <1>1, <2>2, <2>3, <2>5
  <2> QED  BY <2>4, <2>5
<1>6. CASE \E ts \in Seq(Texts) : v = Arr(ts)
  <2>1. PICK ts \in Seq(Texts) : v = Arr(ts)
    BY <1>6
  <2>2. StringOf(v) = IF ts = <<>> THEN Text("") ELSE FlattenSeq(ts)
    BY <2>1, Kinds DEF StringOf
  <2>3. ts \in Seq(Seq(AnyWord))
    BY <1>2
  <2> QED  BY <1>1, <2>2, <2>3, FlatteningTypes
<1> QED  BY <1>3, <1>4, <1>5, <1>6, ValuesInBounds

LEMMA TextsSettle ==
    ASSUME NEW case \in 0 .. 3, NEW v \in AnyValue
    PROVE  LET s == ToText(case, v)
           IN (s \in Nullish \/ Kind(s) = "String") /\ ToText(case, s) = s
<1>1. CASE v \in Nullish
  BY <1>1 DEF ToText, Nullish
<1>2. CASE v \notin Nullish
  <2> DEFINE str == StringOf(v)
             Up(s) == [i \in DOMAIN s |-> [s[i] EXCEPT !.word = InCase(case, s[i].word)]]
             text == IF case = 0 THEN str ELSE Up(str)
  <2>1. ToText(case, v) = Str(text)
    BY <1>2 DEF ToText, Nullish
  <2>2. Kind(Str(text)) = "String" /\ Str(text) \notin Nullish /\ StringOf(Str(text)) = text
    BY Kinds DEF Nullish, StringOf
  <2>3. ASSUME case # 0
        PROVE  Up(Up(str)) = Up(str)
    <3>1. case \in 1 .. 3 /\ str \in Seq(AnyWord)
      BY <1>2, <2>3, StringsOfValues
    <3> HIDE DEF str
    <3>2. ASSUME NEW i \in DOMAIN str
          PROVE  /\ Up(str)[i].word = InCase(case, str[i].word)
                 /\ [Up(str)[i] EXCEPT !.word = InCase(case, str[i].word)] = Up(str)[i]
      <4>1. str[i] \in AnyWord
        BY <3>1, <3>2
      <4> QED  BY <4>1 DEF AnyWord
    <3>3. DOMAIN Up(str) = DOMAIN str
      OBVIOUS
    <3>4. \A i \in DOMAIN str : InCase(case, Up(str)[i].word) = InCase(case, str[i].word)
      <4> SUFFICES ASSUME NEW i \in DOMAIN str
                   PROVE  InCase(case, Up(str)[i].word) = InCase(case, str[i].word)
        OBVIOUS
      <4>1. Up(str)[i].word = InCase(case, str[i].word)
        BY <3>2
      <4> HIDE DEF Up
      <4> QED  BY <3>1, <4>1, CasesSettle
    <3> QED  BY <3>2, <3>3, <3>4
  <2>4. ToText(case, Str(text)) = Str(IF case = 0 THEN text ELSE Up(text))
    <3> HIDE DEF text
    <3> QED  BY <2>2 DEF ToText, Nullish
  <2>5. (IF case = 0 THEN text ELSE Up(text)) = text
    BY <2>3
  <2> HIDE DEF text, Up
  <2> QED  BY <2>1, <2>2, <2>4, <2>5
<1> QED  BY <1>1, <1>2

DistinctStep(S, list) ==
    [p \in (1 .. Len(list)) \X Seq(S) |->
        IF Contains(p[2], list[p[1]]) THEN p[2] ELSE Append(p[2], list[p[1]])]

LEMMA DistinctSteps ==
    ASSUME NEW S, NEW list \in Seq(S)
    PROVE  \E ret \in LoopFns(Len(list), Seq(S), <<>>, DistinctStep(S, list)) :
              Distinct(list) = ret[Len(list)]
<1> DEFINE N == Len(list)
           A == Seq(S)
           Op(a, x) == IF Contains(a, x) THEN a ELSE Append(a, x)
           step == DistinctStep(S, list)
           Eq(g) == g = [s \in SUBSET (DOMAIN list) |->
                          IF s = {} THEN <<>> ELSE Op(g[s \ {Max(s)}], list[Max(s)])]
           iter == CHOOSE g : Eq(g)
           ret == [n \in 0 .. N |-> iter[1 .. n]]
<1>1. N \in Nat /\ DOMAIN list = 1 .. N /\ <<>> \in A
  OBVIOUS
<1>2. ASSUME NEW n \in 1 .. N, NEW a \in A
      PROVE  Op(a, list[n]) \in A /\ step[<<n, a>>] = Op(a, list[n])
  BY DEF DistinctStep
<1>3. step \in [(1 .. N) \X A -> A]
  BY <1>2 DEF DistinctStep
<1> HIDE DEF A, Op, step
<1>4. Distinct(list) = iter[1 .. N]
  BY <1>1 DEF Distinct, FoldLeft, MapThenFoldSet, Op
<1>5. Eq(iter)
  <2>1. FoldFns(N, A, <<>>, step) # {}
    <3> HIDE DEF N, Eq
    <3> QED  BY <1>1, <1>3, FoldExists
  <2>2. PICK f \in [SUBSET (1 .. N) -> A] : \A s \in SUBSET (1 .. N) :
              f[s] = IF s = {} THEN <<>> ELSE step[<<Max(s), f[s \ {Max(s)}]>>]
    BY <2>1 DEF FoldFns
  <2>3. ASSUME NEW s \in SUBSET (1 .. N), s # {}
        PROVE  step[<<Max(s), f[s \ {Max(s)}]>>] = Op(f[s \ {Max(s)}], list[Max(s)])
    <3>1. Max(s) \in 1 .. N /\ s \ {Max(s)} \in SUBSET (1 .. N)
      BY <1>1, <2>3, MaxInInterval
    <3> QED  BY <1>2, <3>1
  <2>4. Eq(f)
    BY <1>1, <2>2, <2>3
  <2> HIDE DEF Eq
  <2> QED  BY <2>4
<1> HIDE DEF iter
<1>6. iter[{}] = <<>>
  BY <1>5
<1>7. ASSUME NEW n \in 1 .. N
      PROVE  iter[1 .. n] = Op(iter[1 .. n - 1], list[n])
  <2>1. n \in Nat \ {0} /\ 1 .. n \in SUBSET (DOMAIN list) /\ 1 .. n # {}
    BY <1>1
  <2>2. iter[1 .. n] = Op(iter[(1 .. n) \ {Max(1 .. n)}], list[Max(1 .. n)])
    BY <1>5, <2>1
  <2> QED  BY <2>1, <2>2, MaxOfInterval
<1>8. ret \in LoopFns(N, A, <<>>, step)
  <2>1. \A n \in 1 .. N : iter[1 .. n - 1] \in A => iter[1 .. n] = step[<<n, iter[1 .. n - 1]>>]
    BY <1>2, <1>7
  <2> HIDE DEF N, Eq
  <2> QED  BY <1>1, <1>3, <1>6, <2>1, FoldSteps
<1>9. Distinct(list) = ret[N]
  BY <1>1, <1>4
<1> QED  BY <1>8, <1>9 DEF A, step

\* What becomes of a list without its repetitions.
LEMMA DistinctFacts ==
    ASSUME NEW S, NEW list \in Seq(S)
    PROVE  /\ Distinct(list) \in Seq(S)
           /\ IsInjective(Distinct(list))
           /\ IsInjective(list) => Distinct(list) = list
<1> DEFINE N == Len(list)
<1>1. N \in Nat /\ DOMAIN list = 1 .. N /\ \A n \in 1 .. N : list[n] \in S
  OBVIOUS
<1>2. PICK ret \in LoopFns(N, Seq(S), <<>>, DistinctStep(S, list)) : Distinct(list) = ret[N]
  BY DistinctSteps
<1>3. /\ ret \in [0 .. N -> Seq(S)]
      /\ ret[0] = <<>>
      /\ \A n \in 1 .. N : ret[n] = IF Contains(ret[n - 1], list[n]) THEN ret[n - 1]
                                    ELSE Append(ret[n - 1], list[n])
  <2>1. /\ ret \in [0 .. N -> Seq(S)] /\ ret[0] = <<>>
        /\ \A n \in 1 .. N : ret[n] = DistinctStep(S, list)[<<n, ret[n - 1]>>]
    BY <1>2 DEF LoopFns
  <2>2. \A n \in 1 .. N : <<n, ret[n - 1]>> \in (1 .. N) \X Seq(S)
    <3> HIDE DEF N
    <3> QED  BY <1>1, <2>1
  <2>3. \A n \in 1 .. N : DistinctStep(S, list)[<<n, ret[n - 1]>>]
               = IF Contains(ret[n - 1], list[n]) THEN ret[n - 1] ELSE Append(ret[n - 1], list[n])
    BY <2>2 DEF DistinctStep
  <2> QED  BY <2>1, <2>3
<1> HIDE DEF N
<1> DEFINE Kept(n) == /\ \A i, j \in 1 .. Len(ret[n]) : ret[n][i] = ret[n][j] => i = j
                      /\ IsInjective(list) =>
                            Len(ret[n]) = n /\ \A i \in 1 .. n : ret[n][i] = list[i]
           T == {n \in 0 .. N : Kept(n)}
<1>4. 0 \in T
  <2>1. Len(ret[0]) = 0 /\ 1 .. 0 = {} /\ 0 \in 0 .. N
    BY <1>1, <1>3
  <2> QED  BY <2>1
<1>5. ASSUME NEW n \in 0 .. N, n \in T, n < N
      PROVE  n + 1 \in T
  <2> DEFINE L == Len(ret[n])
  <2>1. n + 1 \in 1 .. N /\ (n + 1) - 1 = n /\ n + 1 \in 0 .. N /\ n \in Nat
    BY <1>1, <1>5
  <2>2. ret[n] \in Seq(S) /\ ret[n + 1] \in Seq(S) /\ list[n + 1] \in S /\ L \in Nat
    BY <1>1, <1>3, <2>1
  <2>3. Kept(n)
    BY <1>5
  <2>4. CASE Contains(ret[n], list[n + 1])
    <3>1. ret[n + 1] = ret[n]
      BY <1>3, <2>1, <2>4
    <3>2. ~IsInjective(list)
      <4>1. PICK i \in 1 .. L : ret[n][i] = list[n + 1]
        BY <2>4 DEF Contains
      <4>2. ASSUME IsInjective(list)
            PROVE  FALSE
        <5>1. i \in 1 .. n /\ list[i] = list[n + 1]
          BY <2>3, <4>1, <4>2
        <5>2. i \in 1 .. N /\ i # n + 1
          BY <1>1, <2>1, <5>1
        <5> QED  BY <1>1, <2>1, <4>2, <5>1, <5>2 DEF IsInjective
      <4> QED  BY <4>2
    <3> QED  BY <2>1, <2>3, <3>1, <3>2
  <2>5. CASE ~Contains(ret[n], list[n + 1])
    <3>1. ret[n + 1] = Append(ret[n], list[n + 1])
      BY <1>3, <2>1, <2>5
    <3> HIDE DEF T, Kept
    <3>2. /\ Len(ret[n + 1]) = L + 1
          /\ \A i \in 1 .. L : ret[n + 1][i] = ret[n][i]
          /\ ret[n + 1][L + 1] = list[n + 1]
      BY <2>2, <3>1
    <3>3. \A i \in 1 .. L + 1 : i \in 1 .. L \/ i = L + 1
      BY <2>2
    <3>4. \A i \in 1 .. L : ret[n][i] # list[n + 1]
      BY <2>5 DEF Contains
    <3>5. \A i, j \in 1 .. L : ret[n][i] = ret[n][j] => i = j
      BY <2>3 DEF Kept
    <3>6. IsInjective(list) => L = n /\ \A i \in 1 .. n : ret[n][i] = list[i]
      BY <2>3 DEF Kept
    <3> HIDE DEF L
    <3>7. \A i, j \in 1 .. L + 1 : ret[n + 1][i] = ret[n + 1][j] => i = j
      BY <3>2, <3>3, <3>4, <3>5
    <3>8. IsInjective(list) => L + 1 = n + 1 /\ \A i \in 1 .. n + 1 : ret[n + 1][i] = list[i]
      BY <3>2, <3>3, <3>6
    <3> QED  BY <2>1, <3>2, <3>7, <3>8 DEF T, Kept
  <2> QED  BY <2>4, <2>5
<1>6. Kept(N)
  <2> HIDE DEF T, Kept
  <2>1. 0 .. N \subseteq T
    BY <1>1, <1>4, <1>5, IntervalInduction
  <2> QED  BY <1>1, <2>1 DEF T
<1>7. ret[N] \in Seq(S)
  BY <1>1, <1>3
<1>8. IsInjective(ret[N])
  BY <1>6, <1>7 DEF IsInjective
<1>9. IsInjective(list) => ret[N] = list
  BY <1>1, <1>6, <1>7 DEF N
<1> QED  BY <1>2, <1>7, <1>8, <1>9

Singles == {<<w>> : w \in AnyWord}

LEMMA Splits ==
    /\ \A t \in Seq(AnyWord) : Split(t) \in Seq(Singles)
    /\ \A x \in Singles : Split(x) = <<x>>
<1>1. ASSUME NEW t \in Seq(AnyWord)
      PROVE  Split(t) \in Seq(Singles)
  <2>1. \A i \in DOMAIN t : <<t[i]>> \in Singles
    BY DEF Singles
  <2> QED  BY <2>1 DEF Split
<1>2. ASSUME NEW x \in Singles
      PROVE  Split(x) = <<x>>
  <2>1. PICK w \in AnyWord : x = <<w>>
    BY DEF Singles
  <2>2. DOMAIN x = {1} /\ x[1] = w
    BY <2>1
  <2>3. Split(x) = [i \in {1} |-> <<x[i]>>]
    BY <2>2 DEF Split
  <2>4. Split(x) = [i \in {1} |-> x]
    BY <2>1, <2>2, <2>3
  <2> QED  BY <2>4
<1> QED  BY <1>1, <1>2

LEMMA SplitsFlatten ==
    ASSUME NEW xs \in Seq(Singles)
    PROVE  FlattenSeq([i \in DOMAIN xs |-> Split(xs[i])]) = xs
<1> DEFINE seqs == [i \in DOMAIN xs |-> Split(xs[i])]
           N == Len(xs)
<1>1. N \in Nat /\ DOMAIN xs = 1 .. N /\ \A n \in 1 .. N : xs[n] \in Singles
  OBVIOUS
<1>2. \A n \in 1 .. N : seqs[n] = <<xs[n]>> /\ seqs[n] \in Seq(Singles)
  <2> SUFFICES ASSUME NEW n \in 1 .. N
               PROVE  seqs[n] = <<xs[n]>> /\ seqs[n] \in Seq(Singles)
    OBVIOUS
  <2>1. xs[n] \in Singles /\ seqs[n] = Split(xs[n])
    BY <1>1
  <2>2. <<xs[n]>> \in Seq(Singles)
    BY <2>1
  <2> HIDE DEF seqs
  <2> QED  BY <2>1, <2>2, Splits
<1>3. seqs \in Seq(Seq(Singles)) /\ Len(seqs) = N
  <2>1. seqs = [i \in 1 .. N |-> seqs[i]]
    BY <1>1
  <2> HIDE DEF seqs
  <2> QED  BY <1>1, <1>2, <2>1
<1> HIDE DEF seqs
<1>4. PICK ret \in [0 .. N -> Seq(Singles)] :
         /\ ret[0] = <<>>
         /\ \A n \in 1 .. N : ret[n] = ret[n - 1] \o seqs[n]
         /\ FlattenSeq(seqs) = ret[N]
  <2> HIDE DEF N
  <2> QED  BY <1>3, FlattenSteps
<1> HIDE DEF N
<1> DEFINE T == {n \in 0 .. N : Len(ret[n]) = n /\ \A i \in 1 .. n : ret[n][i] = xs[i]}
<1>5. 0 \in T
  <2>1. 0 \in 0 .. N /\ 1 .. 0 = {} /\ Len(<<>>) = 0
    BY <1>1
  <2> QED  BY <1>4, <2>1
<1>6. ASSUME NEW n \in 0 .. N, n \in T, n < N
      PROVE  n + 1 \in T
  <2>1. n + 1 \in 1 .. N /\ (n + 1) - 1 = n /\ n + 1 \in 0 .. N /\ n \in Nat
    BY <1>1, <1>6
  <2>2. ret[n + 1] = ret[n] \o <<xs[n + 1]>> /\ ret[n] \in Seq(Singles) /\ xs[n + 1] \in Singles
    BY <1>1, <1>2, <1>4, <2>1
  <2>3. Len(ret[n]) = n /\ \A i \in 1 .. n : ret[n][i] = xs[i]
    BY <1>6
  <2>4. Len(ret[n + 1]) = n + 1 /\ ret[n + 1][n + 1] = xs[n + 1]
        /\ \A i \in 1 .. n : ret[n + 1][i] = ret[n][i]
    BY <2>1, <2>2, <2>3
  <2>5. \A i \in 1 .. n + 1 : i \in 1 .. n \/ i = n + 1
    BY <2>1
  <2> QED  BY <2>1, <2>3, <2>4, <2>5
<1>7. N \in T
  <2> HIDE DEF T
  <2>1. 0 .. N \subseteq T
    BY <1>1, <1>5, <1>6, IntervalInduction
  <2> QED  BY <1>1, <2>1
<1>8. ret[N] \in Seq(Singles)
  BY <1>1, <1>4
<1>9. ret[N] = xs
  BY <1>1, <1>7, <1>8 DEF N
<1> QED  BY <1>4, <1>9 DEF seqs

LEMMA ArraysSettle ==
    ASSUME NEW v \in AnyValue
    PROVE  LET a == AssignIfNullish(ToStringArray(v), Arr(<<>>))
           IN a # Throws => /\ Kind(a) = "Array" /\ ToStringArray(a) = a
                            /\ IsInjective(Content(a))
<1> DEFINE Settled(a) == \E xs \in Seq(Singles) : a = Arr(xs) /\ IsInjective(xs)
<1>1. ASSUME NEW ts
      PROVE  ToStringArray(Arr(ts))
                 = Arr(Distinct(FlattenSeq([i \in DOMAIN ts |-> Split(ts[i])])))
  <2>1. Arr(ts) # Undefined /\ Arr(ts) \notin Falsy
    BY Kinds DEF Falsy
  <2> QED  BY <2>1, Kinds DEF ToStringArray
<1>2. ASSUME NEW a, Settled(a)
      PROVE  a \notin Nullish /\ Kind(a) = "Array" /\ ToStringArray(a) = a /\ IsInjective(Content(a))
  <2>1. PICK xs \in Seq(Singles) : a = Arr(xs) /\ IsInjective(xs)
    BY <1>2
  <2>2. Distinct(xs) = xs
    BY <2>1, DistinctFacts
  <2>3. ToStringArray(a) = a
    BY <1>1, <2>1, <2>2, SplitsFlatten
  <2> QED  BY <2>1, <2>3, Kinds DEF Nullish
<1>3. Settled(Arr(<<>>))
  <2>1. <<>> \in Seq(Singles) /\ IsInjective(<<>>)
    BY DEF IsInjective
  <2> QED  BY <2>1
<1>4. ASSUME NEW list \in Seq(Singles)
      PROVE  Settled(Arr(Distinct(list)))
  BY <1>4, DistinctFacts
<1>5. Texts \subseteq Seq(AnyWord)
  BY TextsAreOfWords
<1>6. ToStringArray(v) = Undefined \/ ToStringArray(v) = Throws \/ Settled(ToStringArray(v))
  <2>1. CASE v = Undefined
    BY <2>1, Kinds DEF ToStringArray, Falsy
  <2>2. CASE v \in Falsy
    <3>1. ToStringArray(v) = Arr(<<>>)
      BY <2>2, Kinds DEF ToStringArray, Falsy
    <3> QED  BY <1>3, <3>1
  <2>3. CASE v \notin Falsy /\ \E t \in Texts : v = Str(t)
    <3>1. PICK t \in Texts : v = Str(t)
      BY <2>3
    <3>2. ToStringArray(v) = Arr(Distinct(Split(t)))
      BY <2>3, <3>1, Kinds DEF ToStringArray
    <3> QED  BY <1>4, <1>5, <3>2, Splits
  <2>4. CASE \E ts \in Seq(Texts) : v = Arr(ts)
    <3>1. PICK ts \in Seq(Texts) : v = Arr(ts)
      BY <2>4
    <3>2. \A i \in DOMAIN ts : Split(ts[i]) \in Seq(Singles)
      BY <1>5, Splits
    <3>3. [i \in DOMAIN ts |-> Split(ts[i])] \in Seq(Seq(Singles))
      BY <3>2
    <3>4. FlattenSeq([i \in DOMAIN ts |-> Split(ts[i])]) \in Seq(Singles)
      BY <3>3, FlatteningTypes
    <3> HIDE DEF Settled
    <3> QED  BY <1>1, <1>4, <3>1, <3>4
  <2>5. CASE v \notin Falsy /\ Kind(v) \in {"Number", "Boolean"}
    BY <2>5, Kinds DEF ToStringArray
  <2>6. Null \in Falsy
    BY DEF Falsy
  <2> QED  BY <2>1, <2>2, <2>3, <2>4, <2>5, <2>6, ValuesInBounds, Kinds DEF Nullish
<1> HIDE DEF Settled
<1> QED  BY <1>2, <1>3, <1>6 DEF AssignIfNullish, Nullish

LEMMA TransformsSettle ==
    ASSUME NEW i \in TransformInput
    PROVE  Settles(i)
<1>1. i.case \in 0 .. 3 /\ i.value \in AnyValue
  BY DEF TransformInput
<1> QED  BY <1>1, BooleansSettle, DatesSettle, NumbersSettle, TextsSettle, ArraysSettle DEF Settles

-----------------------------------------------------------------------------
(* Maps of rows *)

Keys == {"a", "b"}

Entry(V) == [key : Keys, value : V]

LEMMA RowsHaveKeys ==
    ASSUME NEW data \in Seq(Item)
    PROVE  \A n \in 1 .. Len(data) : data[n] \in Item /\ data[n].key \in Keys
<1>1. \A n \in 1 .. Len(data) : data[n] \in Item
  OBVIOUS
<1>2. \A x \in Item : x.key \in Keys
  BY DEF Item, Keys
<1> QED  BY <1>1, <1>2

LEMMA MapSetFacts ==
    ASSUME NEW V, NEW map \in Seq(Entry(V)), NEW k \in Keys, NEW v \in V
    PROVE  /\ MapSet(map, k, v) \in Seq(Entry(V))
           /\ HasKey(map, k) =>
                 /\ Len(MapSet(map, k, v)) = Len(map)
                 /\ \A i \in 1 .. Len(map) :
                       /\ MapSet(map, k, v)[i].key = map[i].key
                       /\ MapSet(map, k, v)[i].value = IF map[i].key = k THEN v ELSE map[i].value
           /\ ~HasKey(map, k) =>
                 /\ Len(MapSet(map, k, v)) = Len(map) + 1
                 /\ \A i \in 1 .. Len(map) : MapSet(map, k, v)[i] = map[i]
                 /\ MapSet(map, k, v)[Len(map) + 1].key = k
                 /\ MapSet(map, k, v)[Len(map) + 1].value = v
<1>1. DOMAIN map = 1 .. Len(map) /\ Len(map) \in Nat /\ \A i \in 1 .. Len(map) : map[i] \in Entry(V)
  OBVIOUS
<1>2. CASE HasKey(map, k)
  <2> DEFINE new == [i \in 1 .. Len(map) |->
                        IF map[i].key = k THEN [map[i] EXCEPT !.value = v] ELSE map[i]]
  <2>1. MapSet(map, k, v) = new
    BY <1>1, <1>2 DEF MapSet
  <2>2. \A i \in 1 .. Len(map) :
           /\ [map[i] EXCEPT !.value = v] \in Entry(V)
           /\ [map[i] EXCEPT !.value = v].key = map[i].key
           /\ [map[i] EXCEPT !.value = v].value = v
    BY <1>1 DEF Entry
  <2>3. \A i \in 1 .. Len(map) : /\ new[i] \in Entry(V) /\ new[i].key = map[i].key
                                 /\ new[i].value = IF map[i].key = k THEN v ELSE map[i].value
    BY <1>1, <2>2
  <2>4. new \in Seq(Entry(V)) /\ Len(new) = Len(map)
    BY <1>1, <2>3
  <2> HIDE DEF new
  <2> QED  BY <1>2, <2>1, <2>3, <2>4
<1>3. CASE ~HasKey(map, k)
  <2> DEFINE e == [key |-> k, value |-> v]
  <2>1. e \in Entry(V) /\ e.key = k /\ e.value = v
    BY DEF Entry
  <2>2. MapSet(map, k, v) = Append(map, e)
    BY <1>3 DEF MapSet
  <2> HIDE DEF e
  <2>3. /\ Append(map, e) \in Seq(Entry(V)) /\ Len(Append(map, e)) = Len(map) + 1
        /\ \A i \in 1 .. Len(map) : Append(map, e)[i] = map[i]
        /\ Append(map, e)[Len(map) + 1] = e
    BY <1>1, <2>1
  <2> QED  BY <1>3, <2>1, <2>2, <2>3
<1> QED  BY <1>2, <1>3

LEMMA MapGetFacts ==
    ASSUME NEW V, NEW map \in Seq(Entry(V)), NEW k, HasKey(map, k)
    PROVE  /\ MapGet(map, k) \in V
           /\ \E i \in 1 .. Len(map) : map[i].key = k /\ MapGet(map, k) = map[i].value
<1> DEFINE i == CHOOSE j \in DOMAIN map : map[j].key = k
<1>1. i \in DOMAIN map /\ map[i].key = k
  BY DEF HasKey
<1>2. MapGet(map, k) = map[i].value
  BY DEF MapGet
<1> HIDE DEF i
<1>3. i \in 1 .. Len(map) /\ map[i] \in Entry(V)
  <2> DEFINE E == Entry(V)
  <2> HIDE DEF E
  <2>1. map \in Seq(E)
    BY DEF E
  <2>2. i \in 1 .. Len(map) /\ map[i] \in E
    BY <1>1, <2>1
  <2> QED  BY <2>2 DEF E
<1>4. map[i].value \in V
  BY <1>3 DEF Entry
<1> QED  BY <1>1, <1>2, <1>3, <1>4

(***************************************************************************)
(* Maps that a loop fills: m[n] is the map after n of the items, and v[n]  *)
(* the value that the n-th sets.                                           *)
(***************************************************************************)
Fills(m, v, data) ==
    /\ m[0] = <<>>
    /\ \A n \in 1 .. Len(data) : m[n] = MapSet(m[n - 1], data[n].key, v[n])

\* They have the keys of these items, each once.
HasTheKeys(m, data) ==
    \A n \in 0 .. Len(data) :
       /\ \A i, j \in 1 .. Len(m[n]) : m[n][i].key = m[n][j].key => i = j
       /\ \A k : (\E j \in 1 .. Len(m[n]) : m[n][j].key = k) <=> \E i \in 1 .. n : data[i].key = k

LEMMA KeysOfMaps ==
    ASSUME NEW V, NEW data \in Seq(Item), NEW m \in [0 .. Len(data) -> Seq(Entry(V))],
           NEW v \in [1 .. Len(data) -> V], Fills(m, v, data)
    PROVE  HasTheKeys(m, data)
<1> DEFINE N == Len(data)
           Once(n) == \A i, j \in 1 .. Len(m[n]) : m[n][i].key = m[n][j].key => i = j
           Same(n) == \A k : (\E j \in 1 .. Len(m[n]) : m[n][j].key = k)
                                <=> \E i \in 1 .. n : data[i].key = k
           T == {n \in 0 .. N : Once(n) /\ Same(n)}
<1>1. N \in Nat /\ \A n \in 1 .. N : data[n].key \in Keys /\ v[n] \in V
  BY RowsHaveKeys
<1>2. m[0] = <<>> /\ \A n \in 1 .. N : m[n] = MapSet(m[n - 1], data[n].key, v[n])
  BY DEF Fills
<1> HIDE DEF N
<1>3. 0 \in T
  <2>1. 0 \in 0 .. N /\ 1 .. 0 = {} /\ Len(m[0]) = 0
    BY <1>1, <1>2
  <2> QED  BY <2>1
<1>4. ASSUME NEW n \in 0 .. N, n \in T, n < N
      PROVE  n + 1 \in T
  <2> DEFINE L == Len(m[n])
             k == data[n + 1].key
  <2>1. n + 1 \in 1 .. N /\ (n + 1) - 1 = n /\ n + 1 \in 0 .. N /\ n \in Nat
    BY <1>1, <1>4
  <2>2. m[n] \in Seq(Entry(V)) /\ L \in Nat
    BY <1>4 DEF N
  <2>3. m[n + 1] = MapSet(m[n], k, v[n + 1]) /\ k \in Keys /\ v[n + 1] \in V
    BY <1>1, <1>2, <2>1
  <2>4. Once(n) /\ Same(n)
    BY <1>4
  <2>5. HasKey(m[n], k) <=> \E j \in 1 .. L : m[n][j].key = k
    BY <2>2 DEF HasKey
  <2>6. \A x : (\E i \in 1 .. n + 1 : data[i].key = x) <=> (\E i \in 1 .. n : data[i].key = x) \/ x = k
    BY <2>1
  <2> HIDE DEF T, k
  <2>7. CASE HasKey(m[n], k)
    <3>1. Len(m[n + 1]) = L /\ \A i \in 1 .. L : m[n + 1][i].key = m[n][i].key
      BY <2>2, <2>3, <2>7, MapSetFacts
    <3> HIDE DEF L
    <3>2. Once(n + 1)
      BY <2>4, <3>1 DEF L
    <3>3. Same(n + 1)
      <4>1. \A x : (\E j \in 1 .. L : m[n + 1][j].key = x) <=> (\E i \in 1 .. n : data[i].key = x)
        BY <2>4, <3>1 DEF L
      <4> QED  BY <2>5, <2>6, <2>7, <3>1, <4>1
    <3> QED  BY <2>1, <3>2, <3>3 DEF T
  <2>8. CASE ~HasKey(m[n], k)
    <3>1. /\ Len(m[n + 1]) = L + 1 /\ \A i \in 1 .. L : m[n + 1][i] = m[n][i]
          /\ m[n + 1][L + 1].key = k
      BY <2>2, <2>3, <2>8, MapSetFacts
    <3>2. \A i \in 1 .. L + 1 : i \in 1 .. L \/ i = L + 1
      BY <2>2
    <3>3. L + 1 \in 1 .. L + 1 /\ 1 .. L \subseteq 1 .. L + 1
      BY <2>2
    <3> HIDE DEF L
    <3>4. Once(n + 1)
      BY <2>4, <2>5, <2>8, <3>1, <3>2 DEF L
    <3>5. Same(n + 1)
      <4> SUFFICES ASSUME NEW x
                   PROVE  (\E j \in 1 .. L + 1 : m[n + 1][j].key = x)
                             <=> \E i \in 1 .. n + 1 : data[i].key = x
        BY <3>1
      <4>1. (\E j \in 1 .. L + 1 : m[n + 1][j].key = x) <=> (\E j \in 1 .. L : m[n][j].key = x) \/ x = k
        BY <3>1, <3>2, <3>3
      <4>2. (\E j \in 1 .. L : m[n][j].key = x) <=> \E i \in 1 .. n : data[i].key = x
        BY <2>4 DEF L
      <4> QED  BY <2>6, <4>1, <4>2
    <3> QED  BY <2>1, <3>4, <3>5 DEF T
  <2> QED  BY <2>7, <2>8
<1>5. 0 .. N \subseteq T
  <2> HIDE DEF T
  <2> QED  BY <1>1, <1>3, <1>4, IntervalInduction
<1> QED  BY <1>5 DEF N, HasTheKeys

PutRow(map, x) == MapSet(map, x.key, x)

GroupOf(map, k) == IF HasKey(map, k) THEN MapGet(map, k) ELSE <<>>

PutInGroup(map, x) == MapSet(map, x.key, Append(GroupOf(map, x.key), x))

LEMMA PutRowType ==
    ASSUME NEW map \in Seq(Entry(Item)), NEW x \in Item
    PROVE  PutRow(map, x) \in Seq(Entry(Item))
<1>1. x.key \in Keys
  BY DEF Item, Keys
<1> QED  BY <1>1, MapSetFacts DEF PutRow

LEMMA PutInGroupType ==
    ASSUME NEW map \in Seq(Entry(Seq(Item))), NEW x \in Item
    PROVE  /\ GroupOf(map, x.key) \in Seq(Item)
           /\ PutInGroup(map, x) \in Seq(Entry(Seq(Item)))
<1>1. x.key \in Keys
  BY DEF Item, Keys
<1>2. GroupOf(map, x.key) \in Seq(Item)
  <2>1. CASE HasKey(map, x.key)
    BY <2>1, MapGetFacts DEF GroupOf
  <2>2. CASE ~HasKey(map, x.key)
    BY <2>2 DEF GroupOf
  <2> QED  BY <2>1, <2>2
<1>3. Append(GroupOf(map, x.key), x) \in Seq(Item)
  BY <1>2
<1> QED  BY <1>1, <1>2, <1>3, MapSetFacts DEF PutInGroup

LEMMA MapSteps ==
    ASSUME NEW data \in Seq(Item)
    PROVE  \E m \in [0 .. Len(data) -> Seq(Entry(Item))] :
              /\ m[0] = <<>>
              /\ \A n \in 1 .. Len(data) : m[n] = PutRow(m[n - 1], data[n])
              /\ ArrayToMap(data) = m[Len(data)]
<1> DEFINE N == Len(data)
           A == Seq(Entry(Item))
           Op(a, x) == PutRow(a, x)
           step == [p \in (1 .. N) \X A |-> Op(p[2], data[p[1]])]
           Eq(g) == g = [s \in SUBSET (DOMAIN data) |->
                          IF s = {} THEN <<>> ELSE Op(g[s \ {Max(s)}], data[Max(s)])]
           iter == CHOOSE g : Eq(g)
           ret == [n \in 0 .. N |-> iter[1 .. n]]
<1>1. N \in Nat /\ DOMAIN data = 1 .. N /\ <<>> \in A
  OBVIOUS
<1>2. ASSUME NEW n \in 1 .. N, NEW a \in A
      PROVE  Op(a, data[n]) \in A /\ step[<<n, a>>] = Op(a, data[n])
  <2>1. data[n] \in Item
    OBVIOUS
  <2>2. Op(a, data[n]) \in A
    <3> HIDE DEF N
    <3> QED  BY <2>1, PutRowType
  <2> QED  BY <2>2
<1>3. step \in [(1 .. N) \X A -> A]
  <2> HIDE DEF Op, A, N
  <2> QED  BY <1>2
<1>4. ArrayToMap(data) = iter[1 .. N]
  BY <1>1 DEF ArrayToMap, FoldLeft, MapThenFoldSet, PutRow
<1> HIDE DEF A, Op, step
<1>5. Eq(iter)
  <2>1. FoldFns(N, A, <<>>, step) # {}
    <3> HIDE DEF N, Eq
    <3> QED  BY <1>1, <1>3, FoldExists
  <2>2. PICK f \in [SUBSET (1 .. N) -> A] : \A s \in SUBSET (1 .. N) :
              f[s] = IF s = {} THEN <<>> ELSE step[<<Max(s), f[s \ {Max(s)}]>>]
    BY <2>1 DEF FoldFns
  <2>3. ASSUME NEW s \in SUBSET (1 .. N), s # {}
        PROVE  step[<<Max(s), f[s \ {Max(s)}]>>] = Op(f[s \ {Max(s)}], data[Max(s)])
    <3>1. Max(s) \in 1 .. N /\ s \ {Max(s)} \in SUBSET (1 .. N)
      BY <1>1, <2>3, MaxInInterval
    <3> QED  BY <1>2, <3>1
  <2>4. Eq(f)
    BY <1>1, <2>2, <2>3
  <2> HIDE DEF Eq
  <2> QED  BY <2>4
<1> HIDE DEF iter
<1>6. iter[{}] = <<>>
  BY <1>5
<1>7. ASSUME NEW n \in 1 .. N
      PROVE  iter[1 .. n] = Op(iter[1 .. n - 1], data[n])
  <2>1. n \in Nat \ {0} /\ 1 .. n \in SUBSET (DOMAIN data) /\ 1 .. n # {}
    BY <1>1
  <2>2. iter[1 .. n] = Op(iter[(1 .. n) \ {Max(1 .. n)}], data[Max(1 .. n)])
    BY <1>5, <2>1
  <2> QED  BY <2>1, <2>2, MaxOfInterval
<1>8. ret \in LoopFns(N, A, <<>>, step)
  <2>1. \A n \in 1 .. N : iter[1 .. n - 1] \in A => iter[1 .. n] = step[<<n, iter[1 .. n - 1]>>]
    BY <1>2, <1>7
  <2> HIDE DEF N, Eq
  <2> QED  BY <1>1, <1>3, <1>6, <2>1, FoldSteps
<1>9. ArrayToMap(data) = ret[N]
  BY <1>1, <1>4
<1>10. /\ ret \in [0 .. N -> A] /\ ret[0] = <<>>
       /\ \A n \in 1 .. N : n - 1 \in 0 .. N /\ ret[n] = step[<<n, ret[n - 1]>>]
  <2> HIDE DEF ret
  <2>1. \A n \in 1 .. N : n - 1 \in 0 .. N
    BY <1>1
  <2> QED  BY <1>8, <2>1 DEF LoopFns
<1> HIDE DEF ret
<1>11. \A n \in 1 .. N : ret[n] = Op(ret[n - 1], data[n])
  <2>1. \A n \in 1 .. N : ret[n - 1] \in A
    BY <1>10
  <2> QED  BY <1>2, <1>10, <2>1
<1> QED  BY <1>9, <1>10, <1>11 DEF A, Op

LEMMA GroupSteps ==
    ASSUME NEW data \in Seq(Item)
    PROVE  \E m \in [0 .. Len(data) -> Seq(Entry(Seq(Item)))] :
              /\ m[0] = <<>>
              /\ \A n \in 1 .. Len(data) : m[n] = PutInGroup(m[n - 1], data[n])
              /\ SortArrayItemsByProperty(data) = m[Len(data)]
<1> DEFINE N == Len(data)
           A == Seq(Entry(Seq(Item)))
           Op(a, x) == PutInGroup(a, x)
           step == [p \in (1 .. N) \X A |-> Op(p[2], data[p[1]])]
           Eq(g) == g = [s \in SUBSET (DOMAIN data) |->
                          IF s = {} THEN <<>> ELSE Op(g[s \ {Max(s)}], data[Max(s)])]
           iter == CHOOSE g : Eq(g)
           ret == [n \in 0 .. N |-> iter[1 .. n]]
<1>1. N \in Nat /\ DOMAIN data = 1 .. N /\ <<>> \in A
  OBVIOUS
<1>2. ASSUME NEW n \in 1 .. N, NEW a \in A
      PROVE  Op(a, data[n]) \in A /\ step[<<n, a>>] = Op(a, data[n])
  <2>1. data[n] \in Item
    OBVIOUS
  <2>2. Op(a, data[n]) \in A
    <3> HIDE DEF N
    <3> QED  BY <2>1, PutInGroupType
  <2> QED  BY <2>2
<1>3. step \in [(1 .. N) \X A -> A]
  <2> HIDE DEF Op, A, N
  <2> QED  BY <1>2
<1>4. SortArrayItemsByProperty(data) = iter[1 .. N]
  BY <1>1 DEF SortArrayItemsByProperty, FoldLeft, MapThenFoldSet, PutInGroup, GroupOf
<1> HIDE DEF A, Op, step
<1>5. Eq(iter)
  <2>1. FoldFns(N, A, <<>>, step) # {}
    <3> HIDE DEF N, Eq
    <3> QED  BY <1>1, <1>3, FoldExists
  <2>2. PICK f \in [SUBSET (1 .. N) -> A] : \A s \in SUBSET (1 .. N) :
              f[s] = IF s = {} THEN <<>> ELSE step[<<Max(s), f[s \ {Max(s)}]>>]
    BY <2>1 DEF FoldFns
  <2>3. ASSUME NEW s \in SUBSET (1 .. N), s # {}
        PROVE  step[<<Max(s), f[s \ {Max(s)}]>>] = Op(f[s \ {Max(s)}], data[Max(s)])
    <3>1. Max(s) \in 1 .. N /\ s \ {Max(s)} \in SUBSET (1 .. N)
      BY <1>1, <2>3, MaxInInterval
    <3> QED  BY <1>2, <3>1
  <2>4. Eq(f)
    BY <1>1, <2>2, <2>3
  <2> HIDE DEF Eq
  <2> QED  BY <2>4
<1> HIDE DEF iter
<1>6. iter[{}] = <<>>
  BY <1>5
<1>7. ASSUME NEW n \in 1 .. N
      PROVE  iter[1 .. n] = Op(iter[1 .. n - 1], data[n])
  <2>1. n \in Nat \ {0} /\ 1 .. n \in SUBSET (DOMAIN data) /\ 1 .. n # {}
    BY <1>1
  <2>2. iter[1 .. n] = Op(iter[(1 .. n) \ {Max(1 .. n)}], data[Max(1 .. n)])
    BY <1>5, <2>1
  <2> QED  BY <2>1, <2>2, MaxOfInterval
<1>8. ret \in LoopFns(N, A, <<>>, step)
  <2>1. \A n \in 1 .. N : iter[1 .. n - 1] \in A => iter[1 .. n] = step[<<n, iter[1 .. n - 1]>>]
    BY <1>2, <1>7
  <2> HIDE DEF N, Eq
  <2> QED  BY <1>1, <1>3, <1>6, <2>1, FoldSteps
<1>9. SortArrayItemsByProperty(data) = ret[N]
  BY <1>1, <1>4
<1>10. /\ ret \in [0 .. N -> A] /\ ret[0] = <<>>
       /\ \A n \in 1 .. N : n - 1 \in 0 .. N /\ ret[n] = step[<<n, ret[n - 1]>>]
  <2> HIDE DEF ret
  <2>1. \A n \in 1 .. N : n - 1 \in 0 .. N
    BY <1>1
  <2> QED  BY <1>8, <2>1 DEF LoopFns
<1> HIDE DEF ret
<1>11. \A n \in 1 .. N : ret[n] = Op(ret[n - 1], data[n])
  <2>1. \A n \in 1 .. N : ret[n - 1] \in A
    BY <1>10
  <2> QED  BY <1>2, <1>10, <2>1
<1> QED  BY <1>9, <1>10, <1>11 DEF A, Op

\* The map of some rows: its keys, the last row of each key, and all rows where the keys
\* are different.
LEMMA MapFacts ==
    ASSUME NEW data \in Seq(Item)
    PROVE  /\ ArrayToMap(data) \in Seq(Entry(Item))
           /\ \A j, k \in DOMAIN ArrayToMap(data) :
                 ArrayToMap(data)[j].key = ArrayToMap(data)[k].key => j = k
           /\ \A j \in DOMAIN data :
                 (\A k \in j + 1 .. Len(data) : data[k].key # data[j].key)
                     => MapGet(ArrayToMap(data), data[j].key) = data[j]
           /\ (\A j, k \in DOMAIN data : data[j].key = data[k].key => j = k)
                 => MapToArray(ArrayToMap(data)) = data
<1> DEFINE N == Len(data)
           Different == \A j, k \in 1 .. N : data[j].key = data[k].key => j = k
<1>1. PICK m \in [0 .. N -> Seq(Entry(Item))] :
         /\ m[0] = <<>>
         /\ \A n \in 1 .. N : m[n] = PutRow(m[n - 1], data[n])
         /\ ArrayToMap(data) = m[N]
  BY MapSteps
<1>2. N \in Nat /\ DOMAIN data = 1 .. N /\ \A n \in 1 .. N : data[n] \in Item /\ data[n].key \in Keys
  BY RowsHaveKeys
<1>3. \A n \in 0 .. N :
         /\ \A i, j \in 1 .. Len(m[n]) : m[n][i].key = m[n][j].key => i = j
         /\ \A k : (\E j \in 1 .. Len(m[n]) : m[n][j].key = k) <=> \E i \in 1 .. n : data[i].key = k
  <2> DEFINE V == Item
  <2>1. data \in [1 .. N -> V] /\ m \in [0 .. N -> Seq(Entry(V))]
    BY <1>1, <1>2
  <2>2. Fills(m, data, data)
    BY <1>1 DEF Fills, PutRow
  <2> HIDE DEF V
  <2>3. HasTheKeys(m, data)
    BY <2>1, <2>2, KeysOfMaps
  <2> QED  BY <2>3 DEF HasTheKeys
<1> HIDE DEF N
<1> DEFINE IsLast(n, j) == \A k \in j + 1 .. n : data[k].key # data[j].key
           Has(n, j) == \E i \in 1 .. Len(m[n]) : m[n][i].key = data[j].key /\ m[n][i].value = data[j]
           All(n) == Len(m[n]) = n /\ \A i \in 1 .. n : m[n][i].value = data[i]
           T == {n \in 0 .. N : /\ \A j \in 1 .. n : IsLast(n, j) => Has(n, j)
                                /\ Different => All(n)}
<1>4. 0 \in T
  <2>1. 0 \in 0 .. N /\ 1 .. 0 = {} /\ Len(m[0]) = 0
    BY <1>1, <1>2
  <2> HIDE DEF IsLast, Has
  <2> QED  BY <2>1
<1>5. ASSUME NEW n \in 0 .. N, n \in T, n < N
      PROVE  n + 1 \in T
  <2> DEFINE L == Len(m[n])
             k == data[n + 1].key
  <2>1. n + 1 \in 1 .. N /\ (n + 1) - 1 = n /\ n + 1 \in 0 .. N /\ n \in Nat
    BY <1>2, <1>5
  <2>2. m[n] \in Seq(Entry(Item)) /\ L \in Nat
    BY <1>1, <2>1
  <2>3. m[n + 1] = MapSet(m[n], k, data[n + 1]) /\ k \in Keys /\ data[n + 1] \in Item
    BY <1>1, <1>2, <2>1 DEF PutRow
  <2>4. /\ \A j \in 1 .. n : IsLast(n, j) => Has(n, j)
        /\ Different => All(n)
    BY <1>5
  <2>5. HasKey(m[n], k) <=> \E j \in 1 .. L : m[n][j].key = k
    BY <2>2 DEF HasKey
  <2> HIDE DEF T, k, IsLast
  <2>a. /\ HasKey(m[n], k) =>
              /\ Len(m[n + 1]) = L
              /\ \A i \in 1 .. L :
                    /\ m[n + 1][i].key = m[n][i].key
                    /\ m[n + 1][i].value = IF m[n][i].key = k THEN data[n + 1] ELSE m[n][i].value
        /\ ~HasKey(m[n], k) =>
              /\ Len(m[n + 1]) = L + 1
              /\ \A i \in 1 .. L : m[n + 1][i] = m[n][i]
              /\ m[n + 1][L + 1].key = k /\ m[n + 1][L + 1].value = data[n + 1]
    <3> DEFINE V == Item
               map == m[n]
               v == data[n + 1]
    <3>1. map \in Seq(Entry(V)) /\ k \in Keys /\ v \in V
      BY <2>2, <2>3
    <3> HIDE DEF V, map, v
    <3>2. /\ HasKey(map, k) =>
                /\ Len(MapSet(map, k, v)) = Len(map)
                /\ \A i \in 1 .. Len(map) :
                      /\ MapSet(map, k, v)[i].key = map[i].key
                      /\ MapSet(map, k, v)[i].value = IF map[i].key = k THEN v ELSE map[i].value
          /\ ~HasKey(map, k) =>
                /\ Len(MapSet(map, k, v)) = Len(map) + 1
                /\ \A i \in 1 .. Len(map) : MapSet(map, k, v)[i] = map[i]
                /\ MapSet(map, k, v)[Len(map) + 1].key = k
                /\ MapSet(map, k, v)[Len(map) + 1].value = v
      BY <3>1, MapSetFacts
    <3> QED  BY <2>3, <3>2 DEF map, v
  <2>6. Has(n + 1, n + 1)
    <3>1. CASE HasKey(m[n], k)
      <4>1. PICK i \in 1 .. L : m[n][i].key = k
        BY <2>5, <3>1
      <4>2. i \in 1 .. Len(m[n + 1]) /\ m[n + 1][i].key = k /\ m[n + 1][i].value = data[n + 1]
        BY <2>a, <3>1, <4>1
      <4> QED  BY <4>2 DEF k
    <3>2. CASE ~HasKey(m[n], k)
      <4>1. /\ Len(m[n + 1]) = L + 1 /\ m[n + 1][L + 1].key = k
            /\ m[n + 1][L + 1].value = data[n + 1]
        BY <2>a, <3>2
      <4>2. L + 1 \in 1 .. Len(m[n + 1])
        BY <2>2, <4>1
      <4> QED  BY <4>1, <4>2 DEF k
    <3> QED  BY <3>1, <3>2
  <2>7. ASSUME NEW j \in 1 .. n, IsLast(n + 1, j)
        PROVE  Has(n + 1, j)
    <3>1. data[j].key # k
      BY <2>1, <2>7 DEF IsLast, k
    <3>2. IsLast(n, j)
      BY <2>1, <2>7 DEF IsLast
    <3>3. PICK i \in 1 .. L : m[n][i].key = data[j].key /\ m[n][i].value = data[j]
      BY <2>4, <3>2
    <3>4. i \in 1 .. Len(m[n + 1]) /\ m[n + 1][i].key = data[j].key /\ m[n + 1][i].value = data[j]
      <4>1. CASE HasKey(m[n], k)
        BY <2>a, <3>1, <3>3, <4>1
      <4>2. CASE ~HasKey(m[n], k)
        <5>1. Len(m[n + 1]) = L + 1 /\ \A x \in 1 .. L : m[n + 1][x] = m[n][x]
          BY <2>a, <4>2
        <5>2. i \in 1 .. L + 1
          BY <2>2, <3>3
        <5> QED  BY <3>3, <5>1, <5>2
      <4> QED  BY <4>1, <4>2
    <3> QED  BY <3>4
  <2>8. ASSUME Different
        PROVE  All(n + 1)
    <3>1. ~HasKey(m[n], k)
      <4>1. \A i \in 1 .. n : data[i].key # k
        <5>1. \A i \in 1 .. n : i \in 1 .. N /\ i # n + 1
          BY <1>2, <2>1
        <5> QED  BY <2>1, <2>8, <5>1 DEF k
      <4> QED  BY <1>3, <2>5, <4>1
    <3>2. /\ Len(m[n + 1]) = L + 1 /\ \A i \in 1 .. L : m[n + 1][i] = m[n][i]
          /\ m[n + 1][L + 1].value = data[n + 1]
      BY <2>a, <3>1
    <3>3. L = n /\ \A i \in 1 .. n : m[n][i].value = data[i]
      BY <2>4, <2>8
    <3>4. \A i \in 1 .. n + 1 : i \in 1 .. n \/ i = n + 1
      BY <2>1
    <3> HIDE DEF L
    <3> QED  BY <3>2, <3>3, <3>4
  <2> HIDE DEF Has, All
  <2>9. \A j \in 1 .. n + 1 : j \in 1 .. n \/ j = n + 1
    BY <2>1
  <2> QED  BY <2>1, <2>6, <2>7, <2>8, <2>9 DEF T
<1>6. N \in T
  <2> HIDE DEF T
  <2>1. 0 .. N \subseteq T
    BY <1>2, <1>4, <1>5, IntervalInduction
  <2> QED  BY <1>2, <2>1
<1> DEFINE map == ArrayToMap(data)
<1>7. map = m[N] /\ map \in Seq(Entry(Item)) /\ DOMAIN map = 1 .. Len(map)
  <2>1. N \in 0 .. N
    BY <1>2
  <2>2. m[N] \in Seq(Entry(Item))
    BY <1>1, <2>1
  <2> QED  BY <1>1, <2>2
<1> HIDE DEF map
<1>8. \A j, k \in DOMAIN map : map[j].key = map[k].key => j = k
  <2>1. N \in 0 .. N
    BY <1>2
  <2> HIDE DEF T
  <2> QED  BY <1>3, <1>7, <2>1
<1>9. ASSUME NEW j \in DOMAIN data, \A k \in j + 1 .. N : data[k].key # data[j].key
      PROVE  MapGet(map, data[j].key) = data[j]
  <2>1. PICK i \in 1 .. Len(map) : map[i].key = data[j].key /\ map[i].value = data[j]
    <3> HIDE DEF Has, All
    <3>1. j \in 1 .. N /\ IsLast(N, j)
      BY <1>2, <1>9
    <3> HIDE DEF IsLast
    <3>2. Has(N, j)
      BY <1>6, <3>1
    <3> QED  BY <1>7, <3>2 DEF Has
  <2>2. HasKey(map, data[j].key)
    BY <1>7, <2>1 DEF HasKey
  <2>3. PICK x \in 1 .. Len(map) :
           map[x].key = data[j].key /\ MapGet(map, data[j].key) = map[x].value
    BY <1>7, <2>2, MapGetFacts
  <2>4. x = i
    BY <1>7, <1>8, <2>1, <2>3
  <2> QED  BY <2>1, <2>3, <2>4
<1>10. ASSUME Different
       PROVE  MapToArray(map) = data
  <2>1. Len(map) = N /\ \A i \in 1 .. N : map[i].value = data[i]
    BY <1>6, <1>7, <1>10
  <2>2. MapToArray(map) = [i \in 1 .. N |-> data[i]]
    BY <1>7, <2>1 DEF MapToArray
  <2>3. data = [i \in 1 .. N |-> data[i]]
    BY <1>2
  <2> QED  BY <2>2, <2>3
<1> QED  BY <1>2, <1>7, <1>8, <1>9, <1>10 DEF N, map

\* The lists that the loop of Filter goes through.
FilterRuns(S, list, kept) ==
    {ret \in [0 .. Len(list) -> Seq(S)] :
        /\ ret[0] = <<>>
        /\ \A n \in 1 .. Len(list) :
              ret[n] = IF list[n] \in kept THEN Append(ret[n - 1], list[n]) ELSE ret[n - 1]
        /\ Filter(list, kept) = ret[Len(list)]}

LEMMA FilterRunsExist ==
    ASSUME NEW S, NEW list \in Seq(S), NEW kept
    PROVE  FilterRuns(S, list, kept) # {}
<1> DEFINE N == Len(list)
<1>1. PICK ret \in LoopFns(N, Seq(S), <<>>, FilterStep(S, list, kept)) : Filter(list, kept) = ret[N]
  BY FilterSteps
<1>2. N \in Nat /\ DOMAIN list = 1 .. N
  OBVIOUS
<1>3. /\ ret \in [0 .. N -> Seq(S)] /\ ret[0] = <<>>
      /\ \A n \in 1 .. N : ret[n] = FilterStep(S, list, kept)[<<n, ret[n - 1]>>]
  BY <1>1 DEF LoopFns
<1>4. \A n \in 1 .. N : <<n, ret[n - 1]>> \in (1 .. N) \X Seq(S)
  <2> HIDE DEF N
  <2> QED  BY <1>2, <1>3
<1>5. \A n \in 1 .. N : FilterStep(S, list, kept)[<<n, ret[n - 1]>>]
             = IF list[n] \in kept THEN Append(ret[n - 1], list[n]) ELSE ret[n - 1]
  BY <1>4 DEF FilterStep
<1>6. ret \in FilterRuns(S, list, kept)
  BY <1>1, <1>3, <1>5 DEF FilterRuns
<1> QED  BY <1>6

\* Filtering a map and taking its values is filtering its values.
LEMMA ValuesOfFilteredMap ==
    ASSUME NEW map \in Seq(Entry(Item)), NEW own
    PROVE  MapToArray(FilterMap(map, own)) = Filter(MapToArray(map), own)
<1> DEFINE N == Len(map)
           E == Entry(Item)
           entries == {entry \in ToSet(map) : entry.value \in own}
           items == MapToArray(map)
<1>1. N \in Nat /\ DOMAIN map = 1 .. N /\ \A n \in 1 .. N : map[n] \in E
  OBVIOUS
<1>2. \A x \in E : x.value \in Item
  BY DEF Entry
<1>3. items = [n \in 1 .. N |-> map[n].value] /\ items \in Seq(Item) /\ Len(items) = N
  <2>1. items = [n \in 1 .. N |-> map[n].value]
    BY <1>1 DEF MapToArray
  <2> HIDE DEF E, items, N
  <2> QED  BY <1>1, <1>2, <2>1
<1>4. \A n \in 1 .. N : map[n] \in entries <=> items[n] \in own
  <2>1. \A n \in 1 .. N : map[n] \in ToSet(map)
    BY <1>1 DEF ToSet
  <2> HIDE DEF items, N
  <2> QED  BY <1>3, <2>1
<1>5. PICK r \in FilterRuns(E, map, entries) : TRUE
  <2> HIDE DEF E, entries
  <2>1. map \in Seq(E)
    BY DEF E
  <2>2. FilterRuns(E, map, entries) # {}
    BY <2>1, FilterRunsExist
  <2> QED  BY <2>2
<1>6. PICK q \in FilterRuns(Item, items, own) : TRUE
  <2> HIDE DEF items
  <2>1. FilterRuns(Item, items, own) # {}
    BY <1>3, FilterRunsExist
  <2> QED  BY <2>1
<1>7. /\ r \in [0 .. N -> Seq(E)] /\ r[0] = <<>> /\ Filter(map, entries) = r[N]
      /\ \A n \in 1 .. N : r[n] = IF map[n] \in entries THEN Append(r[n - 1], map[n]) ELSE r[n - 1]
  <2> HIDE DEF E, entries
  <2> QED  BY <1>5 DEF FilterRuns
<1>8. /\ q \in [0 .. N -> Seq(Item)] /\ q[0] = <<>> /\ Filter(items, own) = q[N]
      /\ \A n \in 1 .. N : q[n] = IF items[n] \in own THEN Append(q[n - 1], items[n]) ELSE q[n - 1]
  <2> HIDE DEF items, N
  <2> QED  BY <1>3, <1>6 DEF FilterRuns
<1> HIDE DEF N, E, entries, items
<1> DEFINE Same(n) == Len(r[n]) = Len(q[n]) /\ \A i \in 1 .. Len(q[n]) : r[n][i].value = q[n][i]
           T == {n \in 0 .. N : Same(n)}
<1>9. 0 \in T
  <2>1. 0 \in 0 .. N /\ 1 .. 0 = {} /\ Len(q[0]) = 0 /\ Len(r[0]) = 0
    BY <1>1, <1>7, <1>8
  <2> QED  BY <2>1
<1>10. ASSUME NEW n \in 0 .. N, n \in T, n < N
       PROVE  n + 1 \in T
  <2>1. n + 1 \in 1 .. N /\ (n + 1) - 1 = n /\ n + 1 \in 0 .. N
    BY <1>1, <1>10
  <2>2. /\ r[n] \in Seq(E) /\ q[n] \in Seq(Item) /\ map[n + 1] \in E /\ items[n + 1] \in Item
        /\ items[n + 1] = map[n + 1].value
    BY <1>1, <1>2, <1>3, <1>7, <1>8, <2>1
  <2>3. Same(n)
    BY <1>10
  <2>4. CASE items[n + 1] \in own
    <3>1. r[n + 1] = Append(r[n], map[n + 1]) /\ q[n + 1] = Append(q[n], items[n + 1])
      BY <1>4, <1>7, <1>8, <2>1, <2>4
    <3>2. Len(r[n + 1]) = Len(r[n]) + 1 /\ Len(q[n + 1]) = Len(q[n]) + 1
      BY <2>2, <3>1
    <3>3. ASSUME NEW i \in 1 .. Len(q[n]) + 1
          PROVE  r[n + 1][i].value = q[n + 1][i]
      <4>1. CASE i \in 1 .. Len(q[n])
        <5>1. r[n + 1][i] = r[n][i] /\ q[n + 1][i] = q[n][i]
          BY <2>2, <2>3, <3>1, <4>1
        <5> QED  BY <2>3, <4>1, <5>1
      <4>2. CASE i = Len(q[n]) + 1
        BY <2>2, <2>3, <3>1, <4>2
      <4>3. i \in 1 .. Len(q[n]) \/ i = Len(q[n]) + 1
        BY <2>2
      <4> QED  BY <4>1, <4>2, <4>3
    <3> QED  BY <2>1, <2>3, <3>2, <3>3
  <2>5. CASE items[n + 1] \notin own
    <3>1. r[n + 1] = r[n] /\ q[n + 1] = q[n]
      BY <1>4, <1>7, <1>8, <2>1, <2>5
    <3> QED  BY <2>1, <2>3, <3>1
  <2> QED  BY <2>4, <2>5
<1>11. N \in T
  <2> HIDE DEF T
  <2>1. 0 .. N \subseteq T
    BY <1>1, <1>9, <1>10, IntervalInduction
  <2> QED  BY <1>1, <2>1
<1>12. r[N] \in Seq(E) /\ q[N] \in Seq(Item)
  BY <1>1, <1>7, <1>8
<1>13. MapToArray(r[N]) = q[N]
  <2>1. MapToArray(r[N]) = [i \in 1 .. Len(q[N]) |-> q[N][i]]
    BY <1>11, <1>12 DEF MapToArray
  <2> QED  BY <1>12, <2>1
<1>14. FilterMap(map, own) = r[N]
  BY <1>7 DEF FilterMap, entries
<1> QED  BY <1>8, <1>13, <1>14 DEF items

\* The rows of a key.
RowsOf(data, k) == {item \in ToSet(data) : item.key = k}

\* The groups of some rows: the keys, each once, and the rows of each key in their order.
LEMMA GroupFacts ==
    ASSUME NEW data \in Seq(Item)
    PROVE  LET groups == SortArrayItemsByProperty(data)
           IN /\ groups \in Seq(Entry(Seq(Item)))
              /\ \A j, k \in DOMAIN groups : groups[j].key = groups[k].key => j = k
              /\ {groups[g].key : g \in DOMAIN groups} = {item.key : item \in ToSet(data)}
              /\ \A g \in DOMAIN groups : groups[g].value = Filter(data, RowsOf(data, groups[g].key))
<1> DEFINE N == Len(data)
           V == Seq(Item)
           E == Entry(V)
           groups == SortArrayItemsByProperty(data)
<1>1. PICK m \in [0 .. N -> Seq(E)] :
         /\ m[0] = <<>>
         /\ \A n \in 1 .. N : m[n] = PutInGroup(m[n - 1], data[n])
         /\ groups = m[N]
  BY GroupSteps
<1>2. N \in Nat /\ DOMAIN data = 1 .. N /\ \A n \in 1 .. N : data[n] \in Item /\ data[n].key \in Keys
  BY RowsHaveKeys
<1> DEFINE v == [n \in 1 .. N |-> Append(GroupOf(m[n - 1], data[n].key), data[n])]
<1>3. \A n \in 1 .. N : m[n - 1] \in Seq(E) /\ v[n] \in V /\ m[n] = MapSet(m[n - 1], data[n].key, v[n])
  <2> SUFFICES ASSUME NEW n \in 1 .. N
               PROVE  m[n - 1] \in Seq(E) /\ v[n] \in V /\ m[n] = MapSet(m[n - 1], data[n].key, v[n])
    OBVIOUS
  <2>1. n - 1 \in 0 .. N /\ data[n] \in Item
    BY <1>2
  <2>2. m[n - 1] \in Seq(Entry(Seq(Item)))
    BY <1>1, <2>1
  <2>3. GroupOf(m[n - 1], data[n].key) \in Seq(Item)
    BY <2>1, <2>2, PutInGroupType
  <2>4. v[n] = Append(GroupOf(m[n - 1], data[n].key), data[n])
    OBVIOUS
  <2> HIDE DEF v
  <2> QED  BY <1>1, <2>1, <2>2, <2>3, <2>4 DEF PutInGroup
<1>4. v \in [1 .. N -> V]
  BY <1>3
<1>5. \A n \in 1 .. N : v[n] = Append(GroupOf(m[n - 1], data[n].key), data[n])
  OBVIOUS
<1> HIDE DEF v
<1>6. \A n \in 0 .. N :
         /\ \A i, j \in 1 .. Len(m[n]) : m[n][i].key = m[n][j].key => i = j
         /\ \A k : (\E j \in 1 .. Len(m[n]) : m[n][j].key = k) <=> \E i \in 1 .. n : data[i].key = k
  <2>1. Fills(m, v, data)
    BY <1>1, <1>3 DEF Fills
  <2>2. /\ data \in Seq(Item)
        /\ m \in [0 .. Len(data) -> Seq(Entry(V))]
        /\ v \in [1 .. Len(data) -> V]
    BY <1>1, <1>4
  <2> HIDE DEF V
  <2>3. HasTheKeys(m, data)
    BY <2>1, <2>2, KeysOfMaps
  <2> QED  BY <2>3 DEF HasTheKeys
<1>7. \A n \in 1 .. N, k \in Keys : data[n] \in RowsOf(data, k) <=> data[n].key = k
  BY <1>2 DEF RowsOf, ToSet
<1> DEFINE F == [k \in Keys |-> CHOOSE ret \in FilterRuns(Item, data, RowsOf(data, k)) : TRUE]
<1>8. ASSUME NEW k \in Keys
      PROVE  /\ F[k] \in [0 .. N -> Seq(Item)] /\ F[k][0] = <<>>
             /\ Filter(data, RowsOf(data, k)) = F[k][N]
             /\ \A n \in 1 .. N :
                   F[k][n] = IF data[n].key = k THEN Append(F[k][n - 1], data[n]) ELSE F[k][n - 1]
  <2>1. FilterRuns(Item, data, RowsOf(data, k)) # {}
    BY FilterRunsExist
  <2>2. F[k] \in FilterRuns(Item, data, RowsOf(data, k))
    BY <2>1
  <2> HIDE DEF F
  <2>3. /\ F[k] \in [0 .. N -> Seq(Item)] /\ F[k][0] = <<>>
        /\ Filter(data, RowsOf(data, k)) = F[k][N]
        /\ \A n \in 1 .. N : F[k][n] = IF data[n] \in RowsOf(data, k)
                                         THEN Append(F[k][n - 1], data[n]) ELSE F[k][n - 1]
    BY <2>2 DEF FilterRuns
  <2> QED  BY <1>7, <2>3
<1> HIDE DEF F, N
<1> DEFINE Grouped(n) == \A g \in 1 .. Len(m[n]) : m[n][g].value = F[m[n][g].key][n]
           Empty(n) == \A k \in Keys : (\A i \in 1 .. n : data[i].key # k) => F[k][n] = <<>>
           T == {n \in 0 .. N : Grouped(n) /\ Empty(n)}
<1>9. 0 \in T
  <2>1. 0 \in 0 .. N /\ 1 .. 0 = {} /\ Len(m[0]) = 0
    BY <1>1, <1>2
  <2>2. \A k \in Keys : F[k][0] = <<>>
    BY <1>8
  <2> QED  BY <2>1, <2>2
<1>10. ASSUME NEW n \in 0 .. N, n \in T, n < N
       PROVE  n + 1 \in T
  <2> DEFINE L == Len(m[n])
             k == data[n + 1].key
  <2>1. n + 1 \in 1 .. N /\ (n + 1) - 1 = n /\ n + 1 \in 0 .. N /\ n \in Nat
    BY <1>2, <1>10
  <2>2. m[n] \in Seq(E) /\ L \in Nat
    BY <1>1, <2>1
  <2>3. m[n + 1] = MapSet(m[n], k, v[n + 1]) /\ k \in Keys /\ v[n + 1] \in V
    BY <1>2, <1>3, <2>1
  <2>4. Grouped(n) /\ Empty(n)
    BY <1>10
  <2>5. HasKey(m[n], k) <=> \E j \in 1 .. L : m[n][j].key = k
    BY <2>2 DEF HasKey
  <2> HIDE DEF T, k
  <2>6. /\ F[k][n + 1] = Append(F[k][n], data[n + 1])
        /\ \A x \in Keys : x # k => F[x][n + 1] = F[x][n]
    <3>1. \A x \in Keys : F[x][n + 1] = IF data[n + 1].key = x THEN Append(F[x][n], data[n + 1])
                                        ELSE F[x][n]
      <4> TAKE x \in Keys
      <4>1. \A i \in 1 .. N : F[x][i] = IF data[i].key = x THEN Append(F[x][i - 1], data[i]) ELSE F[x][i - 1]
        BY <1>8
      <4>2. F[x][n + 1] = IF data[n + 1].key = x THEN Append(F[x][(n + 1) - 1], data[n + 1])
                          ELSE F[x][(n + 1) - 1]
        BY <2>1, <4>1, Zenon
      <4> QED  BY <2>1, <4>2, Zenon
    <3>2. F[k][n + 1] = IF data[n + 1].key = k THEN Append(F[k][n], data[n + 1]) ELSE F[k][n]
      BY <2>3, <3>1, Zenon
    <3> QED  BY <3>1, <3>2 DEF k
  <2>7. GroupOf(m[n], k) = F[k][n]
    <3>1. CASE HasKey(m[n], k)
      <4> HIDE DEF V, E
      <4>1. PICK i \in 1 .. L : m[n][i].key = k /\ MapGet(m[n], k) = m[n][i].value
        BY <2>2, <3>1, MapGetFacts DEF E
      <4> QED  BY <2>4, <3>1, <4>1 DEF GroupOf
    <3>2. CASE ~HasKey(m[n], k)
      <4>1. (\E j \in 1 .. L : m[n][j].key = k) <=> \E i \in 1 .. n : data[i].key = k
        BY <1>6, Zenon
      <4>2. \A i \in 1 .. n : data[i].key # k
        BY <2>5, <3>2, <4>1
      <4> QED  BY <2>3, <2>4, <3>2, <4>2 DEF GroupOf
    <3> QED  BY <3>1, <3>2
  <2>8. v[n + 1] = F[k][n + 1]
    BY <1>5, <2>1, <2>6, <2>7 DEF k
  <2>9. /\ HasKey(m[n], k) =>
              /\ Len(m[n + 1]) = L
              /\ \A i \in 1 .. L :
                    /\ m[n + 1][i].key = m[n][i].key
                    /\ m[n + 1][i].value = IF m[n][i].key = k THEN v[n + 1] ELSE m[n][i].value
        /\ ~HasKey(m[n], k) =>
              /\ Len(m[n + 1]) = L + 1
              /\ \A i \in 1 .. L : m[n + 1][i] = m[n][i]
              /\ m[n + 1][L + 1].key = k /\ m[n + 1][L + 1].value = v[n + 1]
    <3> DEFINE map == m[n]
               w == v[n + 1]
    <3>1. map \in Seq(Entry(V)) /\ k \in Keys /\ w \in V
      BY <2>2, <2>3
    <3> HIDE DEF V, map, w
    <3>2. /\ HasKey(map, k) =>
                /\ Len(MapSet(map, k, w)) = Len(map)
                /\ \A i \in 1 .. Len(map) :
                      /\ MapSet(map, k, w)[i].key = map[i].key
                      /\ MapSet(map, k, w)[i].value = IF map[i].key = k THEN w ELSE map[i].value
          /\ ~HasKey(map, k) =>
                /\ Len(MapSet(map, k, w)) = Len(map) + 1
                /\ \A i \in 1 .. Len(map) : MapSet(map, k, w)[i] = map[i]
                /\ MapSet(map, k, w)[Len(map) + 1].key = k
                /\ MapSet(map, k, w)[Len(map) + 1].value = w
      BY <3>1, MapSetFacts
    <3> QED  BY <2>3, <3>2 DEF map, w
  <2>10. \A i \in 1 .. L : m[n][i].key \in Keys
    <3>1. \A i \in 1 .. L : m[n][i] \in E
      <4> HIDE DEF E
      <4> QED  BY <2>2
    <3> HIDE DEF V, L
    <3> QED  BY <3>1 DEF E, Entry
  <2>11. Grouped(n + 1)
    <3>1. ASSUME NEW g \in 1 .. Len(m[n + 1])
          PROVE  m[n + 1][g].value = F[m[n + 1][g].key][n + 1]
      <4>1. CASE HasKey(m[n], k)
        <5>1. g \in 1 .. L
          BY <2>9, <4>1
        <5>2. /\ m[n + 1][g].key = m[n][g].key
              /\ m[n + 1][g].value = IF m[n][g].key = k THEN v[n + 1] ELSE m[n][g].value
          BY <2>9, <4>1, <5>1
        <5>3. m[n][g].value = F[m[n][g].key][n] /\ m[n][g].key \in Keys
          BY <2>4, <2>10, <5>1
        <5> QED  BY <2>6, <2>8, <5>2, <5>3
      <4>2. CASE ~HasKey(m[n], k)
        <5>1. g \in 1 .. L \/ g = L + 1
          BY <2>2, <2>9, <4>2
        <5>2. CASE g \in 1 .. L
          <6>1. m[n + 1][g] = m[n][g] /\ m[n][g].key # k
            BY <2>5, <2>9, <4>2, <5>2
          <6> QED  BY <2>4, <2>6, <2>10, <5>2, <6>1
        <5>3. CASE g = L + 1
          BY <2>8, <2>9, <4>2, <5>3
        <5> QED  BY <5>1, <5>2, <5>3
      <4> QED  BY <4>1, <4>2
    <3> QED  BY <3>1
  <2>12. Empty(n + 1)
    <3>1. ASSUME NEW x \in Keys, \A i \in 1 .. n + 1 : data[i].key # x
          PROVE  F[x][n + 1] = <<>>
      <4>1. n + 1 \in 1 .. n + 1 /\ 1 .. n \subseteq 1 .. n + 1
        BY <2>1
      <4>2. x # k /\ \A i \in 1 .. n : data[i].key # x
        BY <3>1, <4>1 DEF k
      <4> QED  BY <2>4, <2>6, <4>2
    <3> QED  BY <3>1
  <2> HIDE DEF Grouped, Empty
  <2> QED  BY <2>1, <2>11, <2>12 DEF T
<1>11. N \in 0 .. N /\ N \in T
  <2> HIDE DEF T
  <2>1. 0 .. N \subseteq T
    BY <1>2, <1>9, <1>10, IntervalInduction
  <2> QED  BY <1>2, <2>1
<1>12. groups = m[N] /\ groups \in Seq(E) /\ DOMAIN groups = 1 .. Len(groups)
  <2>1. m[N] \in Seq(E)
    BY <1>1, <1>11
  <2> QED  BY <1>1, <2>1
<1> HIDE DEF groups
<1>13. \A j, k \in DOMAIN groups : groups[j].key = groups[k].key => j = k
  <2> HIDE DEF T
  <2> QED  BY <1>6, <1>11, <1>12
<1>14. {groups[g].key : g \in DOMAIN groups} = {item.key : item \in ToSet(data)}
  <2>1. \A k : (\E g \in DOMAIN groups : groups[g].key = k) <=> \E i \in 1 .. N : data[i].key = k
    <3> HIDE DEF T
    <3> TAKE k
    <3>1. (\E j \in 1 .. Len(m[N]) : m[N][j].key = k) <=> \E i \in 1 .. N : data[i].key = k
      BY <1>6, <1>11, Zenon
    <3> QED  BY <1>12, <3>1
  <2>2. \A k : (\E item \in ToSet(data) : item.key = k) <=> \E i \in 1 .. N : data[i].key = k
    BY <1>2 DEF ToSet
  <2> QED  BY <2>1, <2>2
<1>15. ASSUME NEW g \in DOMAIN groups
       PROVE  groups[g].value = Filter(data, RowsOf(data, groups[g].key))
  <2>1. groups[g].value = F[groups[g].key][N]
    BY <1>11, <1>12
  <2>2. groups[g].key \in Keys
    <3>1. groups[g] \in E
      <4> HIDE DEF E
      <4> QED  BY <1>12
    <3> HIDE DEF V
    <3> QED  BY <3>1 DEF Entry
  <2> QED  BY <1>8, <2>1, <2>2
<1> QED  BY <1>12, <1>13, <1>14, <1>15 DEF groups

LEMMA RowsKept ==
    ASSUME NEW i \in ListInput
    PROVE  KeepsItems(i)
<1> DEFINE data == i.data
           map == ArrayToMap(data)
           groups == SortArrayItemsByProperty(data)
           own == {item \in ToSet(data) : item.owner = 1}
<1>1. data \in Seq(Item)
  <2>1. data \in BoundedSeq(Item, MaxRows)
    BY DEF ListInput
  <2> HIDE DEF data
  <2> QED  BY <2>1, ListBounds DEF BoundedSeq, SeqOf
<1>2. DOMAIN data = 1 .. Len(data)
  BY <1>1
<1> HIDE DEF data
<1>3. /\ map \in Seq(Entry(Item))
      /\ \A j, k \in DOMAIN map : map[j].key = map[k].key => j = k
      /\ \A j \in DOMAIN data :
            (\A k \in j + 1 .. Len(data) : data[k].key # data[j].key) => MapGet(map, data[j].key) = data[j]
      /\ (\A j, k \in DOMAIN data : data[j].key = data[k].key => j = k) => MapToArray(map) = data
  BY <1>1, MapFacts
<1>4. MapToArray(FilterMap(map, own)) = Filter(MapToArray(map), own)
  <2> HIDE DEF map, own
  <2> QED  BY <1>3, ValuesOfFilteredMap
<1>5. /\ \A j, k \in DOMAIN groups : groups[j].key = groups[k].key => j = k
      /\ {groups[g].key : g \in DOMAIN groups} = {item.key : item \in ToSet(data)}
      /\ \A g \in DOMAIN groups : groups[g].value = Filter(data, RowsOf(data, groups[g].key))
  BY <1>1, GroupFacts
<1> QED  BY <1>3, <1>4, <1>5 DEF KeepsItems, RowsOf, data

\* An application variable means the same in .env, the table and a request, and after it
\* was set and read again (initVariables, setVariable, the typed getters); a transform
\* leaves what it gave alone (transform.decorator.ts); a trace that passes takes its data with it, and
\* maps of rows lose nothing (array-utils.ts), for any words, texts and lists of any length.
THEOREM ValuesKeepMeaning == Spec => []ValuesKeepTheirMeaning
<1>1. Init => ValuesKeepTheirMeaning
  <2> SUFFICES ASSUME Init
               PROVE  ValuesKeepTheirMeaning
    OBVIOUS
  <2>1. input.of = "load" => LoadsAValue(input)
    BY InputsOfAKind, LoadsValues
  <2>2. input.of = "set" => SetsAValue(input)
    BY InputsOfAKind, SetsValues
  <2>3. input.of = "transform" => Settles(input)
    BY InputsOfAKind, TransformsSettle
  <2>4. input.of = "trace" => TracesWithItsData(input)
    BY InputsOfAKind, TracesData
  <2>5. input.of = "list" => KeepsItems(input)
    BY InputsOfAKind, RowsKept
  <2> QED  BY <2>1, <2>2, <2>3, <2>4, <2>5 DEF ValuesKeepTheirMeaning
<1> QED  BY <1>1, InputIsKept, PTL
=============================================================================
