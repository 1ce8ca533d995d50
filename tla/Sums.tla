---- MODULE Sums ----
(***************************************************************************)
(* Induction over finite sets and over the numbers without an operator as  *)
(* parameter, and what follows from it for SumFunctionOnSet, the sum that  *)
(* the contracts' running totals are compared with in the models; and what *)
(* a list keeps when a record is written or added.                         *)
(***************************************************************************)
EXTENDS Integers, Functions, FiniteSets, FiniteSetTheorems, SequenceTheorems, TLAPS

\* Induction over a finite set. What is to be shown of its subsets is a set P of
\* them and no operator: a subset is in P when all those within it are. Every
\* proof about the sums that the contracts' totals are compared with rests on it.
LEMMA SetInduct ==
  ASSUME NEW D, IsFiniteSet(D), NEW P,
         \A T \in SUBSET D : (\A U \in SUBSET T : U # T => U \in P) => T \in P
  PROVE  D \in P
<1> SUFFICES ASSUME D \notin P PROVE FALSE
  OBVIOUS
<1> DEFINE Bad == {T \in SUBSET D : T \notin P}
           R == StrictSubsetOrdering(D)
<1> HIDE DEF Bad, R
<1>a. IsWellFoundedOn(R, FiniteSubsetsOf(D))
  BY FS_StrictSubsetOrderingWellFounded DEF R
<1>b. FiniteSubsetsOf(D) = SUBSET D
  BY FS_FiniteSubsetsOfFinite
<1>1. IsWellFoundedOn(R, SUBSET D)
  BY <1>a, <1>b
<1>2. Bad \subseteq SUBSET D /\ Bad # {}
  BY DEF Bad
<1>3. PICK T \in Bad : \A U \in Bad : ~(<<U, T>> \in R)
  BY <1>1, <1>2, WFMin
<1>4. \A U \in SUBSET T : U # T => U \in P
  BY <1>3 DEF StrictSubsetOrdering, Bad, R
<1> QED BY <1>4 DEF Bad

\* Induction over the numbers, for what is to be shown of them given as a set.
\* Lists that a message builds element by element are followed with it.
LEMMA NatInduct ==
  ASSUME NEW P, 0 \in P, \A n \in Nat : n \in P => n + 1 \in P, NEW m \in Nat
  PROVE  m \in P
<1> DEFINE Q == {T \in SUBSET (1..m) : \A n \in 0..m : T = 1..n => n \in P}
<1>1. ASSUME NEW T \in SUBSET (1..m), \A U \in SUBSET T : U # T => U \in Q
      PROVE  T \in Q
  <2>1. SUFFICES ASSUME NEW n \in 0..m, T = 1..n PROVE n \in P
    OBVIOUS
  <2>2. CASE n = 0
    BY <2>2
  <2>3. CASE n # 0
    <3>1. n - 1 \in 0..m /\ n - 1 \in Nat
      BY <2>3
    <3>2. 1..(n - 1) \in SUBSET T /\ 1..(n - 1) # T
      BY <2>1, <2>3
    <3>3. n - 1 \in P
      BY <1>1, <3>1, <3>2
    <3>4. n = (n - 1) + 1
      OBVIOUS
    <3> QED
      BY <3>1, <3>3, <3>4
  <2> QED
    BY <2>2, <2>3
<1> HIDE DEF Q
<1>2. IsFiniteSet(1..m)
  BY FS_Interval
<1>3. 1..m \in Q
  <2> DEFINE D == 1..m
  <2>1. IsFiniteSet(D) /\ \A T \in SUBSET D : (\A U \in SUBSET T : U # T => U \in Q) => T \in Q
    BY <1>1, <1>2
  <2> HIDE DEF D
  <2>2. D \in Q
    BY <2>1, SetInduct
  <2> QED
    BY <2>2 DEF D
<1> QED
  BY <1>3 DEF Q

\* The function whose value at S is the sum of f over S (FoldFunctionOnSet).
Iter(f, S, it) == it = [T \in SUBSET S |-> IF T = {} THEN 0 ELSE
          f[CHOOSE x \in T : TRUE] + it[T \ {CHOOSE x \in T : TRUE}]]

\* The sum, as the books of the contracts are summed up in the models, is a value
\* of that function.
LEMMA SumUnfold ==
  ASSUME NEW f, NEW S
  PROVE  SumFunctionOnSet(f, S) = (CHOOSE it : Iter(f, S, it))[S]
BY DEF SumFunctionOnSet, FoldFunctionOnSet, MapThenFoldSet, Iter

\* The function for a set of accounts, proposals or products serves its subsets.
LEMMA IterRestrict ==
  \A f, S, it : \A T \in SUBSET S : Iter(f, S, it) => Iter(f, T, [U \in SUBSET T |-> it[U]])
<1> SUFFICES ASSUME NEW f, NEW S, NEW it, NEW T \in SUBSET S, Iter(f, S, it)
             PROVE  Iter(f, T, [U \in SUBSET T |-> it[U]])
  OBVIOUS
<1> DEFINE h == [U \in SUBSET T |-> it[U]]
<1>1. ASSUME NEW U \in SUBSET T
      PROVE  h[U] = IF U = {} THEN 0 ELSE f[CHOOSE x \in U : TRUE] + h[U \ {CHOOSE x \in U : TRUE}]
  <2>1. U \in SUBSET S /\ U \ {CHOOSE x \in U : TRUE} \in SUBSET T
    OBVIOUS
  <2>2. it[U] = IF U = {} THEN 0 ELSE f[CHOOSE x \in U : TRUE] + it[U \ {CHOOSE x \in U : TRUE}]
    BY <2>1 DEF Iter
  <2> QED BY <2>1, <2>2
<1> QED BY <1>1 DEF Iter

\* There is at most one such function for the finite set a contract has stored.
LEMMA IterUnique ==
  ASSUME NEW f, NEW S, IsFiniteSet(S), NEW g, NEW h, Iter(f, S, g), Iter(f, S, h)
  PROVE  g = h
<1> DEFINE P == {T \in SUBSET S : g[T] = h[T]}
<1>1. ASSUME NEW T \in SUBSET S, \A U \in SUBSET T : U # T => U \in P
      PROVE  T \in P
  <2>1. CASE T = {}
    BY <2>1 DEF Iter
  <2>2. CASE T # {}
    <3> DEFINE c == CHOOSE x \in T : TRUE
    <3>1. c \in T BY <2>2
    <3>2. T \ {c} \in P BY <1>1, <3>1
    <3>3. g[T] = f[c] + g[T \ {c}] BY <2>2 DEF Iter
    <3>4. h[T] = f[c] + h[T \ {c}] BY <2>2 DEF Iter
    <3> QED BY <3>2, <3>3, <3>4
  <2> QED BY <2>1, <2>2
<1>2. ASSUME NEW T \in SUBSET S PROVE g[T] = h[T]
  <2> HIDE DEF P
  <2>1. IsFiniteSet(T) BY FS_Subset
  <2>2. T \in P BY <1>1, <2>1, SetInduct
  <2> QED BY <2>2 DEF P
<1>3. /\ g = [T \in SUBSET S |-> g[T]]
      /\ h = [T \in SUBSET S |-> h[T]]
  BY DEF Iter
<1> QED BY <1>2, <1>3

\* And there is one.
LEMMA IterExists ==
  ASSUME NEW f, NEW S, IsFiniteSet(S)
  PROVE  \E it : Iter(f, S, it)
<1> DEFINE P == {T \in SUBSET S : \E it : Iter(f, T, it)}
<1>1. ASSUME NEW T \in SUBSET S, \A U \in SUBSET T : U # T => U \in P
      PROVE  T \in P
  <2> DEFINE sol(U) == CHOOSE it : Iter(f, U, it)
             c == CHOOSE x \in T : TRUE
             g == [U \in SUBSET T |-> IF U = {} THEN 0 ELSE IF U = T THEN f[c] + sol(T \ {c})[T \ {c}] ELSE sol(U)[U]]
  <2>1. \A U \in SUBSET T : U # T => Iter(f, U, sol(U))
    BY <1>1
  <2>2. \A U \in SUBSET T : IsFiniteSet(U)
    BY FS_Subset
  <2>3. ASSUME NEW U \in SUBSET T, U # {}
        PROVE  g[U] = f[CHOOSE x \in U : TRUE] + g[U \ {CHOOSE x \in U : TRUE}]
    <3> DEFINE d == CHOOSE x \in U : TRUE
               V == U \ {d}
    <3>1. d \in U /\ V \in SUBSET T /\ V # T /\ V \in SUBSET U /\ V # U
      BY <2>3
    <3>2. CASE U = T
      <4>1. g[U] = f[d] + sol(V)[V] BY <3>2, <2>3
      <4>2. g[V] = sol(V)[V]
        <5>1. CASE V = {}
          <6>1. Iter(f, V, sol(V)) BY <2>1, <3>1
          <6>2. sol(V)[V] = 0
            <7> HIDE DEF sol
            <7> QED BY <6>1, <5>1 DEF Iter
          <6>3. g[V] = 0 BY <5>1, <3>1
          <6> QED BY <6>2, <6>3
        <5>2. CASE V # {}
          BY <5>2, <3>1
        <5> QED BY <5>1, <5>2
      <4> QED BY <4>1, <4>2
    <3>3. CASE U # T
      <4>1. Iter(f, U, sol(U)) /\ Iter(f, V, sol(V)) BY <2>1, <3>1, <3>3
      <4>2. g[U] = sol(U)[U] BY <3>3, <2>3
      <4>3. g[V] = sol(V)[V]
        <5>1. CASE V = {}
          <6>1. Iter(f, V, sol(V)) BY <2>1, <3>1
          <6>2. sol(V)[V] = 0
            <7> HIDE DEF sol
            <7> QED BY <6>1, <5>1 DEF Iter
          <6>3. g[V] = 0 BY <5>1, <3>1
          <6> QED BY <6>2, <6>3
        <5>2. CASE V # {}
          BY <5>2, <3>1
        <5> QED BY <5>1, <5>2
      <4>4. sol(U)[U] = f[d] + sol(U)[V] BY <4>1, <2>3 DEF Iter
      <4>5. sol(U)[V] = sol(V)[V]
        <5> HIDE DEF sol, V, d
        <5>1. Iter(f, V, [W \in SUBSET V |-> sol(U)[W]])
          BY <4>1, <3>1, IterRestrict
        <5>2. [W \in SUBSET V |-> sol(U)[W]] = sol(V)
          BY <5>1, <4>1, <2>2, <3>1, IterUnique
        <5> QED BY <5>2
      <4> QED BY <4>2, <4>3, <4>4, <4>5
    <3> QED BY <3>2, <3>3
  <2>4. Iter(f, T, g)
    <3>1. g[{}] = 0
      OBVIOUS
    <3>2. g = [U \in SUBSET T |-> g[U]]
      OBVIOUS
    <3> HIDE DEF g
    <3>3. \A U \in SUBSET T : g[U] = IF U = {} THEN 0 ELSE f[CHOOSE x \in U : TRUE] + g[U \ {CHOOSE x \in U : TRUE}]
      BY <2>3, <3>1
    <3> QED BY <3>2, <3>3 DEF Iter
  <2> QED BY <2>4
<1> HIDE DEF P
<1>2. S \in P BY <1>1, SetInduct
<1> QED BY <1>2 DEF P

\* The sum over a set satisfies the equation that defines it.
LEMMA SumEquation ==
  ASSUME NEW f, NEW S, IsFiniteSet(S)
  PROVE  SumFunctionOnSet(f, S) =
            IF S = {} THEN 0 ELSE LET c == CHOOSE x \in S : TRUE IN f[c] + SumFunctionOnSet(f, S \ {c})
<1> DEFINE it == CHOOSE g : Iter(f, S, g)
           c == CHOOSE x \in S : TRUE
<1>1. Iter(f, S, it) BY IterExists
<1>2. SumFunctionOnSet(f, S) = it[S] BY SumUnfold
<1>3. CASE S = {}
  BY <1>1, <1>2, <1>3 DEF Iter
<1>4. CASE S # {}
  <2> DEFINE T == S \ {c}
             jt == CHOOSE g : Iter(f, T, g)
  <2>1. IsFiniteSet(T) /\ T \in SUBSET S BY FS_RemoveElement
  <2>2. Iter(f, T, jt) BY <2>1, IterExists
  <2>3. SumFunctionOnSet(f, T) = jt[T] BY SumUnfold
  <2> HIDE DEF it, jt
  <2>4. [U \in SUBSET T |-> it[U]] = jt
    <3> HIDE DEF T
    <3>1. Iter(f, T, [U \in SUBSET T |-> it[U]]) BY <1>1, <2>1, IterRestrict
    <3> QED BY <3>1, <2>1, <2>2, IterUnique
  <2>5. jt[T] = it[T] BY <2>4
  <2>6. it[S] = f[c] + it[T] BY <1>1, <1>4 DEF Iter
  <2> QED BY <1>2, <1>4, <2>3, <2>5, <2>6
<1> QED BY <1>3, <1>4

\* Nothing is stored at first, and sums to 0.
LEMMA SumEmpty == \A f : SumFunctionOnSet(f, {}) = 0
BY SumEquation, FS_EmptySet

\* Integers, such as balances, sum to an integer.
LEMMA SumType ==
  ASSUME NEW f, NEW S, IsFiniteSet(S), \A x \in S : f[x] \in Int
  PROVE  SumFunctionOnSet(f, S) \in Int
<1> DEFINE P == {T \in SUBSET S : SumFunctionOnSet(f, T) \in Int}
<1>1. ASSUME NEW T \in SUBSET S, \A U \in SUBSET T : U # T => U \in P
      PROVE  T \in P
  <2>1. CASE T = {} BY <2>1, SumEmpty
  <2>2. CASE T # {}
    <3> DEFINE c == CHOOSE x \in T : TRUE
    <3>1. c \in T /\ f[c] \in Int /\ IsFiniteSet(T) BY <2>2, FS_Subset
    <3>2. T \ {c} \in P BY <1>1, <3>1
    <3>3. SumFunctionOnSet(f, T) = f[c] + SumFunctionOnSet(f, T \ {c})
      BY <2>2, <3>1, SumEquation
    <3> QED BY <3>1, <3>2, <3>3
  <2> QED BY <2>1, <2>2
<1> HIDE DEF P
<1>2. S \in P BY <1>1, SetInduct
<1> QED BY <1>2 DEF P

\* Any member can be taken out of the sum, not only the one that is chosen first:
\* the totals of the contracts do not depend on the order of their maps.
LEMMA SumRemove ==
  ASSUME NEW f, NEW S, IsFiniteSet(S), \A x \in S : f[x] \in Int, NEW y \in S
  PROVE  SumFunctionOnSet(f, S) = f[y] + SumFunctionOnSet(f, S \ {y})
<1> DEFINE P == {T \in SUBSET S : \A x \in T : SumFunctionOnSet(f, T) = f[x] + SumFunctionOnSet(f, T \ {x})}
<1>1. ASSUME NEW T \in SUBSET S, \A U \in SUBSET T : U # T => U \in P
      PROVE  T \in P
  <2>1. SUFFICES ASSUME NEW x \in T
                 PROVE  SumFunctionOnSet(f, T) = f[x] + SumFunctionOnSet(f, T \ {x})
    OBVIOUS
  <2> DEFINE c == CHOOSE z \in T : TRUE
  <2>2. c \in T /\ T # {} OBVIOUS
  <2>3. IsFiniteSet(T) /\ IsFiniteSet(T \ {c}) /\ IsFiniteSet((T \ {c}) \ {x}) BY FS_Subset
  <2>4. SumFunctionOnSet(f, T) = f[c] + SumFunctionOnSet(f, T \ {c}) BY <2>2, <2>3, SumEquation
  <2> HIDE DEF c
  <2>5. CASE x = c BY <2>4, <2>5
  <2>6. CASE x # c
    <3>1. T \ {c} \in P /\ T \ {x} \in P BY <1>1, <2>2
    <3>2. SumFunctionOnSet(f, T \ {c}) = f[x] + SumFunctionOnSet(f, (T \ {c}) \ {x}) BY <3>1, <2>6
    <3>3. SumFunctionOnSet(f, T \ {x}) = f[c] + SumFunctionOnSet(f, (T \ {x}) \ {c}) BY <3>1, <2>2, <2>6
    <3>4. (T \ {c}) \ {x} = (T \ {x}) \ {c} OBVIOUS
    <3>5. f[c] \in Int /\ f[x] \in Int BY <2>2
    <3>6. SumFunctionOnSet(f, (T \ {c}) \ {x}) \in Int BY <2>3, SumType
    <3>7. SumFunctionOnSet(f, T \ {x}) = f[c] + SumFunctionOnSet(f, (T \ {c}) \ {x}) BY <3>3, <3>4
    <3> QED BY <2>4, <3>2, <3>5, <3>6, <3>7
  <2> QED BY <2>5, <2>6
<1> HIDE DEF P
<1>2. S \in P BY <1>1, SetInduct
<1> QED BY <1>2 DEF P

\* A message that changes none of the summands leaves the total alone.
LEMMA SumSame ==
  ASSUME NEW f, NEW g, NEW S, IsFiniteSet(S), \A x \in S : f[x] = g[x]
  PROVE  SumFunctionOnSet(f, S) = SumFunctionOnSet(g, S)
<1> DEFINE P == {T \in SUBSET S : SumFunctionOnSet(f, T) = SumFunctionOnSet(g, T)}
<1>1. ASSUME NEW T \in SUBSET S, \A U \in SUBSET T : U # T => U \in P
      PROVE  T \in P
  <2>1. CASE T = {} BY <2>1, SumEmpty
  <2>2. CASE T # {}
    <3> DEFINE c == CHOOSE x \in T : TRUE
    <3>1. c \in T /\ f[c] = g[c] /\ IsFiniteSet(T) BY <2>2, FS_Subset
    <3>2. T \ {c} \in P BY <1>1, <3>1
    <3>3. SumFunctionOnSet(f, T) = f[c] + SumFunctionOnSet(f, T \ {c})
      BY <2>2, <3>1, SumEquation
    <3>4. SumFunctionOnSet(g, T) = g[c] + SumFunctionOnSet(g, T \ {c})
      BY <2>2, <3>1, SumEquation
    <3> HIDE DEF c
    <3> QED BY <3>1, <3>2, <3>3, <3>4
  <2> QED BY <2>1, <2>2
<1> HIDE DEF P
<1>2. S \in P BY <1>1, SetInduct
<1> QED BY <1>2 DEF P

\* A message that changes one summand changes the total by as much.
LEMMA SumChange ==
  ASSUME NEW f, NEW g, NEW S, IsFiniteSet(S), NEW y \in S,
         \A x \in S : f[x] \in Int /\ g[x] \in Int,
         \A x \in S \ {y} : f[x] = g[x]
  PROVE  SumFunctionOnSet(g, S) = SumFunctionOnSet(f, S) - f[y] + g[y]
<1>1. IsFiniteSet(S \ {y}) BY FS_RemoveElement
<1>2. SumFunctionOnSet(f, S) = f[y] + SumFunctionOnSet(f, S \ {y}) BY SumRemove
<1>3. SumFunctionOnSet(g, S) = g[y] + SumFunctionOnSet(g, S \ {y}) BY SumRemove
<1>4. SumFunctionOnSet(f, S \ {y}) = SumFunctionOnSet(g, S \ {y}) BY <1>1, SumSame
<1>5. SumFunctionOnSet(f, S \ {y}) \in Int BY <1>1, SumType
<1> QED BY <1>2, <1>3, <1>4, <1>5

\* A new summand, as of a loan or a policy that is created, is added to the total.
LEMMA SumAdd ==
  ASSUME NEW f, NEW S, IsFiniteSet(S), NEW y, y \notin S, \A x \in S \cup {y} : f[x] \in Int
  PROVE  SumFunctionOnSet(f, S \cup {y}) = SumFunctionOnSet(f, S) + f[y]
<1> DEFINE T == S \cup {y}
<1>1. IsFiniteSet(T) /\ y \in T /\ T \ {y} = S BY FS_AddElement
<1>2. SumFunctionOnSet(f, S) \in Int BY SumType
<1>3. \A x \in T : f[x] \in Int OBVIOUS
<1> HIDE DEF T
<1>4. SumFunctionOnSet(f, T) = f[y] + SumFunctionOnSet(f, T \ {y}) BY <1>1, <1>3, SumRemove
<1>5. SumFunctionOnSet(f, T) = f[y] + SumFunctionOnSet(f, S) BY <1>1, <1>4
<1>6. SumFunctionOnSet(f, T) = SumFunctionOnSet(f, S) + f[y] BY <1>2, <1>5
<1> QED BY <1>6 DEF T

\* A total of smaller summands is smaller: what is reserved of balances is within
\* their total.
LEMMA SumMonotone ==
  ASSUME NEW f, NEW g, NEW S, IsFiniteSet(S),
         \A x \in S : f[x] \in Int /\ g[x] \in Int /\ f[x] <= g[x]
  PROVE  SumFunctionOnSet(f, S) <= SumFunctionOnSet(g, S)
<1> DEFINE P == {T \in SUBSET S : SumFunctionOnSet(f, T) <= SumFunctionOnSet(g, T)}
<1>1. ASSUME NEW T \in SUBSET S, \A U \in SUBSET T : U # T => U \in P
      PROVE  T \in P
  <2>1. CASE T = {} BY <2>1, SumEmpty
  <2>2. CASE T # {}
    <3>1. PICK c : c \in T BY <2>2
    <3>2. f[c] \in Int /\ g[c] \in Int /\ f[c] <= g[c] BY <3>1
    <3>3. T \ {c} \in P BY <1>1, <3>1
    <3>4. IsFiniteSet(T) /\ IsFiniteSet(T \ {c}) BY FS_Subset
    <3>5. SumFunctionOnSet(f, T) = f[c] + SumFunctionOnSet(f, T \ {c}) BY <3>1, <3>4, SumRemove
    <3>6. SumFunctionOnSet(g, T) = g[c] + SumFunctionOnSet(g, T \ {c}) BY <3>1, <3>4, SumRemove
    <3>7. SumFunctionOnSet(f, T \ {c}) \in Int /\ SumFunctionOnSet(g, T \ {c}) \in Int BY <3>4, SumType
    <3> QED BY <3>2, <3>3, <3>5, <3>6, <3>7
  <2> QED BY <2>1, <2>2
<1> HIDE DEF P
<1>2. S \in P BY <1>1, SetInduct
<1> QED BY <1>2 DEF P

\* Balances and claims are not negative: neither is their total, and no one of them
\* exceeds it.
LEMMA SumNatural ==
  ASSUME NEW f, NEW S, IsFiniteSet(S), \A x \in S : f[x] \in Nat
  PROVE  /\ SumFunctionOnSet(f, S) \in Nat
         /\ \A x \in S : f[x] <= SumFunctionOnSet(f, S)
<1> DEFINE P == {T \in SUBSET S : SumFunctionOnSet(f, T) \in Nat}
<1>1. ASSUME NEW T \in SUBSET S, \A U \in SUBSET T : U # T => U \in P
      PROVE  T \in P
  <2>1. CASE T = {} BY <2>1, SumEmpty
  <2>2. CASE T # {}
    <3>1. PICK c : c \in T BY <2>2
    <3>2. T \ {c} \in P BY <1>1, <3>1
    <3>3. SumFunctionOnSet(f, T) = f[c] + SumFunctionOnSet(f, T \ {c})
      <4>1. IsFiniteSet(T) /\ \A x \in T : f[x] \in Int BY FS_Subset
      <4> QED BY <3>1, <4>1, SumRemove
    <3> QED BY <3>1, <3>2, <3>3
  <2> QED BY <2>1, <2>2
<1>2. IsFiniteSet(S) /\ \A T \in SUBSET S : IsFiniteSet(T) BY FS_Subset
<1>3. \A T \in SUBSET S : SumFunctionOnSet(f, T) \in Nat
  <2> SUFFICES ASSUME NEW D \in SUBSET S PROVE SumFunctionOnSet(f, D) \in Nat OBVIOUS
  <2> DEFINE Q == {T \in SUBSET D : T \in P}
  <2>1. ASSUME NEW T \in SUBSET D, \A U \in SUBSET T : U # T => U \in Q
        PROVE  T \in Q
    <3>1. \A U \in SUBSET T : U # T => U \in P BY <2>1
    <3>2. T \in P BY <1>1, <3>1
    <3> QED BY <3>2
  <2> HIDE DEF Q
  <2>2. D \in Q BY <1>2, <2>1, SetInduct
  <2> QED BY <2>2 DEF Q
<1>4. ASSUME NEW y \in S PROVE f[y] <= SumFunctionOnSet(f, S)
  <2>1. SumFunctionOnSet(f, S) = f[y] + SumFunctionOnSet(f, S \ {y})
    <3>1. \A x \in S : f[x] \in Int OBVIOUS
    <3> QED BY <3>1, SumRemove
  <2>2. SumFunctionOnSet(f, S \ {y}) \in Nat BY <1>3
  <2> QED BY <2>1, <2>2
<1> QED BY <1>3, <1>4

\* What is paid on every unit of a balance comes to as much as on the total: a reward
\* per share, times the shares, is the reward.
LEMMA SumLinear ==
  ASSUME NEW f, NEW g, NEW h, NEW k \in Int, NEW S, IsFiniteSet(S),
         \A x \in S : f[x] \in Int /\ g[x] \in Int /\ h[x] = f[x] + k * g[x]
  PROVE  SumFunctionOnSet(h, S) = SumFunctionOnSet(f, S) + k * SumFunctionOnSet(g, S)
<1> DEFINE P == {T \in SUBSET S :
                    SumFunctionOnSet(h, T) = SumFunctionOnSet(f, T) + k * SumFunctionOnSet(g, T)}
<1>0. \A a, b, c, d \in Int : (a + k * b) + (c + k * d) = (a + c) + k * (b + d) OBVIOUS
<1>1. ASSUME NEW T \in SUBSET S, \A U \in SUBSET T : U # T => U \in P
      PROVE  T \in P
  <2>1. CASE T = {}
    <3>1. \A e : SumFunctionOnSet(e, T) = 0 BY <2>1, SumEmpty
    <3>2. k * 0 = 0 OBVIOUS
    <3> QED BY <3>1, <3>2
  <2>2. CASE T # {}
    <3>1. PICK c : c \in T BY <2>2
    <3>2. f[c] \in Int /\ g[c] \in Int /\ h[c] = f[c] + k * g[c] BY <3>1
    <3>3. T \ {c} \in P BY <1>1, <3>1
    <3>4. /\ IsFiniteSet(T) /\ IsFiniteSet(T \ {c})
          /\ \A x \in T : f[x] \in Int /\ g[x] \in Int /\ h[x] \in Int
      BY FS_Subset
    <3>5. SumFunctionOnSet(f, T) = f[c] + SumFunctionOnSet(f, T \ {c}) BY <3>1, <3>4, SumRemove
    <3>6. SumFunctionOnSet(g, T) = g[c] + SumFunctionOnSet(g, T \ {c}) BY <3>1, <3>4, SumRemove
    <3>7. SumFunctionOnSet(h, T) = h[c] + SumFunctionOnSet(h, T \ {c}) BY <3>1, <3>4, SumRemove
    <3>8. SumFunctionOnSet(f, T \ {c}) \in Int /\ SumFunctionOnSet(g, T \ {c}) \in Int BY <3>4, SumType
    <3>9. SumFunctionOnSet(h, T \ {c}) = SumFunctionOnSet(f, T \ {c}) + k * SumFunctionOnSet(g, T \ {c})
      BY <3>3
    <3> QED BY <1>0, <3>2, <3>5, <3>6, <3>7, <3>8, <3>9
  <2> QED BY <2>1, <2>2
<1> HIDE DEF P
<1>2. S \in P BY <1>1, SetInduct
<1> QED BY <1>2 DEF P

\* Empty accounts sum to nothing.
LEMMA SumZero ==
  ASSUME NEW f, NEW S, IsFiniteSet(S), \A x \in S : f[x] = 0
  PROVE  SumFunctionOnSet(f, S) = 0
<1>1. SumFunctionOnSet(f, S) \in Int BY SumType
<1>2. \A x \in S : f[x] \in Int /\ f[x] = f[x] + 1 * f[x] OBVIOUS
<1>3. SumFunctionOnSet(f, S) = SumFunctionOnSet(f, S) + 1 * SumFunctionOnSet(f, S)
  BY <1>2, SumLinear
<1>4. \A t \in Int : t = t + 1 * t => t = 0 OBVIOUS
<1> QED BY <1>1, <1>3, <1>4

\* What rounding down leaves, as the shares of a reward are.
LEMMA RoundedDown ==
    \A n \in Nat, p \in Nat \ {0} : n \div p \in Nat /\ p * (n \div p) <= n
  OBVIOUS

\* Products of natural numbers are natural, and grow with their factors.
LEMMA Products ==
    /\ \A a, b \in Nat : a * b \in Nat
    /\ \A a, b \in Int : a * b \in Int
    /\ \A p \in Nat \ {0} : \A a, b \in Int : p * a <= p * b => a <= b
    /\ \A a \in Nat : \A b, c \in Int : b <= c => a * b <= a * c
    /\ \A a, b, c \in Int : a * (b + c) = a * b + a * c
    /\ \A a, b, c \in Int : a * (b - c) = a * b - a * c
    /\ \A a \in Int : a * 0 = 0
  OBVIOUS

\* One member of a set comes, goes or changes its value, as one stake or one loan does in a
\* message: the sum loses the old value and gains the new one.
LEMMA SumSwap ==
  ASSUME NEW f, NEW g, NEW S, NEW T, NEW y, NEW old \in Int, NEW new \in Int, IsFiniteSet(S),
         T \ {y} = S \ {y}, \A x \in S \ {y} : f[x] \in Int /\ g[x] = f[x],
         y \in S => f[y] = old, y \notin S => old = 0,
         y \in T => g[y] = new, y \notin T => new = 0
  PROVE  SumFunctionOnSet(g, T) = SumFunctionOnSet(f, S) - old + new
<1> DEFINE R == S \ {y}
<1>1. IsFiniteSet(R) /\ y \notin R BY FS_RemoveElement, FS_Subset
<1>2. SumFunctionOnSet(f, R) \in Int /\ SumFunctionOnSet(g, R) = SumFunctionOnSet(f, R)
  <2>1. \A x \in R : f[x] \in Int /\ g[x] \in Int /\ g[x] = f[x] OBVIOUS
  <2> HIDE DEF R
  <2> QED BY <1>1, <2>1, SumType, SumSame
<1>3. SumFunctionOnSet(f, S) = SumFunctionOnSet(f, R) + old
  <2>1. CASE y \in S
    <3>1. S = R \cup {y} /\ \A x \in R \cup {y} : f[x] \in Int BY <2>1
    <3> HIDE DEF R
    <3> QED BY <1>1, <2>1, <3>1, SumAdd
  <2>2. CASE y \notin S
    <3>1. S = R BY <2>2
    <3> HIDE DEF R
    <3> QED BY <1>2, <2>2, <3>1
  <2> QED BY <2>1, <2>2
<1>4. SumFunctionOnSet(g, T) = SumFunctionOnSet(g, R) + new
  <2>0. IsFiniteSet(T)
    <3>1. T \subseteq S \cup {y} BY DEF R
    <3> QED BY <3>1, FS_AddElement, FS_Subset
  <2>1. CASE y \in T
    <3>1. T = R \cup {y} /\ \A x \in R \cup {y} : g[x] \in Int BY <2>1
    <3> HIDE DEF R
    <3> QED BY <1>1, <2>1, <3>1, SumAdd
  <2>2. CASE y \notin T
    <3>1. T = R BY <2>2
    <3> HIDE DEF R
    <3> QED BY <1>2, <2>2, <3>1
  <2> QED BY <2>1, <2>2
<1> HIDE DEF R
<1> QED BY <1>2, <1>3, <1>4

\* Fewer delegations, claims or loans do not sum to more.
LEMMA SumSubset ==
  ASSUME NEW f, NEW S, IsFiniteSet(S), \A x \in S : f[x] \in Nat, NEW T \in SUBSET S
  PROVE  /\ SumFunctionOnSet(f, T) \in Nat /\ SumFunctionOnSet(f, S) \in Nat
         /\ SumFunctionOnSet(f, T) <= SumFunctionOnSet(f, S)
<1> DEFINE P == {U \in SUBSET S : \A V \in SUBSET U : SumFunctionOnSet(f, V) <= SumFunctionOnSet(f, U)}
<1>0. \A U \in SUBSET S : IsFiniteSet(U) /\ SumFunctionOnSet(f, U) \in Nat
  <2> TAKE U \in SUBSET S
  <2>1. IsFiniteSet(U) BY FS_Subset
  <2>2. \A x \in U : f[x] \in Nat OBVIOUS
  <2> QED BY <2>1, <2>2, SumNatural
<1>1. ASSUME NEW U \in SUBSET S, \A V \in SUBSET U : V # U => V \in P
      PROVE  U \in P
  <2> SUFFICES ASSUME NEW V \in SUBSET U PROVE SumFunctionOnSet(f, V) <= SumFunctionOnSet(f, U)
    OBVIOUS
  <2>1. CASE V = U BY <1>0, <2>1
  <2>2. CASE V # U
    <3>1. PICK y \in U : y \notin V BY <2>2
    <3> DEFINE W == U \ {y}
    <3>2. W \in P /\ V \in SUBSET W /\ W \in SUBSET S BY <1>1, <3>1
    <3>3. SumFunctionOnSet(f, V) <= SumFunctionOnSet(f, W) BY <3>2
    <3>4. SumFunctionOnSet(f, U) = f[y] + SumFunctionOnSet(f, W)
      <4>1. \A x \in U : f[x] \in Int OBVIOUS
      <4> QED BY <1>0, <4>1, SumRemove
    <3>5. f[y] \in Nat BY <3>1
    <3> HIDE DEF W, P
    <3> QED BY <1>0, <3>2, <3>3, <3>4, <3>5
  <2> QED BY <2>1, <2>2
<1> HIDE DEF P
<1>2. S \in P BY <1>1, SetInduct
<1> QED BY <1>0, <1>2 DEF P

\* Members of value zero count for nothing.
LEMMA SumOutside ==
  ASSUME NEW f, NEW S, IsFiniteSet(S), NEW T \in SUBSET S, \A x \in T : f[x] \in Int, \A x \in S \ T : f[x] = 0
  PROVE  SumFunctionOnSet(f, S) = SumFunctionOnSet(f, T)
<1> DEFINE P == {U \in SUBSET S : T \subseteq U => SumFunctionOnSet(f, U) = SumFunctionOnSet(f, T)}
<1>1. ASSUME NEW U \in SUBSET S, \A V \in SUBSET U : V # U => V \in P
      PROVE  U \in P
  <2> SUFFICES ASSUME T \subseteq U PROVE SumFunctionOnSet(f, U) = SumFunctionOnSet(f, T)
    OBVIOUS
  <2>1. CASE T = U BY <2>1
  <2>2. CASE T # U
    <3>1. PICK y \in U : y \notin T BY <2>2
    <3> DEFINE W == U \ {y}
    <3>2. W \in P /\ T \in SUBSET W /\ W \in SUBSET S BY <1>1, <3>1
    <3>3. SumFunctionOnSet(f, W) = SumFunctionOnSet(f, T) BY <3>2
    <3>4. SumFunctionOnSet(f, U) = f[y] + SumFunctionOnSet(f, W)
      <4>1. \A x \in U : f[x] \in Int OBVIOUS
      <4>2. IsFiniteSet(U) BY FS_Subset
      <4> QED BY <4>1, <4>2, SumRemove
    <3>5. f[y] = 0 BY <3>1
    <3>6. SumFunctionOnSet(f, T) \in Int
      <4>1. IsFiniteSet(T) BY FS_Subset
      <4> QED BY <4>1, SumType
    <3> HIDE DEF W, P
    <3> QED BY <3>3, <3>4, <3>5, <3>6
  <2> QED BY <2>1, <2>2
<1> HIDE DEF P
<1>2. S \in P BY <1>1, SetInduct
<1> QED BY <1>2 DEF P

\* What one account, or one place of a list, holds becomes x.
Written(held, a, x) == [held EXCEPT ![a] = x]

\* One record of a list is written, as a loan's, a milestone's or a source's.
LEMMA SeqWritten ==
    ASSUME NEW S, NEW s \in Seq(S), NEW n \in DOMAIN s, NEW d \in S
    PROVE  /\ Written(s, n, d) \in Seq(S) /\ DOMAIN Written(s, n, d) = DOMAIN s /\ Len(Written(s, n, d)) = Len(s)
           /\ Written(s, n, d)[n] = d /\ \A m \in DOMAIN s \ {n} : Written(s, n, d)[m] = s[m]
<1> DEFINE g == [s EXCEPT ![n] = d]
<1>1. n \in 1..Len(s) /\ DOMAIN s = 1..Len(s)
  OBVIOUS
<1>2. g \in Seq(S) /\ Len(g) = Len(s) /\ \A m \in 1..Len(s) : g[m] = IF m = n THEN d ELSE s[m]
  BY <1>1, ExceptSeq
<1>3. DOMAIN g = DOMAIN s
  OBVIOUS
<1> QED
  BY <1>1, <1>2, <1>3, Zenon DEF Written

\* A record is added to a list.
LEMMA SeqAppended ==
    ASSUME NEW S, NEW s \in Seq(S), NEW d \in S
    PROVE  /\ Append(s, d) \in Seq(S) /\ Len(Append(s, d)) = Len(s) + 1 /\ Len(s) \in Nat
           /\ DOMAIN s = 1..Len(s) /\ DOMAIN Append(s, d) = DOMAIN s \cup {Len(s) + 1} /\ Len(s) + 1 \notin DOMAIN s
           /\ Append(s, d)[Len(s) + 1] = d /\ \A m \in DOMAIN s : Append(s, d)[m] = s[m]
<1>1. /\ Append(s, d) \in Seq(S) /\ Len(Append(s, d)) = Len(s) + 1 /\ Append(s, d)[Len(s) + 1] = d
      /\ \A m \in 1..Len(s) : Append(s, d)[m] = s[m]
  BY AppendProperties
<1>2. Len(s) \in Nat /\ DOMAIN s = 1..Len(s) /\ DOMAIN Append(s, d) = 1..Len(Append(s, d))
  BY <1>1, LenProperties
<1> DEFINE g == Append(s, d)
           k == Len(s)
<1> HIDE DEF g, k
<1>3. DOMAIN g = 1..(k + 1) /\ k \in Nat /\ DOMAIN s = 1..k
  BY <1>1, <1>2 DEF g, k
<1>4. DOMAIN g = DOMAIN s \cup {k + 1} /\ k + 1 \notin DOMAIN s
  BY <1>3
<1> QED
  BY <1>1, <1>2, <1>4 DEF g, k

\* A list of members of a set is one of members of a larger set.
LEMMA SeqWider ==
    ASSUME NEW S, NEW T, S \subseteq T, NEW s \in Seq(S)
    PROVE  s \in Seq(T)
<1>1. Len(s) \in Nat /\ s \in [1..Len(s) -> S]
  BY LenProperties
<1>2. s \in [1..Len(s) -> T]
  BY <1>1
<1> QED
  BY <1>1, <1>2, SeqDef

\* No request or one is at most one.
LEMMA NoneOrOne == Cardinality({}) <= 1 /\ \A x : Cardinality({x}) <= 1
<1>1. Cardinality({}) = 0 /\ \A x : Cardinality({x}) = 1
  BY FS_EmptySet, FS_Singleton
<1>2. 0 <= 1 /\ 1 <= 1
  OBVIOUS
<1> QED
  BY <1>1, <1>2, Zenon

\* One member of a set comes or goes: the set is counted anew.
LEMMA CountSwap ==
    ASSUME NEW S, NEW T, NEW y, IsFiniteSet(S), T \ {y} = S \ {y}
    PROVE  /\ IsFiniteSet(T) /\ Cardinality(S) \in Nat /\ Cardinality(T) \in Nat
           /\ Cardinality(T) = Cardinality(S) - (IF y \in S THEN 1 ELSE 0) + (IF y \in T THEN 1 ELSE 0)
           /\ Cardinality(S) >= (IF y \in S THEN 1 ELSE 0)
<1> DEFINE R == S \ {y}
<1>1. IsFiniteSet(R) /\ Cardinality(R) \in Nat /\ y \notin R
  BY FS_Subset, FS_CardinalityType
<1>2. ASSUME NEW U, U \ {y} = R
      PROVE  IsFiniteSet(U) /\ Cardinality(U) = Cardinality(R) + (IF y \in U THEN 1 ELSE 0)
  <2>1. CASE y \in U
    <3>1. U = R \cup {y}
      BY <1>2, <2>1
    <3> HIDE DEF R
    <3> QED
      BY <1>1, <2>1, <3>1, FS_AddElement
  <2>2. CASE y \notin U
    <3>1. U = R
      BY <1>2, <2>2
    <3> HIDE DEF R
    <3> QED
      BY <1>1, <2>2, <3>1
  <2> QED
    BY <2>1, <2>2
<1>3. Cardinality(S) = Cardinality(R) + (IF y \in S THEN 1 ELSE 0)
  BY <1>2
<1>4. IsFiniteSet(T) /\ Cardinality(T) = Cardinality(R) + (IF y \in T THEN 1 ELSE 0)
  BY <1>2
<1> HIDE DEF R
<1> QED
  BY <1>1, <1>3, <1>4

\* The members of a list's domain are finitely many.
LEMMA DomainFinite ==
    ASSUME NEW S, NEW s \in Seq(S)
    PROVE  IsFiniteSet(DOMAIN s)
<1>1. Len(s) \in Nat /\ DOMAIN s = 1..Len(s)
  BY LenProperties
<1> QED
  BY <1>1, FS_Interval

\* A set of numbers has a least one.
LEMMA LeastNumber ==
    ASSUME NEW S \in SUBSET Nat, S # {}
    PROVE  \E x \in S : \A y \in S : x <= y
<1> DEFINE IsLeast(x) == x \in S /\ \A y \in S : x <= y
           P == {k \in Nat : \A n \in S : n <= k => \E x \in S : IsLeast(x)}
<1>1. 0 \in P
  <2>1. ASSUME NEW n \in S, n <= 0
        PROVE  IsLeast(n)
    BY <2>1
  <2> QED
    BY <2>1
<1>2. ASSUME NEW k \in Nat, k \in P
      PROVE  k + 1 \in P
  <2> SUFFICES ASSUME NEW n \in S, n <= k + 1
               PROVE  \E x \in S : IsLeast(x)
    OBVIOUS
  <2>1. CASE \E m \in S : m <= k
    BY <1>2, <2>1
  <2>2. CASE ~\E m \in S : m <= k
    <3>1. IsLeast(n)
      BY <2>2
    <3> QED
      BY <3>1
  <2> QED
    BY <2>1, <2>2
<1>3. PICK n \in S : TRUE
  OBVIOUS
<1>4. n \in P
  <2> HIDE DEF P
  <2> QED
    BY <1>1, <1>2, NatInduct
<1>5. \E x \in S : IsLeast(x)
  BY <1>4
<1> QED
  BY <1>5

\* The iteration by which the contracts take integer roots (isqrt, integer_sqrt): its
\* value from every guess up to k.
Guesses(n, k, f) ==
    f = [x \in 1..k |-> LET y == (x + n \div x) \div 2 IN IF y < x THEN f[y] ELSE x]

\* The next guess of a root is positive, and so no guess divides by zero.
LEMMA NextGuess ==
    ASSUME NEW n \in Nat \ {0}, NEW x \in Nat \ {0}, x <= n
    PROVE  /\ n \div x \in Nat /\ x * (n \div x) <= n /\ n < x * (n \div x + 1)
           /\ (x + n \div x) \div 2 \in Nat \ {0}
           /\ 2 * ((x + n \div x) \div 2) <= x + n \div x
           /\ x + n \div x <= 2 * ((x + n \div x) \div 2) + 1
<1> DEFINE q == n \div x
<1>1. q \in Nat /\ x * q <= n /\ n < x * (q + 1)
  OBVIOUS
<1>2. q >= 1
  <2> SUFFICES ASSUME q = 0 PROVE FALSE
    BY <1>1
  <2>1. n < x * (0 + 1)
    BY <1>1
  <2> QED
    BY <2>1
<1> HIDE DEF q
<1> DEFINE y == (x + q) \div 2
<1>3. y \in Nat /\ 2 * y <= x + q /\ x + q <= 2 * y + 1
  BY <1>1
<1>4. y # 0
  <2> HIDE DEF y
  <2> QED
    BY <1>1, <1>2, <1>3
<1> QED
  BY <1>1, <1>3, <1>4 DEF q

\* The iteration has a value for every guess, since guesses get smaller.
LEMMA GuessesExist ==
    ASSUME NEW n \in Nat \ {0}
    PROVE  \E f : Guesses(n, n, f)
<1> DEFINE P == {k \in Nat : k <= n => \E f : Guesses(n, k, f)}
<1>1. 0 \in P
  <2> DEFINE e == [x \in {} |-> x]
  <2>1. 1..0 = {}
    OBVIOUS
  <2>2. Guesses(n, 0, e)
    BY <2>1 DEF Guesses
  <2> HIDE DEF e
  <2> QED
    BY <2>2
<1>2. ASSUME NEW k \in Nat, k \in P
      PROVE  k + 1 \in P
  <2> SUFFICES ASSUME k + 1 <= n
               PROVE  \E f : Guesses(n, k + 1, f)
    OBVIOUS
  <2>1. PICK f : Guesses(n, k, f)
    BY <1>2
  <2> DEFINE next(x) == (x + n \div x) \div 2
             value(x) == IF next(x) < x THEN f[next(x)] ELSE x
             g == [x \in 1..(k + 1) |-> IF x = k + 1 THEN value(k + 1) ELSE f[x]]
  <2>2. ASSUME NEW x \in 1..k
        PROVE  f[x] = value(x)
    BY <2>1 DEF Guesses
  <2>3. ASSUME NEW x \in 1..(k + 1)
        PROVE  next(x) \in Nat \ {0}
    BY NextGuess
  <2> HIDE DEF next
  <2>4. ASSUME NEW x \in 1..(k + 1)
        PROVE  g[x] = IF next(x) < x THEN g[next(x)] ELSE x
    <3>1. g[x] = value(x)
      BY <2>2
    <3>2. next(x) < x => next(x) \in 1..k
      BY <2>3
    <3>3. next(x) < x => g[next(x)] = f[next(x)]
      BY <3>2
    <3> QED
      BY <3>1, <3>3
  <2>5. g = [x \in 1..(k + 1) |-> IF next(x) < x THEN g[next(x)] ELSE x]
    <3>1. g = [x \in 1..(k + 1) |-> g[x]]
      OBVIOUS
    <3> HIDE DEF g
    <3> QED
      BY <2>4, <3>1
  <2>6. Guesses(n, k + 1, g)
    BY <2>5 DEF Guesses, next
  <2> HIDE DEF g
  <2> QED
    BY <2>6
<1> HIDE DEF P
<1>3. n \in P
  BY <1>1, <1>2, NatInduct
<1> QED
  BY <1>3 DEF P

\* The guess that is not lowered any more is the integer root: no guess falls below it.
LEMMA LastGuessIsRoot ==
    ASSUME NEW n \in Nat \ {0}, NEW f, Guesses(n, n, f)
    PROVE  f[n] \in Nat /\ f[n] * f[n] <= n /\ n < (f[n] + 1) * (f[n] + 1)
<1> DEFINE next(x) == (x + n \div x) \div 2
           IsRoot(r) == r \in Nat /\ r * r <= n /\ n < (r + 1) * (r + 1)
           P == {k \in Nat : \A x \in 1..n : x <= k /\ n < (x + 1) * (x + 1) => IsRoot(f[x])}
<1>1. ASSUME NEW x \in 1..n
      PROVE  f[x] = IF next(x) < x THEN f[next(x)] ELSE x
  BY DEF Guesses
<1>2. 0 \in P
  OBVIOUS
<1>3. ASSUME NEW k \in Nat, k \in P
      PROVE  k + 1 \in P
  <2> SUFFICES ASSUME NEW x \in 1..n, x <= k + 1, n < (x + 1) * (x + 1)
               PROVE  IsRoot(f[x])
    OBVIOUS
  <2> DEFINE q == n \div x
             y == next(x)
  <2>1. /\ q \in Nat /\ x * q <= n /\ n < x * (q + 1)
        /\ y \in Nat \ {0} /\ 2 * y <= x + q /\ x + q <= 2 * y + 1
    <3>1. n \in Nat \ {0} /\ x \in Nat \ {0} /\ x <= n
      OBVIOUS
    <3> QED
      BY <3>1, NextGuess
  <2>2. f[x] = IF y < x THEN f[y] ELSE x
    BY <1>1
  <2> HIDE DEF q, y, next
  <2>3. CASE y < x
    <3>1. 4 * n + 4 <= 4 * (x * (q + 1))
      BY <2>1
    <3>2. 4 * (x * (q + 1)) <= (x + (q + 1)) * (x + (q + 1))
      <4>1. (x - (q + 1)) * (x - (q + 1)) >= 0
        BY <2>1
      <4>2. (x + (q + 1)) * (x + (q + 1)) = (x - (q + 1)) * (x - (q + 1)) + 4 * (x * (q + 1))
        BY <2>1
      <4> QED
        BY <2>1, <4>1, <4>2
    <3>3. (x + (q + 1)) * (x + (q + 1)) <= (2 * (y + 1)) * (2 * (y + 1))
      <4>1. x + (q + 1) <= 2 * (y + 1) /\ x + (q + 1) \in Nat /\ 2 * (y + 1) \in Nat
        BY <2>1
      <4> DEFINE u == x + (q + 1)
                 v == 2 * (y + 1)
      <4> HIDE DEF u, v
      <4>2. u * u <= u * v /\ u * v <= v * v
        BY <4>1, Products DEF u, v
      <4>3. u * u \in Nat /\ u * v \in Nat /\ v * v \in Nat
        BY <4>1, Products DEF u, v
      <4> QED
        BY <4>2, <4>3 DEF u, v
    <3>4. (2 * (y + 1)) * (2 * (y + 1)) = 4 * ((y + 1) * (y + 1))
      BY <2>1
    <3>5. n < (y + 1) * (y + 1)
      <4> DEFINE a == x * (q + 1)
                 b == (x + (q + 1)) * (x + (q + 1))
                 c == (2 * (y + 1)) * (2 * (y + 1))
                 d == (y + 1) * (y + 1)
      <4>1. a \in Int /\ b \in Int /\ c \in Int /\ d \in Int
        BY <2>1
      <4> HIDE DEF a, b, c, d
      <4>2. 4 * n + 4 <= 4 * a /\ 4 * a <= b /\ b <= c /\ c = 4 * d
        BY <3>1, <3>2, <3>3, <3>4 DEF a, b, c, d
      <4>3. n < d
        BY <4>1, <4>2
      <4> QED
        BY <4>3 DEF d
    <3>6. y \in 1..n /\ y <= k
      BY <2>1, <2>3
    <3> QED
      BY <1>3, <2>2, <2>3, <3>5, <3>6
  <2>4. CASE ~(y < x)
    <3>1. x <= q
      BY <2>1, <2>4
    <3>2. x * x <= x * q
      BY <2>1, <3>1, Products
    <3>3. x * x <= n
      BY <2>1, <3>2, Products
    <3> QED
      BY <2>2, <2>4, <3>3
  <2> QED
    BY <2>3, <2>4
<1>4. n \in P
  <2> HIDE DEF P
  <2> QED
    BY <1>2, <1>3, NatInduct
<1>5. n < (n + 1) * (n + 1)
  <2>1. (n + 1) * (n + 1) = n * n + 2 * n + 1 /\ n * n \in Nat
    OBVIOUS
  <2> QED
    BY <2>1
<1> QED
  BY <1>4, <1>5

====
