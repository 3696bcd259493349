----------------------------- MODULE Recursion -----------------------------
(***************************************************************************)
(* Laws that need induction, with a set in the place of the predicate the  *)
(* library's induction theorems are parameterised by: climbing over the    *)
(* indices of a loop, sums over finite sets as the community modules       *)
(* define them, and what finitely many things always leave.                *)
(***************************************************************************)
EXTENDS Integers, Functions, FiniteSetTheorems, NaturalsInduction, WellFoundedInduction, TLAPS

\* A set that holds the first index, and with each index the next, holds them all.
LEMMA Climb ==
    ASSUME NEW lo \in Nat, NEW n \in Nat, NEW Q, lo \in Q,
           \A k \in lo..n : k - 1 \in Q /\ k > lo => k \in Q
    PROVE  lo..n \subseteq Q
<1> DEFINE Bad == {k \in lo..n : k \notin Q}
           R == {pq \in Nat \X Nat : pq[1] < pq[2]}
<1> SUFFICES ASSUME Bad # {} PROVE FALSE
  OBVIOUS
<1>1. R = OpToRel(<, Nat)
  BY DEF OpToRel
<1>2. IsWellFoundedOn(R, Nat)
  BY <1>1, NatLessThanWellFounded
<1>3. PICK k \in Bad : \A j \in Bad : <<j, k>> \notin R
  <2>1. Bad \subseteq Nat
    OBVIOUS
  <2> HIDE DEF R, Bad
  <2> QED
    BY <1>2, <2>1, WFMin
<1>4. k \in lo..n /\ k \notin Q /\ k > lo /\ k - 1 \in lo..n
  OBVIOUS
<1>5. <<k - 1, k>> \in Nat \X Nat /\ <<k - 1, k>>[1] < <<k - 1, k>>[2]
  BY <1>4
<1>6. k - 1 \notin Bad
  BY <1>3, <1>5
<1> QED
  BY <1>4, <1>6

\* A set of natural numbers has a smallest.
LEMMA Smallest ==
    ASSUME NEW S \in SUBSET Nat, S # {}
    PROVE  \E n \in S : \A p \in S : n <= p
<1> DEFINE R == {pq \in Nat \X Nat : pq[1] < pq[2]}
<1>1. R = OpToRel(<, Nat)
  BY DEF OpToRel
<1>2. IsWellFoundedOn(R, Nat)
  BY <1>1, NatLessThanWellFounded
<1>3. PICK x \in S : \A y \in S : <<y, x>> \notin R
  <2> HIDE DEF R
  <2> QED
    BY <1>2, WFMin
<1>4. ASSUME NEW y \in S PROVE x <= y
  <2>1. x \in Nat /\ y \in Nat /\ <<y, x>> \in Nat \X Nat
    OBVIOUS
  <2>2. ~(<<y, x>>[1] < <<y, x>>[2])
    BY <1>3, <2>1
  <2> QED
    BY <2>1, <2>2
<1> QED
  BY <1>4

-----------------------------------------------------------------------------
(* Sums.                                                                       *)

\* A family that holds every subset of S all of whose strict subsets it holds holds them all.
LEMMA SetInduction ==
    ASSUME NEW S, IsFiniteSet(S), NEW Q,
           \A T \in SUBSET S : (\A U \in SUBSET T : U # T => U \in Q) => T \in Q
    PROVE  SUBSET S \subseteq Q
<1> DEFINE Bad == {T \in SUBSET S : T \notin Q}
<1> SUFFICES ASSUME Bad # {} PROVE FALSE
  OBVIOUS
<1>1. IsWellFoundedOn(StrictSubsetOrdering(S), SUBSET S)
  <2>1. FiniteSubsetsOf(S) = SUBSET S
    BY FS_FiniteSubsetsOfFinite
  <2>2. IsWellFoundedOn(StrictSubsetOrdering(S), FiniteSubsetsOf(S))
    BY FS_StrictSubsetOrderingWellFounded
  <2> QED
    BY <2>1, <2>2, Zenon
<1>2. PICK T \in Bad : \A U \in Bad : <<U, T>> \notin StrictSubsetOrdering(S)
  <2>1. Bad \subseteq SUBSET S
    OBVIOUS
  <2> HIDE DEF Bad
  <2> QED
    BY <1>1, <2>1, WFMin
<1>3. \A U \in SUBSET T : U # T => U \in Q
  BY <1>2 DEF StrictSubsetOrdering
<1> QED
  BY <1>2, <1>3

Pick(s) == CHOOSE x \in s : TRUE
Solves(f, fun, S) ==
    f = [s \in SUBSET S |-> IF s = {} THEN 0 ELSE fun[Pick(s)] + f[s \ {Pick(s)}]]

\* Two solutions of the recursion agree where both are defined.
LEMMA SolutionsAgree ==
    ASSUME NEW fun, NEW U, IsFiniteSet(U), NEW V, U \subseteq V,
           NEW f, Solves(f, fun, U), NEW g, Solves(g, fun, V)
    PROVE  \A s \in SUBSET U : f[s] = g[s]
<1> DEFINE Q == {s \in SUBSET U : f[s] = g[s]}
<1>1. ASSUME NEW T \in SUBSET U, \A W \in SUBSET T : W # T => W \in Q
      PROVE  T \in Q
  <2>1. CASE T = {}
    BY <2>1 DEF Solves
  <2>2. CASE T # {}
    <3>1. Pick(T) \in T
      BY <2>2 DEF Pick
    <3>2. f[T \ {Pick(T)}] = g[T \ {Pick(T)}]
      BY <1>1, <3>1
    <3>3. /\ f[T] = fun[Pick(T)] + f[T \ {Pick(T)}]
          /\ g[T] = fun[Pick(T)] + g[T \ {Pick(T)}]
      BY <2>2, T \in SUBSET V DEF Solves
    <3> QED
      BY <3>2, <3>3
  <2> QED
    BY <2>1, <2>2
<1> HIDE DEF Q
<1>2. SUBSET U \subseteq Q
  BY <1>1, SetInduction
<1> QED
  BY <1>2 DEF Q

\* The recursion has a solution on every finite set.
LEMMA SolutionExists ==
    ASSUME NEW fun, NEW S, IsFiniteSet(S)
    PROVE  \E f : Solves(f, fun, S)
<1> DEFINE Q == {T \in SUBSET S : \E f : Solves(f, fun, T)}
           sol(T) == CHOOSE f : Solves(f, fun, T)
<1>1. ASSUME NEW T \in SUBSET S, \A U \in SUBSET T : U # T => U \in Q
      PROVE  T \in Q
  <2> DEFINE rest(s) == s \ {Pick(s)}
             f == [s \in SUBSET T |-> IF s = {} THEN 0 ELSE fun[Pick(s)] + sol(rest(s))[rest(s)]]
  <2>1. ASSUME NEW U \in SUBSET T, U # T
        PROVE  Solves(sol(U), fun, U) /\ IsFiniteSet(U)
    BY <1>1, <2>1, FS_Subset
  <2> HIDE DEF sol
  <2>2. ASSUME NEW s \in SUBSET T, s # {}
        PROVE  f[rest(s)] = sol(rest(s))[rest(s)]
    <3> DEFINE u == rest(s)
    <3>1. Pick(s) \in s /\ u \in SUBSET T /\ u # T
      BY <2>2 DEF Pick
    <3>2. Solves(sol(u), fun, u) /\ IsFiniteSet(u)
      BY <3>1, <2>1
    <3>3. CASE u = {}
      <4>1. sol(u)[u] = 0
        BY <3>2, <3>3 DEF Solves
      <4>2. f[u] = 0
        BY <3>1, <3>3
      <4> QED
        BY <4>1, <4>2
    <3>4. CASE u # {}
      <4>1. Pick(u) \in u /\ rest(u) \in SUBSET T /\ rest(u) # T /\ rest(u) \subseteq u
        BY <3>1, <3>4 DEF Pick
      <4>2. Solves(sol(rest(u)), fun, rest(u)) /\ IsFiniteSet(rest(u))
        BY <4>1, <2>1
      <4>3. sol(rest(u))[rest(u)] = sol(u)[rest(u)]
        <5> DEFINE w == rest(u)
        <5>1. Solves(sol(w), fun, w) /\ IsFiniteSet(w) /\ w \subseteq u
          BY <4>1, <4>2
        <5> HIDE DEF u, w
        <5>2. \A a, b : Solves(a, fun, w) /\ Solves(b, fun, u) => \A t \in SUBSET w : a[t] = b[t]
          BY <5>1, SolutionsAgree
        <5>3. sol(w)[w] = sol(u)[w]
          BY <3>2, <5>1, <5>2
        <5> QED
          BY <5>3 DEF w
      <4>4. sol(u)[u] = fun[Pick(u)] + sol(u)[rest(u)]
        BY <3>2, <3>4 DEF Solves
      <4>5. f[u] = fun[Pick(u)] + sol(rest(u))[rest(u)]
        BY <3>1, <3>4
      <4> QED
        BY <4>3, <4>4, <4>5
    <3> QED
      BY <3>3, <3>4
  <2>3. Solves(f, fun, T)
    BY <2>2 DEF Solves
  <2> QED
    BY <2>3
<1> HIDE DEF Q
<1>2. SUBSET S \subseteq Q
  BY <1>1, SetInduction
<1> QED
  BY <1>2 DEF Q

\* SumFunctionOnSet is the value at S of a solution on S, and of any on a larger set.
LEMMA SumIsSolution ==
    ASSUME NEW fun, NEW S, IsFiniteSet(S)
    PROVE  \E f : Solves(f, fun, S) /\ SumFunctionOnSet(fun, S) = f[S]
<1> DEFINE f == CHOOSE g : Solves(g, fun, S)
<1>1. Solves(f, fun, S)
  BY SolutionExists
<1>2. SumFunctionOnSet(fun, S) = f[S]
  BY DEF SumFunctionOnSet, FoldFunctionOnSet, MapThenFoldSet, Solves, Pick
<1> QED
  BY <1>1, <1>2

\* The empty sum.
LEMMA SumEmpty == ASSUME NEW fun PROVE SumFunctionOnSet(fun, {}) = 0
<1>1. PICK f : Solves(f, fun, {}) /\ SumFunctionOnSet(fun, {}) = f[{}]
  BY SumIsSolution, FS_EmptySet
<1> QED
  BY <1>1 DEF Solves

\* A sum is the summand the definition picks and the sum over the others.
LEMMA SumPicks ==
    ASSUME NEW fun, NEW S, IsFiniteSet(S), S # {}
    PROVE  SumFunctionOnSet(fun, S) = fun[Pick(S)] + SumFunctionOnSet(fun, S \ {Pick(S)})
<1> DEFINE R == S \ {Pick(S)}
<1>1. IsFiniteSet(R) /\ R \in SUBSET S
  BY FS_Subset
<1>2. PICK f : Solves(f, fun, S) /\ SumFunctionOnSet(fun, S) = f[S]
  BY SumIsSolution
<1>3. PICK g : Solves(g, fun, R) /\ SumFunctionOnSet(fun, R) = g[R]
  BY <1>1, SumIsSolution
<1>4. g[R] = f[R]
  <2> HIDE DEF R
  <2>1. \A s \in SUBSET R : g[s] = f[s]
    BY <1>1, <1>2, <1>3, SolutionsAgree
  <2> QED
    BY <2>1
<1>5. f[S] = fun[Pick(S)] + f[R]
  BY <1>2 DEF Solves
<1> QED
  BY <1>2, <1>3, <1>4, <1>5

\* Sums of integers are integers.
LEMMA SumType ==
    ASSUME NEW D, NEW fun \in [D -> Int], NEW S \in SUBSET D, IsFiniteSet(S)
    PROVE  SumFunctionOnSet(fun, S) \in Int
<1> DEFINE Q == {T \in SUBSET S : SumFunctionOnSet(fun, T) \in Int}
<1>1. ASSUME NEW T \in SUBSET S, \A U \in SUBSET T : U # T => U \in Q
      PROVE  T \in Q
  <2>1. CASE T = {}
    BY <2>1, SumEmpty
  <2>2. CASE T # {}
    <3>1. Pick(T) \in T /\ IsFiniteSet(T)
      BY <2>2, FS_Subset DEF Pick
    <3>2. SumFunctionOnSet(fun, T \ {Pick(T)}) \in Int
      BY <1>1, <3>1
    <3>3. fun[Pick(T)] \in Int
      BY <3>1
    <3> QED
      BY <2>2, <3>1, <3>2, <3>3, SumPicks
  <2> QED
    BY <2>1, <2>2
<1> HIDE DEF Q
<1>2. SUBSET S \subseteq Q
  BY <1>1, SetInduction
<1> QED
  BY <1>2 DEF Q

\* A new element adds its summand, wherever in the order of picking it comes.
LEMMA SumInsert ==
    ASSUME NEW D, NEW fun \in [D -> Int], NEW S \in SUBSET D, IsFiniteSet(S),
           NEW x \in D, x \notin S
    PROVE  SumFunctionOnSet(fun, S \cup {x}) = fun[x] + SumFunctionOnSet(fun, S)
<1> DEFINE Q == {T \in SUBSET S : \A y \in D \ T :
                   SumFunctionOnSet(fun, T \cup {y}) = fun[y] + SumFunctionOnSet(fun, T)}
<1>1. ASSUME NEW T \in SUBSET S, \A U \in SUBSET T : U # T => U \in Q
      PROVE  T \in Q
  <2> SUFFICES ASSUME NEW y \in D \ T
               PROVE  SumFunctionOnSet(fun, T \cup {y}) = fun[y] + SumFunctionOnSet(fun, T)
    OBVIOUS
  <2> DEFINE Ty == T \cup {y}
             p == Pick(Ty)
             U == T \ {p}
  <2>1. p \in Ty /\ IsFiniteSet(T) /\ IsFiniteSet(Ty)
    BY FS_Subset, FS_AddElement DEF Pick
  <2>2. SumFunctionOnSet(fun, Ty) = fun[p] + SumFunctionOnSet(fun, Ty \ {p})
    BY <2>1, SumPicks
  <2>3. CASE p = y
    <3>1. Ty \ {p} = T
      BY <2>3
    <3> QED
      BY <2>2, <2>3, <3>1
  <2>4. CASE p # y
    <3> HIDE DEF p
    <3>1. /\ p \in T /\ U \in SUBSET T /\ U # T
          /\ y \in D \ U /\ p \in D \ U
          /\ Ty \ {p} = U \cup {y} /\ U \cup {p} = T
      BY <2>1, <2>4
    <3>2. U \in Q
      BY <1>1, <3>1
    <3>3. SumFunctionOnSet(fun, U \cup {y}) = fun[y] + SumFunctionOnSet(fun, U)
      BY <3>1, <3>2
    <3>4. SumFunctionOnSet(fun, U \cup {p}) = fun[p] + SumFunctionOnSet(fun, U)
      BY <3>1, <3>2
    <3>5. IsFiniteSet(U) /\ U \in SUBSET D
      BY <2>1, <3>1, FS_Subset
    <3>6. SumFunctionOnSet(fun, U) \in Int /\ fun[p] \in Int /\ fun[y] \in Int
      BY <3>1, <3>5, SumType
    <3>7. SumFunctionOnSet(fun, Ty) = fun[p] + (fun[y] + SumFunctionOnSet(fun, U))
      BY <2>2, <3>1, <3>3
    <3>8. SumFunctionOnSet(fun, T) = fun[p] + SumFunctionOnSet(fun, U)
      BY <3>1, <3>4
    <3> QED
      BY <3>6, <3>7, <3>8
  <2> QED
    BY <2>3, <2>4
<1> HIDE DEF Q
<1>2. SUBSET S \subseteq Q
  BY <1>1, SetInduction
<1> QED
  BY <1>2 DEF Q

\* Larger summands, larger sum.
LEMMA SumMonotone ==
    ASSUME NEW D, IsFiniteSet(D), NEW f \in [D -> Int], NEW g \in [D -> Int],
           NEW S \in SUBSET D, \A x \in S : f[x] <= g[x]
    PROVE  SumFunctionOnSet(f, S) <= SumFunctionOnSet(g, S)
<1> DEFINE Q == {T \in SUBSET S : SumFunctionOnSet(f, T) <= SumFunctionOnSet(g, T)}
<1>1. ASSUME NEW T \in SUBSET S, \A U \in SUBSET T : U # T => U \in Q
      PROVE  T \in Q
  <2>1. CASE T = {}
    <3>1. SumFunctionOnSet(f, T) = 0 /\ SumFunctionOnSet(g, T) = 0
      BY <2>1, SumEmpty
    <3> QED
      BY <3>1
  <2>2. CASE T # {}
    <3>1. PICK x \in T : TRUE
      BY <2>2
    <3> DEFINE U == T \ {x}
    <3>2. U \in Q /\ U \in SUBSET D /\ x \in D \ U /\ U \cup {x} = T /\ IsFiniteSet(U)
      BY <1>1, <3>1, FS_Subset
    <3> HIDE DEF U
    <3>3. /\ SumFunctionOnSet(f, T) = f[x] + SumFunctionOnSet(f, U)
          /\ SumFunctionOnSet(g, T) = g[x] + SumFunctionOnSet(g, U)
      BY <3>2, SumInsert
    <3>4. /\ SumFunctionOnSet(f, U) \in Int /\ SumFunctionOnSet(g, U) \in Int
          /\ f[x] \in Int /\ g[x] \in Int
      BY <3>2, SumType
    <3>5. f[x] <= g[x] /\ SumFunctionOnSet(f, U) <= SumFunctionOnSet(g, U)
      BY <3>1, <3>2
    <3> QED
      BY <3>3, <3>4, <3>5
  <2> QED
    BY <2>1, <2>2
<1>2. IsFiniteSet(S)
  BY FS_Subset
<1> HIDE DEF Q
<1>3. SUBSET S \subseteq Q
  BY <1>1, <1>2, SetInduction
<1> QED
  BY <1>3 DEF Q

\* A sum changes by as much as the one summand that changes.
LEMMA SumChange ==
    ASSUME NEW D, IsFiniteSet(D), NEW f \in [D -> Int], NEW g \in [D -> Int], NEW x \in D,
           \A y \in D \ {x} : f[y] = g[y]
    PROVE  SumFunctionOnSet(g, D) = SumFunctionOnSet(f, D) + (g[x] - f[x])
<1> DEFINE S == D \ {x}
<1>1. IsFiniteSet(S) /\ S \in SUBSET D /\ x \notin S /\ S \cup {x} = D
  BY FS_Subset
<1>2. \A y \in S : f[y] <= g[y] /\ g[y] <= f[y]
  OBVIOUS
<1> HIDE DEF S
<1>3. /\ SumFunctionOnSet(f, S) <= SumFunctionOnSet(g, S)
      /\ SumFunctionOnSet(g, S) <= SumFunctionOnSet(f, S)
  BY <1>1, <1>2, SumMonotone
<1>4. /\ SumFunctionOnSet(f, D) = f[x] + SumFunctionOnSet(f, S)
      /\ SumFunctionOnSet(g, D) = g[x] + SumFunctionOnSet(g, S)
  BY <1>1, SumInsert
<1>5. /\ SumFunctionOnSet(f, S) \in Int /\ SumFunctionOnSet(g, S) \in Int
      /\ f[x] \in Int /\ g[x] \in Int
  BY <1>1, SumType
<1> QED
  BY <1>3, <1>4, <1>5

\* A sum over fewer summands, none of them negative, is no larger.
LEMMA SumSubset ==
    ASSUME NEW D, NEW fun \in [D -> Nat], NEW S \in SUBSET D, IsFiniteSet(S), NEW P \in SUBSET S
    PROVE  SumFunctionOnSet(fun, P) <= SumFunctionOnSet(fun, S)
<1> DEFINE Q == {T \in SUBSET S : SumFunctionOnSet(fun, P \cap T) <= SumFunctionOnSet(fun, T)}
<1>0. fun \in [D -> Int]
  OBVIOUS
<1>1. ASSUME NEW T \in SUBSET S, \A U \in SUBSET T : U # T => U \in Q
      PROVE  T \in Q
  <2>1. CASE T = {}
    <3>1. P \cap T = {} /\ SumFunctionOnSet(fun, {}) = 0
      BY <2>1, SumEmpty
    <3> QED
      BY <2>1, <3>1
  <2>2. CASE T # {}
    <3>1. PICK x \in T : TRUE
      BY <2>2
    <3> DEFINE U == T \ {x}
               PU == P \cap U
    <3>2. /\ U \in Q /\ U \in SUBSET D /\ x \in D /\ x \notin U /\ U \cup {x} = T
          /\ PU \in SUBSET D /\ x \notin PU
          /\ P \cap T = PU \/ P \cap T = PU \cup {x}
      BY <1>1, <3>1
    <3>3. SumFunctionOnSet(fun, PU) <= SumFunctionOnSet(fun, U)
      BY <3>2
    <3>4. IsFiniteSet(U) /\ IsFiniteSet(PU)
      <4>1. U \in SUBSET S /\ PU \in SUBSET S
        OBVIOUS
      <4> QED
        BY <4>1, FS_Subset
    <3> HIDE DEF U, PU
    <3>5. /\ SumFunctionOnSet(fun, U \cup {x}) = fun[x] + SumFunctionOnSet(fun, U)
          /\ SumFunctionOnSet(fun, PU \cup {x}) = fun[x] + SumFunctionOnSet(fun, PU)
      BY <1>0, <3>2, <3>4, SumInsert
    <3>6. /\ SumFunctionOnSet(fun, U) \in Int /\ SumFunctionOnSet(fun, PU) \in Int
      BY <1>0, <3>2, <3>4, SumType
    <3>7. fun[x] \in Nat
      BY <3>2
    <3>8. SumFunctionOnSet(fun, P \cap T) <= SumFunctionOnSet(fun, T)
      BY <3>2, <3>3, <3>5, <3>6, <3>7
    <3> QED
      BY <3>8
  <2> QED
    BY <2>1, <2>2
<1> HIDE DEF Q
<1>2. S \in Q
  BY <1>1, SetInduction
<1>3. P \cap S = P
  OBVIOUS
<1> QED
  BY <1>2, <1>3 DEF Q

-----------------------------------------------------------------------------
(* Counting and choosing.                                                      *)

\* What takes different values on a finite set and one element more takes a value that
\* another function does not take on the set alone.
LEMMA OneIsLeft ==
    ASSUME NEW A, IsFiniteSet(A), NEW x, x \notin A, NEW f, NEW g,
           \A y, z \in A \cup {x} : f[y] = f[z] => y = z
    PROVE  \E y \in A \cup {x} : f[y] \notin {g[z] : z \in A}
<1> SUFFICES ASSUME \A y \in A \cup {x} : f[y] \in {g[z] : z \in A} PROVE FALSE
  OBVIOUS
<1> DEFINE B == A \cup {x}
           G == {g[z] : z \in A}
           h == [y \in B |-> f[y]]
           k == [z \in A |-> g[z]]
<1>1. IsFiniteSet(B) /\ Cardinality(B) = Cardinality(A) + 1 /\ Cardinality(A) \in Nat
  BY FS_AddElement, FS_CardinalityType
<1>2. k \in Surjection(A, G)
  BY DEF Surjection
<1>3. h \in Injection(B, G)
  <2>1. \A y \in B : f[y] \in G
    OBVIOUS
  <2>2. h \in [B -> G]
    BY <2>1
  <2>3. \A y, z \in B : h[y] = h[z] => y = z
    OBVIOUS
  <2> HIDE DEF h, B, G
  <2> QED
    BY <2>2, <2>3 DEF Injection, IsInjective
<1> HIDE DEF B, G, h, k
<1>4. IsFiniteSet(G) /\ Cardinality(G) <= Cardinality(A)
  BY <1>2, FS_Surjection
<1>5. Cardinality(B) <= Cardinality(G)
  BY <1>3, <1>4, FS_Injection
<1>6. Cardinality(G) \in Nat
  BY <1>4, FS_CardinalityType
<1> QED
  BY <1>1, <1>4, <1>5, <1>6

\* Of finitely many things compared by a transitive relation, two by two, one is above the others.
LEMMA Greatest ==
    ASSUME NEW S, IsFiniteSet(S), S # {}, NEW Above,
           \A x, y \in S : x # y => <<x, y>> \in Above \/ <<y, x>> \in Above,
           \A x, y, z \in S : <<x, y>> \in Above /\ <<y, z>> \in Above => <<x, z>> \in Above
    PROVE  \E x \in S : \A y \in S \ {x} : <<x, y>> \in Above
<1> DEFINE Tops(T) == \E x \in T : \A y \in T \ {x} : <<x, y>> \in Above
           Q == {T \in SUBSET S : T = {} \/ Tops(T)}
<1>1. ASSUME NEW T \in SUBSET S, \A U \in SUBSET T : U # T => U \in Q, T # {}
      PROVE  Tops(T)
  <2>1. PICK x \in T : TRUE
    BY <1>1
  <2> DEFINE U == T \ {x}
  <2>2. U \in Q
    BY <1>1, <2>1
  <2>3. CASE U = {}
    BY <2>1, <2>3
  <2>4. CASE U # {}
    <3>1. PICK u \in U : \A y \in U \ {u} : <<u, y>> \in Above
      BY <2>2, <2>4
    <3>2. x \in S /\ u \in S /\ x # u /\ \A y \in U : y \in S
      BY <2>1, <3>1
    <3>3. CASE <<u, x>> \in Above
      BY <3>1, <3>2, <3>3
    <3>4. CASE <<x, u>> \in Above
      <4>1. ASSUME NEW y \in T \ {x} PROVE <<x, y>> \in Above
        <5>1. CASE y = u
          BY <3>4, <5>1
        <5>2. CASE y # u
          <6>1. <<u, y>> \in Above /\ y \in S
            BY <3>1, <4>1, <5>2
          <6> QED
            BY <3>2, <3>4, <6>1
        <5> QED
          BY <5>1, <5>2
      <4> QED
        BY <2>1, <4>1
    <3> QED
      BY <3>2, <3>3, <3>4
  <2> QED
    BY <2>3, <2>4
<1>2. \A T \in SUBSET S : (\A U \in SUBSET T : U # T => U \in Q) => T \in Q
  BY <1>1
<1> HIDE DEF Q
<1>3. S \in Q
  BY <1>2, SetInduction
<1> QED
  BY <1>3 DEF Q
=============================================================================
