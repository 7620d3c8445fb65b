----------------------------- MODULE Sums_proofs -----------------------------
(***************************************************************************)
(* Facts about sums over finite sets, and about division, that the proofs  *)
(* about sizes and about reports rest on.                                  *)
(*                                                                         *)
(* The library's fold takes the elements of a set out one by one, in an    *)
(* order nothing is known of.  The first section proves that the order     *)
(* does not matter; the others only use that any element can be taken out  *)
(* first (SumRest).                                                        *)
(***************************************************************************)
EXTENDS Integers, FiniteSets, Functions, FiniteSetTheorems, WellFoundedInduction, TLAPS

-----------------------------------------------------------------------------
(* The recurrence of a sum.                                                *)


(* Every non-empty collection of finite sets has a member that is minimal. *)
LEMMA MinimalSet ==
  ASSUME NEW S, IsFiniteSet(S), NEW Bad \in SUBSET (SUBSET S), Bad # {}
  PROVE  \E T \in Bad : \A U \in Bad : U \subseteq T => U = T
<1>1. IsWellFoundedOn(StrictSubsetOrdering(S), SUBSET S)
  BY FS_StrictSubsetOrderingWellFounded, FS_FiniteSubsetsOfFinite
<1>2. PICK T \in Bad : \A U \in Bad : ~ (<<U, T>> \in StrictSubsetOrdering(S))
  BY <1>1, WFMin, Zenon
<1>3. ASSUME NEW U \in Bad, U \subseteq T PROVE U = T
  BY <1>2, <1>3 DEF StrictSubsetOrdering
<1> QED BY <1>3, Zenon

(* What a sum over a set is built from: one element less at a time.        *)
Recurrence(f, S, g) ==
  g = [s \in SUBSET S |-> IF s = {} THEN 0
                          ELSE f[CHOOSE x \in s : TRUE] + g[s \ {CHOOSE x \in s : TRUE}]]

LEMMA SumIs ==
  ASSUME NEW f, NEW S
  PROVE  SumFunctionOnSet(f, S) = (CHOOSE g : Recurrence(f, S, g))[S]
BY Zenon DEF SumFunctionOnSet, FoldFunctionOnSet, MapThenFoldSet, Recurrence

(* The recurrence determines the function.                                 *)
LEMMA SumUnique ==
  ASSUME NEW f, NEW S, IsFiniteSet(S), NEW g, NEW h, NEW A \in SUBSET S,
         Recurrence(f, S, g), Recurrence(f, A, h)
  PROVE  \A T \in SUBSET A : g[T] = h[T]
<1> DEFINE Bad == {T \in SUBSET A : g[T] # h[T]}
<1> SUFFICES ASSUME Bad # {} PROVE FALSE
  OBVIOUS
<1>1. PICK T \in Bad : \A U \in Bad : U \subseteq T => U = T
  <2>1. Bad \in SUBSET (SUBSET S)
    OBVIOUS
  <2> HIDE DEF Bad
  <2> QED BY <2>1, MinimalSet
<1> DEFINE x == CHOOSE y \in T : TRUE
<1>2. T # {}
  BY DEF Recurrence
<1>3. x \in T /\ T \ {x} \in SUBSET A
  BY <1>2
<1>4. g[T] = f[x] + g[T \ {x}] /\ h[T] = f[x] + h[T \ {x}]
  BY <1>2, <1>3 DEF Recurrence
<1>5. g[T \ {x}] = h[T \ {x}]
  <2>1. T \ {x} \notin Bad
    <3> HIDE DEF Bad
    <3> QED BY <1>1, <1>3
  <2> QED BY <2>1, <1>3
<1> QED BY <1>4, <1>5

(* And a function of that kind exists.                                     *)
LEMMA SumExists ==
  ASSUME NEW f, NEW S, IsFiniteSet(S)
  PROVE  \E g : Recurrence(f, S, g)
<1> DEFINE Good(T) == \E g : Recurrence(f, T, g)
           Bad == {T \in SUBSET S : ~ Good(T)}
<1> SUFFICES ASSUME Bad # {} PROVE FALSE
  OBVIOUS
<1>1. PICK T \in Bad : \A U \in Bad : U \subseteq T => U = T
  <2>1. Bad \in SUBSET (SUBSET S)
    OBVIOUS
  <2> HIDE DEF Bad
  <2> QED BY <2>1, MinimalSet
<1> DEFINE G(A) == CHOOSE g : Recurrence(f, A, g)
           X(s) == CHOOSE y \in s : TRUE
           h == [s \in SUBSET T |-> IF s = {} THEN 0 ELSE f[X(s)] + G(s \ {X(s)})[s \ {X(s)}]]
<1>2. ASSUME NEW A \in SUBSET T, A # T PROVE Recurrence(f, A, G(A))
  <2>1. Good(A)
    <3>1. A \in SUBSET S /\ A \notin Bad
      <4> HIDE DEF Good
      <4> QED BY <1>1, <1>2
    <3> HIDE DEF Good
    <3> QED BY <3>1
  <2> QED BY <2>1
<1>3. ASSUME NEW s \in SUBSET T, s # {}
      PROVE  /\ X(s) \in s /\ s \ {X(s)} \in SUBSET T /\ s \ {X(s)} # T
  BY <1>3
<1>4. ASSUME NEW s \in SUBSET T, s # {}
      PROVE  h[s \ {X(s)}] = G(s \ {X(s)})[s \ {X(s)}]
  <2> DEFINE A == s \ {X(s)}
  <2> SUFFICES h[A] = G(A)[A]
    OBVIOUS
  <2>1. A \in SUBSET T /\ A # T
    BY <1>3, <1>4
  <2>2. Recurrence(f, A, G(A))
    BY <2>1, <1>2
  <2>3. CASE A = {}
    <3>1. h[A] = 0
      BY <2>3
    <3>2. G(A)[A] = 0
      <4> HIDE DEF G, A
      <4> QED BY <2>2, <2>3 DEF Recurrence
    <3> QED BY <3>1, <3>2
  <2>4. CASE A # {}
    <3>1. X(A) \in A /\ A \ {X(A)} \in SUBSET A /\ A \ {X(A)} \in SUBSET T /\ A \ {X(A)} # T
      BY <2>4, <2>1
    <3>2. h[A] = f[X(A)] + G(A \ {X(A)})[A \ {X(A)}]
      <4> HIDE DEF G, A
      <4> QED BY <2>1, <2>4
    <3>3. G(A)[A] = f[X(A)] + G(A)[A \ {X(A)}]
      <4> HIDE DEF G, A
      <4> QED BY <2>2, <2>4 DEF Recurrence
    <3>4. Recurrence(f, A \ {X(A)}, G(A \ {X(A)}))
      <4> HIDE DEF G, A
      <4> QED BY <3>1, <1>2
    <3>5. G(A)[A \ {X(A)}] = G(A \ {X(A)})[A \ {X(A)}]
      <4>1. IsFiniteSet(A)
        BY <2>1, FS_Subset
      <4> HIDE DEF G, A, X
      <4> QED BY <4>1, <3>1, <3>4, <2>2, SumUnique
    <3> HIDE DEF G, A, X, h
    <3> QED BY <3>2, <3>3, <3>5
  <2> QED BY <2>3, <2>4
<1>5. Recurrence(f, T, h)
  <2>1. ASSUME NEW s \in SUBSET T
        PROVE  h[s] = IF s = {} THEN 0 ELSE f[X(s)] + h[s \ {X(s)}]
    <3>1. CASE s = {}
      BY <3>1
    <3>2. CASE s # {}
      <4>1. h[s] = f[X(s)] + G(s \ {X(s)})[s \ {X(s)}]
        <5> HIDE DEF G, X
        <5> QED BY <3>2
      <4>2. h[s \ {X(s)}] = G(s \ {X(s)})[s \ {X(s)}]
        BY <3>2, <1>4
      <4> HIDE DEF h, G, X
      <4> QED BY <3>2, <4>1, <4>2
    <3> QED BY <3>1, <3>2
  <2>2. h = [s \in SUBSET T |-> h[s]]
    OBVIOUS
  <2>3. h = [s \in SUBSET T |-> IF s = {} THEN 0 ELSE f[X(s)] + h[s \ {X(s)}]]
    <3> HIDE DEF h, X
    <3> QED BY <2>1, <2>2
  <2> HIDE DEF h
  <2> QED BY <2>3 DEF Recurrence
<1>6. Good(T)
  BY <1>5
<1> QED BY <1>6, <1>1

(* The recurrence has one solution, which the sum is taken from.           *)
LEMMA SumOfRecurrence ==
  ASSUME NEW f, NEW S, IsFiniteSet(S), NEW T \in SUBSET S, NEW g, Recurrence(f, S, g)
  PROVE  SumFunctionOnSet(f, T) = g[T]
<1> DEFINE h == CHOOSE k : Recurrence(f, T, k)
<1>1. IsFiniteSet(T)
  BY FS_Subset
<1>2. Recurrence(f, T, h)
  BY <1>1, SumExists
<1>3. SumFunctionOnSet(f, T) = h[T]
  BY SumIs
<1> HIDE DEF h
<1>4. g[T] = h[T]
  BY <1>2, SumUnique
<1> QED BY <1>3, <1>4

(* The sum over nothing.                                                   *)
LEMMA SumEmpty ==
  ASSUME NEW f
  PROVE  SumFunctionOnSet(f, {}) = 0
<1> DEFINE h == CHOOSE k : Recurrence(f, {}, k)
<1>1. Recurrence(f, {}, h)
  BY FS_EmptySet, SumExists
<1>2. SumFunctionOnSet(f, {}) = h[{}]
  BY SumIs
<1> HIDE DEF h
<1> QED BY <1>1, <1>2 DEF Recurrence

(* A sum takes out some element first.                                     *)
LEMMA SumFirst ==
  ASSUME NEW f, NEW S, IsFiniteSet(S), S # {}
  PROVE  \E x \in S : SumFunctionOnSet(f, S) = f[x] + SumFunctionOnSet(f, S \ {x})
<1> DEFINE x == CHOOSE y \in S : TRUE
<1>1. PICK g : Recurrence(f, S, g)
  BY SumExists
<1>2. x \in S /\ S \ {x} \in SUBSET S /\ S \in SUBSET S
  OBVIOUS
<1>3. g[S] = f[x] + g[S \ {x}]
  BY <1>1 DEF Recurrence
<1> HIDE DEF x
<1>4. SumFunctionOnSet(f, S) = g[S] /\ SumFunctionOnSet(f, S \ {x}) = g[S \ {x}]
  BY <1>1, <1>2, SumOfRecurrence
<1> QED BY <1>2, <1>3, <1>4

(* A sum of integers is an integer.                                        *)
LEMMA SumIsInt ==
  ASSUME NEW f, NEW S, IsFiniteSet(S), \A x \in S : f[x] \in Int
  PROVE  SumFunctionOnSet(f, S) \in Int
<1> DEFINE Bad == {T \in SUBSET S : SumFunctionOnSet(f, T) \notin Int}
<1> SUFFICES ASSUME Bad # {} PROVE FALSE
  OBVIOUS
<1>1. PICK T \in Bad : \A U \in Bad : U \subseteq T => U = T
  <2>1. Bad \in SUBSET (SUBSET S)
    OBVIOUS
  <2> HIDE DEF Bad
  <2> QED BY <2>1, MinimalSet
<1>2. T # {} /\ IsFiniteSet(T)
  <2>1. SumFunctionOnSet(f, {}) \in Int
    BY SumEmpty
  <2>2. T \in SUBSET S /\ IsFiniteSet(T)
    BY FS_Subset
  <2> QED BY <2>1, <2>2
<1>3. PICK x \in T : SumFunctionOnSet(f, T) = f[x] + SumFunctionOnSet(f, T \ {x})
  BY <1>2, SumFirst
<1>4. T \ {x} \in SUBSET S /\ T \ {x} \notin Bad
  <2>1. T \ {x} \subseteq T /\ T \ {x} # T /\ T \ {x} \in SUBSET S
    OBVIOUS
  <2> HIDE DEF Bad
  <2> QED BY <2>1, <1>1
<1> QED BY <1>3, <1>4

(* In whichever order a sum takes its elements out, they can be taken out  *)
(* first.                                                                  *)
LEMMA SumRest ==
  ASSUME NEW f, NEW S, IsFiniteSet(S), \A x \in S : f[x] \in Int, NEW a \in S
  PROVE  SumFunctionOnSet(f, S) = f[a] + SumFunctionOnSet(f, S \ {a})
<1> DEFINE Sum(T) == SumFunctionOnSet(f, T)
           Bad == {T \in SUBSET S : \E y \in T : Sum(T) # f[y] + Sum(T \ {y})}
<1> SUFFICES ASSUME Bad # {} PROVE FALSE
  OBVIOUS
<1>1. PICK T \in Bad : \A U \in Bad : U \subseteq T => U = T
  <2>1. Bad \in SUBSET (SUBSET S)
    OBVIOUS
  <2> HIDE DEF Bad
  <2> QED BY <2>1, MinimalSet
<1>2. T \in SUBSET S /\ IsFiniteSet(T)
  BY FS_Subset
<1>3. PICK y \in T : Sum(T) # f[y] + Sum(T \ {y})
  OBVIOUS
<1>4. PICK x \in T : Sum(T) = f[x] + Sum(T \ {x})
  BY <1>2, SumFirst
<1>5. x # y
  BY <1>3, <1>4
<1>6. IsFiniteSet(T \ {x}) /\ IsFiniteSet(T \ {y}) /\ IsFiniteSet((T \ {x}) \ {y})
  BY <1>2, FS_Subset
<1>7. Sum(T \ {x}) = f[y] + Sum((T \ {x}) \ {y})
  <2>1. T \ {x} \notin Bad
    <3>1. T \ {x} \subseteq T /\ T \ {x} # T
      OBVIOUS
    <3> HIDE DEF Bad
    <3> QED BY <3>1, <1>1
  <2>2. T \ {x} \in SUBSET S /\ y \in T \ {x}
    BY <1>2, <1>5
  <2> HIDE DEF Sum
  <2> QED BY <2>1, <2>2
<1>8. Sum(T \ {y}) = f[x] + Sum((T \ {y}) \ {x})
  <2>1. T \ {y} \notin Bad
    <3>1. T \ {y} \subseteq T /\ T \ {y} # T
      OBVIOUS
    <3> HIDE DEF Bad
    <3> QED BY <3>1, <1>1
  <2>2. T \ {y} \in SUBSET S /\ x \in T \ {y}
    BY <1>2, <1>5
  <2> HIDE DEF Sum
  <2> QED BY <2>1, <2>2
<1>9. (T \ {x}) \ {y} = (T \ {y}) \ {x}
  OBVIOUS
<1>10. f[x] \in Int /\ f[y] \in Int /\ Sum((T \ {x}) \ {y}) \in Int
  BY <1>2, <1>6, SumIsInt
<1> HIDE DEF Sum
<1> QED BY <1>3, <1>4, <1>7, <1>8, <1>9, <1>10


(* Sums of equal terms are equal.                                          *)
LEMMA SumSame ==
  ASSUME NEW f, NEW g, NEW S, IsFiniteSet(S), \A x \in S : f[x] \in Int /\ f[x] = g[x]
  PROVE  SumFunctionOnSet(f, S) = SumFunctionOnSet(g, S)
<1> DEFINE Bad == {T \in SUBSET S : SumFunctionOnSet(f, T) # SumFunctionOnSet(g, T)}
<1> SUFFICES ASSUME Bad # {} PROVE FALSE
  OBVIOUS
<1>1. PICK T \in Bad : \A U \in Bad : U \subseteq T => U = T
  <2>1. Bad \in SUBSET (SUBSET S)
    OBVIOUS
  <2> HIDE DEF Bad
  <2> QED BY <2>1, MinimalSet
<1>2. T \in SUBSET S /\ IsFiniteSet(T)
  BY FS_Subset
<1>3. T # {}
  <2>1. SumFunctionOnSet(f, {}) = SumFunctionOnSet(g, {})
    BY SumEmpty, Zenon
  <2> QED BY <2>1
<1>4. PICK x \in T : SumFunctionOnSet(f, T) = f[x] + SumFunctionOnSet(f, T \ {x})
  BY <1>2, <1>3, SumFirst
<1>5. SumFunctionOnSet(g, T) = g[x] + SumFunctionOnSet(g, T \ {x})
  <2>1. \A y \in T : g[y] \in Int
    BY <1>2
  <2> QED BY <1>2, <2>1, SumRest
<1>6. T \ {x} \in SUBSET S /\ T \ {x} \notin Bad
  <2>1. T \ {x} \subseteq T /\ T \ {x} # T /\ T \ {x} \in SUBSET S
    OBVIOUS
  <2> HIDE DEF Bad
  <2> QED BY <2>1, <1>1
<1>7. f[x] = g[x]
  BY <1>2
<1> QED BY <1>4, <1>5, <1>6, <1>7

(* The sum when one term changes.                                          *)
LEMMA SumChanged ==
  ASSUME NEW S, IsFiniteSet(S), NEW f, NEW g, NEW a \in S,
         \A x \in S : f[x] \in Int /\ g[x] \in Int,
         \A x \in S \ {a} : f[x] = g[x]
  PROVE  SumFunctionOnSet(g, S) = SumFunctionOnSet(f, S) - f[a] + g[a]
<1>1. IsFiniteSet(S \ {a})
  BY FS_Subset
<1>2. SumFunctionOnSet(g, S \ {a}) = SumFunctionOnSet(f, S \ {a})
  BY <1>1, SumSame
<1>3. SumFunctionOnSet(f, S \ {a}) \in Int
  BY <1>1, SumIsInt
<1>4. SumFunctionOnSet(f, S) = f[a] + SumFunctionOnSet(f, S \ {a})
  BY SumRest
<1>5. SumFunctionOnSet(g, S) = g[a] + SumFunctionOnSet(g, S \ {a})
  BY SumRest
<1> QED BY <1>2, <1>3, <1>4, <1>5

(* What one more term between lo and hi adds.                              *)
LEMMA OneMoreTerm ==
  ASSUME NEW c \in Int, NEW d \in Int, NEW lo \in Int, NEW hi \in Int, NEW n \in Nat,
         NEW x \in Int, NEW y \in Int, NEW s \in Int, NEW t \in Int,
         lo <= c * x - d * y, c * x - d * y <= hi,
         n * lo <= c * s - d * t, c * s - d * t <= n * hi
  PROVE  /\ (n + 1) * lo <= c * (x + s) - d * (y + t)
         /\ c * (x + s) - d * (y + t) <= (n + 1) * hi
BY Z3

(* Where every term of one sum is, up to factors, between lo and hi of the *)
(* same term of another, so are the sums, once for each term.              *)
LEMMA SumBetween ==
  ASSUME NEW S, IsFiniteSet(S), NEW f, NEW g, NEW c \in Int, NEW d \in Int,
         NEW lo \in Int, NEW hi \in Int,
         \A x \in S : /\ f[x] \in Int /\ g[x] \in Int
                      /\ lo <= c * f[x] - d * g[x] /\ c * f[x] - d * g[x] <= hi
  PROVE  /\ Cardinality(S) * lo <= c * SumFunctionOnSet(f, S) - d * SumFunctionOnSet(g, S)
         /\ c * SumFunctionOnSet(f, S) - d * SumFunctionOnSet(g, S) <= Cardinality(S) * hi
<1> DEFINE F(T) == SumFunctionOnSet(f, T)
           G(T) == SumFunctionOnSet(g, T)
           Close(T) == /\ Cardinality(T) * lo <= c * F(T) - d * G(T)
                       /\ c * F(T) - d * G(T) <= Cardinality(T) * hi
           Bad == {T \in SUBSET S : ~ Close(T)}
<1> SUFFICES ASSUME Bad # {} PROVE FALSE
  OBVIOUS
<1>1. PICK T \in Bad : \A U \in Bad : U \subseteq T => U = T
  <2>1. Bad \in SUBSET (SUBSET S)
    OBVIOUS
  <2> HIDE DEF Bad
  <2> QED BY <2>1, MinimalSet
<1>2. T \in SUBSET S /\ IsFiniteSet(T)
  BY FS_Subset
<1>3. T # {}
  <2>1. F({}) = 0 /\ G({}) = 0 /\ Cardinality({}) = 0
    BY SumEmpty, FS_EmptySet
  <2>2. Close({})
    BY <2>1
  <2> QED BY <2>2
<1>4. PICK x \in T : TRUE
  BY <1>3
<1> DEFINE U == T \ {x}
<1>5. /\ U \in SUBSET S /\ IsFiniteSet(U) /\ Cardinality(U) \in Nat
      /\ Cardinality(T) = Cardinality(U) + 1
  <2>1. U \in SUBSET S /\ IsFiniteSet(U)
    BY <1>2, FS_Subset
  <2>2. Cardinality(U) \in Nat /\ Cardinality(T) \in Nat
    BY <1>2, <2>1, FS_CardinalityType
  <2>3. Cardinality(U) = Cardinality(T) - 1
    BY <1>2, FS_RemoveElement
  <2> HIDE DEF U
  <2> QED BY <2>1, <2>2, <2>3
<1>6. F(T) = f[x] + F(U) /\ G(T) = g[x] + G(U) /\ F(U) \in Int /\ G(U) \in Int
  BY <1>2, <1>5, SumRest, SumIsInt
<1>7. Close(U)
  <2>1. U \subseteq T /\ U # T
    OBVIOUS
  <2>2. U \notin Bad
    <3> HIDE DEF Bad, U
    <3> QED BY <2>1, <1>1
  <2> HIDE DEF Close, U
  <2> QED BY <2>2, <1>5
<1>8. Close(T)
  <2>1. /\ f[x] \in Int /\ g[x] \in Int
        /\ lo <= c * f[x] - d * g[x] /\ c * f[x] - d * g[x] <= hi
    BY <1>2
  <2> HIDE DEF F, G, U
  <2>2. /\ (Cardinality(U) + 1) * lo <= c * (f[x] + F(U)) - d * (g[x] + G(U))
        /\ c * (f[x] + F(U)) - d * (g[x] + G(U)) <= (Cardinality(U) + 1) * hi
    BY <1>5, <1>6, <1>7, <2>1, OneMoreTerm
  <2> QED BY <2>2, <1>5, <1>6
<1> QED BY <1>8

-----------------------------------------------------------------------------
(* Sums of parts, and of combined terms.                                   *)

(* A sum is that over some of the elements and that over the others.       *)
LEMMA SumParts ==
  ASSUME NEW f, NEW S, IsFiniteSet(S), \A x \in S : f[x] \in Int, NEW T \in SUBSET S
  PROVE  SumFunctionOnSet(f, S) = SumFunctionOnSet(f, T) + SumFunctionOnSet(f, S \ T)
<1> DEFINE Sum(A) == SumFunctionOnSet(f, A)
           Bad == {A \in SUBSET S : Sum(S) # Sum(A) + Sum(S \ A)}
<1> SUFFICES ASSUME Bad # {} PROVE FALSE
  OBVIOUS
<1>1. PICK A \in Bad : \A B \in Bad : B \subseteq A => B = A
  <2>1. Bad \in SUBSET (SUBSET S)
    OBVIOUS
  <2> HIDE DEF Bad
  <2> QED BY <2>1, MinimalSet
<1>2. A \in SUBSET S /\ IsFiniteSet(A) /\ Sum(S) # Sum(A) + Sum(S \ A)
  BY FS_Subset
<1>3. A # {}
  <2>1. Sum({}) = 0 /\ S \ {} = S /\ Sum(S) \in Int
    BY SumEmpty, SumIsInt
  <2>2. ASSUME A = {} PROVE Sum(S) = Sum(A) + Sum(S \ A)
    <3>1. Sum(A) = Sum({}) /\ Sum(S \ A) = Sum(S \ {})
      BY <2>2
    <3> HIDE DEF Sum
    <3> QED BY <3>1, <2>1
  <2> HIDE DEF Sum
  <2> QED BY <2>2, <1>2
<1>4. PICK x \in A : TRUE
  BY <1>3
<1> DEFINE B == A \ {x}
<1>5. B \in SUBSET S /\ B \subseteq A /\ B # A /\ IsFiniteSet(S \ B) /\ x \in S \ B /\ (S \ B) \ {x} = S \ A
  BY <1>2, FS_Subset
<1>6. Sum(S) = Sum(B) + Sum(S \ B)
  <2>1. B \notin Bad
    <3> HIDE DEF Bad, B
    <3> QED BY <1>1, <1>5
  <2> HIDE DEF Sum, B
  <2> QED BY <2>1, <1>5
<1>7. Sum(A) = f[x] + Sum(B)
  BY <1>2, SumRest
<1>8. Sum(S \ B) = f[x] + Sum(S \ A)
  <2>1. \A y \in S \ B : f[y] \in Int
    OBVIOUS
  <2>2. Sum(S \ B) = f[x] + Sum((S \ B) \ {x})
    <3> HIDE DEF B
    <3> QED BY <2>1, <1>5, SumRest
  <2> HIDE DEF Sum, B
  <2> QED BY <2>2, <1>5
<1>9. f[x] \in Int /\ Sum(B) \in Int /\ Sum(S \ A) \in Int
  <2>1. IsFiniteSet(B) /\ IsFiniteSet(S \ A)
    BY <1>2, FS_Subset
  <2>2. \A y \in B : f[y] \in Int
    BY <1>5
  <2>3. \A y \in S \ A : f[y] \in Int
    OBVIOUS
  <2> HIDE DEF B
  <2> QED BY <1>5, <2>1, <2>2, <2>3, SumIsInt
<1> HIDE DEF Sum, B
<1> QED BY <1>2, <1>6, <1>7, <1>8, <1>9

(* Terms that are zero add nothing.                                        *)
LEMMA SumZero ==
  ASSUME NEW f, NEW S, IsFiniteSet(S), \A x \in S : f[x] = 0
  PROVE  SumFunctionOnSet(f, S) = 0
<1>1. SumFunctionOnSet(f, S) \in Int
  BY SumIsInt
<1>2. \A x \in S : /\ f[x] \in Int
                   /\ 0 <= 1 * f[x] - 0 * f[x] /\ 1 * f[x] - 0 * f[x] <= 0
  OBVIOUS
<1>3. /\ Cardinality(S) * 0 <= 1 * SumFunctionOnSet(f, S) - 0 * SumFunctionOnSet(f, S)
      /\ 1 * SumFunctionOnSet(f, S) - 0 * SumFunctionOnSet(f, S) <= Cardinality(S) * 0
  <2>1. 0 \in Int /\ 1 \in Int
    OBVIOUS
  <2> QED BY <1>2, <2>1, SumBetween
<1>4. Cardinality(S) \in Nat
  BY FS_CardinalityType
<1> QED BY <1>1, <1>3, <1>4

(* A sum over some of the elements is a sum over all of them, of zero for  *)
(* the others.                                                             *)
LEMMA SumWhere ==
  ASSUME NEW f, NEW g, NEW S, IsFiniteSet(S), NEW T \in SUBSET S,
         \A x \in T : f[x] \in Int /\ g[x] = f[x],
         \A x \in S \ T : g[x] = 0
  PROVE  SumFunctionOnSet(g, S) = SumFunctionOnSet(f, T)
<1>1. IsFiniteSet(T) /\ IsFiniteSet(S \ T)
  BY FS_Subset
<1>2. \A x \in S : g[x] \in Int
  OBVIOUS
<1>3. SumFunctionOnSet(g, S) = SumFunctionOnSet(g, T) + SumFunctionOnSet(g, S \ T)
  BY <1>2, SumParts
<1>4. SumFunctionOnSet(g, S \ T) = 0
  BY <1>1, SumZero
<1>5. SumFunctionOnSet(f, T) = SumFunctionOnSet(g, T)
  BY <1>1, SumSame
<1>6. SumFunctionOnSet(f, T) \in Int
  BY <1>1, SumIsInt
<1> QED BY <1>3, <1>4, <1>5, <1>6

(* The sum of a function that is written for its domain.                   *)
LEMMA SumOver ==
  ASSUME NEW f, NEW S, IsFiniteSet(S), NEW g, g = [x \in S |-> g[x]],
         \A x \in S : f[x] \in Int /\ g[x] = f[x]
  PROVE  SumFunction(g) = SumFunctionOnSet(f, S)
<1>1. SumFunctionOnSet(f, S) = SumFunctionOnSet(g, S)
  BY SumSame
<1>2. DOMAIN g = S
  <2>1. DOMAIN [x \in S |-> g[x]] = S
    OBVIOUS
  <2> QED BY <2>1
<1> QED BY <1>1, <1>2, Zenon DEF SumFunction

(* One more term of a combination.                                         *)
LEMMA OneMoreCombined ==
  ASSUME NEW c \in Int, NEW d \in Int, NEW x \in Int, NEW y \in Int, NEW s \in Int, NEW t \in Int
  PROVE  (c * x + d * y) + (c * s + d * t) = c * (x + s) + d * (y + t)
BY Z3

(* A sum of combined terms combines the sums.                              *)
LEMMA SumCombined ==
  ASSUME NEW S, IsFiniteSet(S), NEW f, NEW g, NEW h, NEW c \in Int, NEW d \in Int,
         \A x \in S : f[x] \in Int /\ g[x] \in Int /\ h[x] = c * f[x] + d * g[x]
  PROVE  SumFunctionOnSet(h, S) = c * SumFunctionOnSet(f, S) + d * SumFunctionOnSet(g, S)
<1> DEFINE F(A) == SumFunctionOnSet(f, A)
           G(A) == SumFunctionOnSet(g, A)
           H(A) == SumFunctionOnSet(h, A)
           Bad == {A \in SUBSET S : H(A) # c * F(A) + d * G(A)}
<1> SUFFICES ASSUME Bad # {} PROVE FALSE
  OBVIOUS
<1>1. PICK A \in Bad : \A B \in Bad : B \subseteq A => B = A
  <2>1. Bad \in SUBSET (SUBSET S)
    OBVIOUS
  <2> HIDE DEF Bad
  <2> QED BY <2>1, MinimalSet
<1>2. A \in SUBSET S /\ IsFiniteSet(A) /\ H(A) # c * F(A) + d * G(A)
  BY FS_Subset
<1>3. A # {}
  <2>1. F({}) = 0 /\ G({}) = 0 /\ H({}) = 0
    BY SumEmpty
  <2>2. c * 0 + d * 0 = 0
    OBVIOUS
  <2>3. ASSUME A = {} PROVE H(A) = c * F(A) + d * G(A)
    <3>1. F(A) = F({}) /\ G(A) = G({}) /\ H(A) = H({})
      BY <2>3
    <3> HIDE DEF F, G, H
    <3> QED BY <3>1, <2>1, <2>2
  <2> HIDE DEF F, G, H
  <2> QED BY <2>3, <1>2
<1>4. PICK x \in A : TRUE
  BY <1>3
<1> DEFINE B == A \ {x}
<1>5. B \in SUBSET S /\ B \subseteq A /\ B # A /\ IsFiniteSet(B)
  BY <1>2, FS_Subset
<1>6. \A y \in S : h[y] \in Int
  <2>1. \A u, v \in Int : c * u + d * v \in Int
    OBVIOUS
  <2> QED BY <2>1
<1>7. H(B) = c * F(B) + d * G(B)
  <2>1. B \notin Bad
    <3> HIDE DEF Bad, B
    <3> QED BY <1>1, <1>5
  <2> HIDE DEF F, G, H, B
  <2> QED BY <2>1, <1>5
<1>8. F(A) = f[x] + F(B) /\ G(A) = g[x] + G(B) /\ H(A) = h[x] + H(B)
  BY <1>2, <1>6, SumRest
<1>9. F(B) \in Int /\ G(B) \in Int
  <2>1. \A y \in B : f[y] \in Int /\ g[y] \in Int
    BY <1>5
  <2> HIDE DEF B
  <2> QED BY <2>1, <1>5, SumIsInt
<1>10. x \in S /\ f[x] \in Int /\ g[x] \in Int /\ h[x] = c * f[x] + d * g[x]
  BY <1>2
<1> HIDE DEF F, G, H, B
<1>11. (c * f[x] + d * g[x]) + (c * F(B) + d * G(B)) = c * (f[x] + F(B)) + d * (g[x] + G(B))
  BY <1>9, <1>10, OneMoreCombined
<1> QED BY <1>2, <1>7, <1>8, <1>10, <1>11

LEMMA SumAdded ==
  ASSUME NEW S, IsFiniteSet(S), NEW f, NEW g, NEW h,
         \A x \in S : f[x] \in Int /\ g[x] \in Int /\ h[x] = f[x] + g[x]
  PROVE  SumFunctionOnSet(h, S) = SumFunctionOnSet(f, S) + SumFunctionOnSet(g, S)
<1> PICK c \in Int : c = 1
  OBVIOUS
<1>1. \A x \in S : f[x] \in Int /\ g[x] \in Int /\ h[x] = c * f[x] + c * g[x]
  OBVIOUS
<1>2. SumFunctionOnSet(h, S) = c * SumFunctionOnSet(f, S) + c * SumFunctionOnSet(g, S)
  BY <1>1, SumCombined
<1>3. SumFunctionOnSet(f, S) \in Int /\ SumFunctionOnSet(g, S) \in Int
  BY SumIsInt
<1> QED BY <1>2, <1>3

LEMMA SumSubtracted ==
  ASSUME NEW S, IsFiniteSet(S), NEW f, NEW g, NEW h,
         \A x \in S : f[x] \in Int /\ g[x] \in Int /\ h[x] = f[x] - g[x]
  PROVE  SumFunctionOnSet(h, S) = SumFunctionOnSet(f, S) - SumFunctionOnSet(g, S)
<1> PICK c \in Int, d \in Int : c = 1 /\ d = -1
  OBVIOUS
<1>1. \A x \in S : f[x] \in Int /\ g[x] \in Int /\ h[x] = c * f[x] + d * g[x]
  OBVIOUS
<1>2. SumFunctionOnSet(h, S) = c * SumFunctionOnSet(f, S) + d * SumFunctionOnSet(g, S)
  BY <1>1, SumCombined
<1>3. SumFunctionOnSet(f, S) \in Int /\ SumFunctionOnSet(g, S) \in Int
  BY SumIsInt
<1> QED BY <1>2, <1>3

LEMMA SumNegated ==
  ASSUME NEW S, IsFiniteSet(S), NEW f, NEW h, \A x \in S : f[x] \in Int /\ h[x] = -f[x]
  PROVE  SumFunctionOnSet(h, S) = -SumFunctionOnSet(f, S)
<1> PICK c \in Int, d \in Int : c = -1 /\ d = 0
  OBVIOUS
<1>1. \A x \in S : f[x] \in Int /\ h[x] = c * f[x] + d * f[x]
  OBVIOUS
<1>2. SumFunctionOnSet(h, S) = c * SumFunctionOnSet(f, S) + d * SumFunctionOnSet(f, S)
  BY <1>1, SumCombined
<1>3. SumFunctionOnSet(f, S) \in Int
  BY SumIsInt
<1> QED BY <1>2, <1>3

(* A sum is the sum, over the parts of a partition, of the sums over each. *)
LEMMA GroupsAddUp ==
  ASSUME NEW S, IsFiniteSet(S), NEW f, \A x \in S : f[x] \in Int,
         NEW L, IsFiniteSet(L), NEW part, \A x \in S : part[x] \in L
  PROVE  SumFunctionOnSet([l \in L |-> SumFunctionOnSet(f, {x \in S : part[x] = l})], L)
           = SumFunctionOnSet(f, S)
<1> DEFINE Group(A, l) == {x \in A : part[x] = l}
           Of(A) == [l \in L |-> SumFunctionOnSet(f, Group(A, l))]
           F(A) == SumFunctionOnSet(f, A)
           Bad == {A \in SUBSET S : SumFunctionOnSet(Of(A), L) # F(A)}
<1>1. Bad = {}
  <2> SUFFICES ASSUME Bad # {} PROVE FALSE
    OBVIOUS
  <2>1. PICK A \in Bad : \A B \in Bad : B \subseteq A => B = A
    <3>1. Bad \in SUBSET (SUBSET S)
      OBVIOUS
    <3> HIDE DEF Bad
    <3> QED BY <3>1, MinimalSet
  <2>2. A \in SUBSET S /\ IsFiniteSet(A) /\ SumFunctionOnSet(Of(A), L) # F(A)
    BY FS_Subset
  <2>3. A # {}
    <3>1. ASSUME A = {} PROVE FALSE
      <4>1. \A l \in L : Of(A)[l] = 0
        <5>1. \A l \in L : Group(A, l) = {}
          BY <3>1
        <5> HIDE DEF Group
        <5> QED BY <5>1, SumEmpty
      <4>2. F(A) = 0
        BY <3>1, SumEmpty
      <4> HIDE DEF Of, F
      <4> QED BY <2>2, <4>1, <4>2, SumZero
    <3> QED BY <3>1
  <2>4. PICK x \in A : TRUE
    BY <2>3
  <2> DEFINE B == A \ {x}
             k == part[x]
  <2>5. /\ B \in SUBSET S /\ B \subseteq A /\ B # A /\ IsFiniteSet(B)
        /\ x \in S /\ f[x] \in Int /\ k \in L
    BY <2>2, FS_Subset
  <2>6. SumFunctionOnSet(Of(B), L) = F(B)
    <3>1. B \notin Bad
      <4> HIDE DEF Bad, B
      <4> QED BY <2>1, <2>5
    <3> HIDE DEF F, Of, B
    <3> QED BY <3>1, <2>5
  <2>7. F(A) = f[x] + F(B)
    BY <2>2, SumRest
  <2>8. ASSUME NEW D \in SUBSET S, NEW l \in L
        PROVE  /\ IsFiniteSet(Group(D, l)) /\ Of(D)[l] \in Int
               /\ Of(D)[l] = SumFunctionOnSet(f, Group(D, l)) /\ Group(D, l) \in SUBSET S
    <3>1. Group(D, l) \in SUBSET S /\ IsFiniteSet(Group(D, l))
      BY FS_Subset
    <3>2. SumFunctionOnSet(f, Group(D, l)) \in Int
      <4> HIDE DEF Group
      <4> QED BY <3>1, SumIsInt
    <3> HIDE DEF Group
    <3> QED BY <3>1, <3>2
  <2>9. \A l \in L \ {k} : Of(B)[l] = Of(A)[l]
    <3> SUFFICES ASSUME NEW l \in L, l # k PROVE Of(B)[l] = Of(A)[l]
      OBVIOUS
    <3>1. Group(B, l) = Group(A, l)
      BY <2>2
    <3> HIDE DEF Group, B
    <3> QED BY <3>1
  <2>10. Of(A)[k] = f[x] + Of(B)[k]
    <3>1. x \in Group(A, k) /\ Group(A, k) \ {x} = Group(B, k)
      BY <2>4
    <3>2. IsFiniteSet(Group(A, k)) /\ \A y \in Group(A, k) : f[y] \in Int
      BY <2>2, <2>5, <2>8
    <3>3. SumFunctionOnSet(f, Group(A, k)) = f[x] + SumFunctionOnSet(f, Group(A, k) \ {x})
      <4> HIDE DEF Group, k, B
      <4> QED BY <3>1, <3>2, SumRest
    <3> HIDE DEF Group, B, k
    <3> QED BY <3>1, <3>3, <2>5
  <2>11. SumFunctionOnSet(Of(A), L) = SumFunctionOnSet(Of(B), L) - Of(B)[k] + Of(A)[k]
    <3>1. \A l \in L : Of(B)[l] \in Int /\ Of(A)[l] \in Int
      BY <2>2, <2>5, <2>8
    <3> HIDE DEF Of, B, k
    <3> PICK u, v, m : u = Of(B) /\ v = Of(A) /\ m = k
      OBVIOUS
    <3>2. /\ \A l \in L : u[l] \in Int /\ v[l] \in Int
          /\ \A l \in L \ {m} : u[l] = v[l]
          /\ m \in L
      BY <2>5, <2>9, <3>1
    <3>3. SumFunctionOnSet(v, L) = SumFunctionOnSet(u, L) - u[m] + v[m]
      BY <3>2, SumChanged, SMTT(60)
    <3> QED BY <3>3
  <2>12. F(B) \in Int /\ Of(B)[k] \in Int
    <3>1. \A y \in B : f[y] \in Int
      BY <2>5
    <3>2. Of(B)[k] \in Int
      BY <2>5, <2>8
    <3>3. F(B) \in Int
      <4> HIDE DEF B
      <4> QED BY <3>1, <2>5, SumIsInt
    <3> QED BY <3>2, <3>3
  <2> HIDE DEF F, Of, B, k
  <2> QED BY <2>2, <2>5, <2>6, <2>7, <2>10, <2>11, <2>12
<1>2. SumFunctionOnSet(Of(S), L) = F(S)
  <2>1. S \in SUBSET S
    OBVIOUS
  <2> HIDE DEF F, Of
  <2> QED BY <1>1, <2>1
<1> QED BY <1>2

LEMMA SumOfGroups ==
  ASSUME NEW S, IsFiniteSet(S), NEW f, \A x \in S : f[x] \in Int,
         NEW L, IsFiniteSet(L), NEW part, \A x \in S : part[x] \in L,
         NEW g, \A l \in L : g[l] = SumFunctionOnSet(f, {x \in S : part[x] = l})
  PROVE  SumFunctionOnSet(g, L) = SumFunctionOnSet(f, S)
<1> DEFINE Group(l) == {x \in S : part[x] = l}
           sums == [l \in L |-> SumFunctionOnSet(f, Group(l))]
<1>1. SumFunctionOnSet(sums, L) = SumFunctionOnSet(f, S)
  BY GroupsAddUp
<1>2. \A l \in L : sums[l] = g[l] /\ sums[l] \in Int
  <2> SUFFICES ASSUME NEW l \in L PROVE SumFunctionOnSet(f, Group(l)) \in Int
    OBVIOUS
  <2>1. IsFiniteSet(Group(l)) /\ \A y \in Group(l) : f[y] \in Int
    BY FS_Subset
  <2> HIDE DEF Group
  <2> QED BY <2>1, SumIsInt
<1>3. SumFunctionOnSet(sums, L) = SumFunctionOnSet(g, L)
  <2> HIDE DEF sums
  <2> QED BY <1>2, SumSame
<1> QED BY <1>1, <1>3

-----------------------------------------------------------------------------
(* Sums of the values of a function.                                       *)

(* The members of a set that belong to a group.                            *)
PartOf(S, part, l) == {x \in S : part[x] = l}

(* A function of groups, each with its share of a sum, adds up to the sum. *)
LEMMA SumOverGroups ==
  ASSUME NEW S, IsFiniteSet(S), NEW f, \A x \in S : f[x] \in Int,
         NEW L, IsFiniteSet(L), NEW part, \A x \in S : part[x] \in L,
         NEW g, g = [l \in L |-> g[l]],
         \A l \in L : g[l] = SumFunctionOnSet(f, PartOf(S, part, l))
  PROVE  SumFunction(g) = SumFunctionOnSet(f, S)
<1>1. DOMAIN g = L
  <2>1. DOMAIN [l \in L |-> g[l]] = L
    OBVIOUS
  <2> QED BY <2>1
<1>2. SumFunction(g) = SumFunctionOnSet(g, L)
  BY <1>1, Zenon DEF SumFunction
<1>3. \A l \in L : g[l] = SumFunctionOnSet(f, {x \in S : part[x] = l})
  BY DEF PartOf
<1>4. SumFunctionOnSet(g, L) = SumFunctionOnSet(f, S)
  BY <1>3, SumOfGroups
<1> QED BY <1>2, <1>4

LEMMA SumFunctionIs ==
  ASSUME NEW S, IsFiniteSet(S), NEW g, g = [x \in S |-> g[x]], \A x \in S : g[x] \in Int
  PROVE  SumFunction(g) = SumFunctionOnSet(g, S) /\ SumFunction(g) \in Int
<1>1. SumFunction(g) = SumFunctionOnSet(g, S)
  BY SumOver
<1>2. SumFunctionOnSet(g, S) \in Int
  BY SumIsInt
<1> QED BY <1>1, <1>2

(* What is left out adds nothing.                                          *)
LEMMA SumFunctionWhere ==
  ASSUME NEW S, IsFiniteSet(S), NEW T \in SUBSET S,
         NEW g, g = [x \in S |-> g[x]], \A x \in S : g[x] \in Int,
         NEW h, h = [x \in T |-> h[x]], \A x \in T : h[x] = g[x],
         \A x \in S \ T : g[x] = 0
  PROVE  SumFunction(g) = SumFunction(h)
<1>1. SumFunction(g) = SumFunctionOnSet(g, S)
  BY SumFunctionIs
<1>2. IsFiniteSet(T) /\ \A x \in T : h[x] \in Int
  BY FS_Subset
<1>3. SumFunction(h) = SumFunctionOnSet(h, T)
  BY <1>2, SumFunctionIs
<1>4. \A x \in T : h[x] \in Int /\ g[x] = h[x]
  BY <1>2
<1>5. SumFunctionOnSet(g, S) = SumFunctionOnSet(h, T)
  BY <1>4, SumWhere
<1> QED BY <1>1, <1>3, <1>5

(* Adding up term by term.                                                 *)
LEMMA SumFunctionAdded ==
  ASSUME NEW S, IsFiniteSet(S), NEW f, f = [x \in S |-> f[x]], NEW g, g = [x \in S |-> g[x]],
         NEW h, h = [x \in S |-> h[x]],
         \A x \in S : f[x] \in Int /\ g[x] \in Int /\ h[x] = f[x] + g[x]
  PROVE  SumFunction(h) = SumFunction(f) + SumFunction(g)
<1>1. \A x \in S : h[x] \in Int
  OBVIOUS
<1>2. SumFunction(f) = SumFunctionOnSet(f, S)
  BY SumFunctionIs
<1>3. SumFunction(g) = SumFunctionOnSet(g, S)
  BY SumFunctionIs
<1>4. SumFunction(h) = SumFunctionOnSet(h, S)
  BY <1>1, SumFunctionIs
<1>5. SumFunctionOnSet(h, S) = SumFunctionOnSet(f, S) + SumFunctionOnSet(g, S)
  BY SumAdded
<1> QED BY <1>2, <1>3, <1>4, <1>5

-----------------------------------------------------------------------------
(* Division.                                                               *)

(* Division with remainder.                                                *)
LEMMA Division ==
  ASSUME NEW n \in Int, NEW d \in Int, d > 0
  PROVE  /\ n \div d \in Int /\ n % d \in Int /\ 0 <= n % d /\ n % d < d
         /\ n = d * (n \div d) + (n % d)
OBVIOUS

(* One more multiple.                                                      *)
LEMMA OneMultipleMore ==
  ASSUME NEW d \in Int, NEW q \in Int
  PROVE  d * (q + 1) = d * q + d
BY Z3

(* A product with a positive factor has the sign of the other.             *)
LEMMA Sign ==
  ASSUME NEW d \in Int, d > 0, NEW x \in Int
  PROVE  /\ d * x \in Int
         /\ d * x > -d => x >= 0
         /\ d * x < d => x <= 0
         /\ x >= 0 => d * x >= 0
BY Z3

LEMMA Distributes ==
  ASSUME NEW d \in Int, NEW x \in Int, NEW y \in Int
  PROVE  d * (x - y) = d * x - d * y /\ d * (x + y) = d * x + d * y
BY Z3

(* Some multiples further on.                                              *)
LEMMA DivisionMoved ==
  ASSUME NEW n \in Int, NEW d \in Int, d > 0, NEW m \in Int
  PROVE  (n + d * m) \div d = n \div d + m
<1>1. PICK q, r : q = n \div d /\ r = n % d
  OBVIOUS
<1>2. PICK x : x = n + d * m
  OBVIOUS
<1>3. PICK p, s : p = x \div d /\ s = x % d
  OBVIOUS
<1>4. q \in Int /\ r \in Int /\ 0 <= r /\ r < d /\ n = d * q + r
  BY <1>1, Division
<1>5. d * m \in Int /\ x \in Int
  BY <1>2, Sign
<1>6. p \in Int /\ s \in Int /\ 0 <= s /\ s < d /\ x = d * p + s
  BY <1>3, <1>5, Division
<1>7. PICK k \in Int : k = p - (q + m)
  BY <1>4, <1>6
<1>8. d * k = d * p - (d * q + d * m)
  BY <1>4, <1>6, <1>7, Distributes
<1>9. d * p \in Int /\ d * q \in Int /\ d * k \in Int
  BY <1>4, <1>6, Sign
<1>10. d * k = r - s
  BY <1>2, <1>4, <1>5, <1>6, <1>8, <1>9
<1>11. d * k > -d /\ d * k < d
  BY <1>4, <1>6, <1>10
<1>12. k = 0
  BY <1>11, Sign
<1> QED BY <1>1, <1>2, <1>3, <1>4, <1>6, <1>7, <1>12

LEMMA DivisionGrows ==
  ASSUME NEW d \in Int, d > 0, NEW x \in Int, NEW y \in Int, x <= y
  PROVE  x \div d <= y \div d
<1>1. PICK q, r : q = x \div d /\ r = x % d
  OBVIOUS
<1>2. PICK p, s : p = y \div d /\ s = y % d
  OBVIOUS
<1>3. q \in Int /\ r \in Int /\ 0 <= r /\ r < d /\ x = d * q + r
  BY <1>1, Division
<1>4. p \in Int /\ s \in Int /\ 0 <= s /\ s < d /\ y = d * p + s
  BY <1>2, Division
<1>5. PICK k \in Int : k = p - q
  BY <1>3, <1>4
<1>6. d * k = d * p - d * q /\ d * p \in Int /\ d * q \in Int
  BY <1>3, <1>4, <1>5, Distributes, Sign
<1>7. d * k > -d
  BY <1>3, <1>4, <1>6
<1>8. k >= 0
  BY <1>7, Sign
<1> QED BY <1>1, <1>2, <1>3, <1>4, <1>5, <1>8
=============================================================================
