-------------------------------- MODULE Sums --------------------------------
(***************************************************************************)
(* Facts about SumFunction, the sum of the values of a function: the       *)
(* balances of the escrow and of the pool are compared with such sums.     *)
(*                                                                         *)
(* The sum is a fold, and a fold is a recursive function chosen to satisfy *)
(* its equation, so first such a function must be shown to exist.  Every   *)
(* argument by induction is one about a smallest counterexample: among the *)
(* subsets of a finite set that have some defect, one has it while none of *)
(* its proper subsets does.                                                *)
(***************************************************************************)
EXTENDS Functions, FiniteSetTheorems, TLAPS

-----------------------------------------------------------------------------
(* Smallest counterexamples, and the function the sum unfolds to.          *)

\* Every set of finite sets has a member none of whose proper subsets is in it.
LEMMA Smallest ==
  ASSUME NEW S, IsFiniteSet(S), NEW F \in SUBSET (SUBSET S), F # {}
  PROVE  \E T \in F : \A U \in SUBSET T : U \in F => U = T
<1>1. F \subseteq FiniteSubsetsOf(S)
  BY FS_FiniteSubsetsOfFinite
<1>2. IsWellFoundedOn(StrictSubsetOrdering(S), FiniteSubsetsOf(S))
  BY FS_StrictSubsetOrderingWellFounded
<1>3. PICK T \in F : \A U \in F : ~ (<<U, T>> \in StrictSubsetOrdering(S))
  BY <1>1, <1>2, WFMin
<1>4. QED
  BY <1>3 DEF StrictSubsetOrdering

\* The element a fold over s takes first, and what it leaves.
First(s) == CHOOSE x \in s : TRUE

Rest(s) == s \ {First(s)}

\* sum gives every part s of S the sum of f over it.
SumsUp(f, S, sum) ==
  sum = [s \in SUBSET S |-> IF s = {} THEN 0 ELSE f[First(s)] + sum[Rest(s)]]

Summation(f, S) == CHOOSE sum : SumsUp(f, S, sum)

\* The library's fold over S is the value at S of that function.
LEMMA SumExpanded ==
  ASSUME NEW f, NEW S
  PROVE  SumFunctionOnSet(f, S) = Summation(f, S)[S]
BY DEF SumFunctionOnSet, FoldFunctionOnSet, MapThenFoldSet, SumsUp, First, Rest, Summation

\* A set is its first element and the rest.
LEMMA RestIsSmaller ==
  ASSUME NEW s, s # {}
  PROVE  First(s) \in s /\ Rest(s) \subseteq s /\ Rest(s) # s /\ s = Rest(s) \cup {First(s)}
         /\ First(s) \notin Rest(s)
BY DEF First, Rest

\* Two functions that satisfy the equation are equal.
LEMMA OneSummation ==
  ASSUME NEW f, NEW S, IsFiniteSet(S), NEW g, NEW h, SumsUp(f, S, g), SumsUp(f, S, h)
  PROVE  g = h
<1> DEFINE Differ == {s \in SUBSET S : g[s] # h[s]}
<1>1. SUFFICES ASSUME Differ # {} PROVE FALSE
  BY DEF SumsUp
<1>2. PICK s \in Differ : \A u \in SUBSET s : u \in Differ => u = s
  <2>1. Differ \in SUBSET (SUBSET S)
    OBVIOUS
  <2> HIDE DEF Differ
  <2>2. QED
    BY <1>1, <2>1, Smallest
<1>3. s # {}
  BY <1>2 DEF SumsUp
<1>4. Rest(s) \in SUBSET S /\ g[Rest(s)] = h[Rest(s)]
  BY <1>2, <1>3, RestIsSmaller
<1>5. g[s] = f[First(s)] + g[Rest(s)]
  BY <1>2, <1>3 DEF SumsUp
<1>6. h[s] = f[First(s)] + h[Rest(s)]
  BY <1>2, <1>3 DEF SumsUp
<1>7. QED
  BY <1>2, <1>4, <1>5, <1>6

\* A function that adds up f over S does so over every part of S.
LEMMA PartOfSummation ==
  ASSUME NEW f, NEW S, NEW g, SumsUp(f, S, g), NEW U \in SUBSET S
  PROVE  SumsUp(f, U, [s \in SUBSET U |-> g[s]])
<1> DEFINE part == [s \in SUBSET U |-> g[s]]
<1>1. \A s \in SUBSET U : s # {} => g[s] = f[First(s)] + part[Rest(s)]
  BY RestIsSmaller DEF SumsUp
<1>2. \A s \in SUBSET U : s = {} => g[s] = 0
  BY DEF SumsUp
<1>3. QED
  BY <1>1, <1>2 DEF SumsUp

\* Some function satisfies the equation: built on the parts from those below.
LEMMA SummationExists ==
  ASSUME NEW f, NEW S, IsFiniteSet(S)
  PROVE  SumsUp(f, S, Summation(f, S))
<1> DEFINE Without == {T \in SUBSET S : ~SumsUp(f, T, Summation(f, T))}
<1>1. SUFFICES ASSUME Without # {} PROVE FALSE
  OBVIOUS
<1>2. PICK T \in Without : \A U \in SUBSET T : U \in Without => U = T
  <2>1. Without \in SUBSET (SUBSET S)
    OBVIOUS
  <2> HIDE DEF Without
  <2>2. QED
    BY <1>1, <2>1, Smallest
<1>3. \A U \in SUBSET T : U # T => SumsUp(f, U, Summation(f, U))
  BY <1>2
<1> DEFINE V(s) == Summation(f, s)[s]
            g == [s \in SUBSET T |-> IF s = {} THEN 0 ELSE f[First(s)] + V(Rest(s))]
<1>4. ASSUME NEW s \in SUBSET T, s # {}
      PROVE  g[Rest(s)] = V(Rest(s))
  <2> DEFINE u == Rest(s)
  <2>1. u \in SUBSET T /\ u # T
    BY <1>4, RestIsSmaller
  <2>2. SumsUp(f, u, Summation(f, u))
    BY <1>3, <2>1
  <2>3. CASE u = {}
    <3>1. Summation(f, u)[u] = 0
      BY <2>2, <2>3 DEF SumsUp
    <3>2. QED
      BY <3>1, <2>1, <2>3
  <2>4. CASE u # {}
    <3> DEFINE r == Rest(u)
    <3>1. r \in SUBSET u /\ r # T /\ r \in SUBSET T
      BY <2>1, <2>4, RestIsSmaller
    <3>2. SumsUp(f, r, Summation(f, r))
      BY <1>3, <3>1
    <3>3. SumsUp(f, r, [t \in SUBSET r |-> Summation(f, u)[t]])
      BY <2>2, <3>1, PartOfSummation
    <3>4. IsFiniteSet(r)
      BY <3>1, <1>2, FS_Subset
    <3>5. Summation(f, r) = [t \in SUBSET r |-> Summation(f, u)[t]]
      BY <3>2, <3>3, <3>4, OneSummation
    <3>6. Summation(f, u)[r] = V(r)
      BY <3>5
    <3>7. Summation(f, u)[u] = f[First(u)] + Summation(f, u)[r]
      BY <2>2, <2>4 DEF SumsUp
    <3>8. g[u] = f[First(u)] + V(r)
      BY <2>1, <2>4
    <3>9. QED
      BY <3>6, <3>7, <3>8
  <2>5. QED
    BY <2>3, <2>4
<1>5. SumsUp(f, T, g)
  <2>1. \A s \in SUBSET T : s # {} => g[s] = f[First(s)] + g[Rest(s)]
    BY <1>4
  <2>2. \A s \in SUBSET T : s = {} => g[s] = 0
    OBVIOUS
  <2>3. g = [s \in SUBSET T |-> g[s]]
    OBVIOUS
  <2> HIDE DEF g
  <2>4. QED
    BY <2>1, <2>2, <2>3 DEF SumsUp
<1>6. SumsUp(f, T, Summation(f, T))
  BY <1>5 DEF Summation
<1>7. QED
  BY <1>2, <1>6

-----------------------------------------------------------------------------
(* What a sum is.                                                          *)

\* The sum over no element is zero.
LEMMA SumOfNone ==
  ASSUME NEW f
  PROVE  SumFunctionOnSet(f, {}) = 0
<1>1. SumsUp(f, {}, Summation(f, {}))
  BY SummationExists, FS_EmptySet
<1>2. QED
  BY <1>1, SumExpanded DEF SumsUp

\* A sum is the first summand and the sum of the rest.
LEMMA SumByRest ==
  ASSUME NEW f, NEW S, IsFiniteSet(S), S # {}
  PROVE  SumFunctionOnSet(f, S) = f[First(S)] + SumFunctionOnSet(f, Rest(S))
<1>1. SumsUp(f, S, Summation(f, S))
  BY SummationExists
<1>2. IsFiniteSet(Rest(S)) /\ Rest(S) \in SUBSET S
  BY FS_Subset, RestIsSmaller
<1>3. SumsUp(f, Rest(S), Summation(f, Rest(S)))
  BY <1>2, SummationExists
<1>4. Summation(f, Rest(S)) = [s \in SUBSET Rest(S) |-> Summation(f, S)[s]]
  <2>1. SumsUp(f, Rest(S), [s \in SUBSET Rest(S) |-> Summation(f, S)[s]])
    BY <1>1, <1>2, PartOfSummation
  <2>2. QED
    BY <1>2, <1>3, <2>1, OneSummation
<1>5. Summation(f, Rest(S))[Rest(S)] = Summation(f, S)[Rest(S)]
  BY <1>4
<1>6. Summation(f, S)[S] = f[First(S)] + Summation(f, S)[Rest(S)]
  BY <1>1 DEF SumsUp
<1>7. QED
  BY <1>5, <1>6, SumExpanded

\* A finite sum of integers is an integer.
LEMMA SumIsInt ==
  ASSUME NEW f, NEW S, IsFiniteSet(S), \A x \in S : f[x] \in Int
  PROVE  SumFunctionOnSet(f, S) \in Int
<1> DEFINE Not == {T \in SUBSET S : SumFunctionOnSet(f, T) \notin Int}
<1>1. SUFFICES ASSUME Not # {} PROVE FALSE
  OBVIOUS
<1>2. PICK T \in Not : \A U \in SUBSET T : U \in Not => U = T
  <2>1. Not \in SUBSET (SUBSET S)
    OBVIOUS
  <2> HIDE DEF Not
  <2>2. QED
    BY <1>1, <2>1, Smallest
<1>3. T \in SUBSET S /\ T # {} /\ IsFiniteSet(T)
  <2>1. T \in SUBSET S /\ SumFunctionOnSet(f, T) \notin Int
    BY <1>2
  <2>2. T # {}
    BY <2>1, SumOfNone
  <2>3. QED
    BY <2>1, <2>2, FS_Subset
<1>4. Rest(T) \in SUBSET T /\ Rest(T) # T /\ First(T) \in S
  BY <1>3, RestIsSmaller
<1>5. SumFunctionOnSet(f, Rest(T)) \in Int
  BY <1>2, <1>3, <1>4
<1>6. SumFunctionOnSet(f, T) = f[First(T)] + SumFunctionOnSet(f, Rest(T))
  BY <1>3, SumByRest
<1>7. SumFunctionOnSet(f, T) \in Int
  BY <1>4, <1>5, <1>6
<1>8. QED
  BY <1>2, <1>7

\* Any one summand may be taken out first.
LEMMA SumWithout ==
  ASSUME NEW f, NEW S, IsFiniteSet(S), \A x \in S : f[x] \in Int
  PROVE  \A x \in S : SumFunctionOnSet(f, S) = f[x] + SumFunctionOnSet(f, S \ {x})
<1> DEFINE Sum(T) == SumFunctionOnSet(f, T)
            Not == {T \in SUBSET S : \E x \in T : Sum(T) # f[x] + Sum(T \ {x})}
<1>1. SUFFICES ASSUME Not # {} PROVE FALSE
  OBVIOUS
<1>2. PICK T \in Not : \A U \in SUBSET T : U \in Not => U = T
  <2>1. Not \in SUBSET (SUBSET S)
    OBVIOUS
  <2> HIDE DEF Not
  <2>2. QED
    BY <1>1, <2>1, Smallest
<1> HIDE DEF Sum
<1>3. PICK x \in T : Sum(T) # f[x] + Sum(T \ {x})
  BY <1>2
<1>4. T \in SUBSET S /\ IsFiniteSet(T)
  BY <1>2, FS_Subset
<1>5. \A U \in SUBSET T : \A z \in U : U # T => Sum(U) = f[z] + Sum(U \ {z})
  BY <1>2, <1>4
<1> DEFINE y == First(T)
<1>6. y \in T /\ Rest(T) = T \ {y}
  BY <1>3, RestIsSmaller DEF Rest
<1>7. Sum(T) = f[y] + Sum(T \ {y})
  BY <1>4, <1>6, SumByRest DEF Sum
<1>8. CASE x = y
  BY <1>3, <1>7, <1>8
<1>9. CASE x # y
  <2> DEFINE both == T \ {x, y}
  <2>1. Sum(T \ {y}) = f[x] + Sum(both)
    <3>1. x \in T \ {y} /\ T \ {y} \in SUBSET T /\ T \ {y} # T /\ (T \ {y}) \ {x} = both
      BY <1>6, <1>9
    <3>2. QED
      BY <1>5, <3>1
  <2>2. Sum(T \ {x}) = f[y] + Sum(both)
    <3>1. y \in T \ {x} /\ T \ {x} \in SUBSET T /\ T \ {x} # T /\ (T \ {x}) \ {y} = both
      BY <1>6, <1>9
    <3>2. QED
      BY <1>5, <3>1
  <2>3. Sum(both) \in Int /\ f[x] \in Int /\ f[y] \in Int
    <3>1. IsFiniteSet(both) /\ both \in SUBSET S
      BY <1>4, FS_Subset
    <3>2. QED
      BY <1>4, <1>6, <3>1, SumIsInt DEF Sum
  <2>4. Sum(T) = f[y] + (f[x] + Sum(both))
    BY <1>7, <2>1
  <2> HIDE DEF both, y
  <2>5. f[y] + (f[x] + Sum(both)) = f[x] + (f[y] + Sum(both))
    BY <2>3
  <2>6. QED
    BY <1>3, <2>2, <2>4, <2>5
<1>10. QED
  BY <1>8, <1>9

\* Equal summands have equal sums.
LEMMA SameSum ==
  ASSUME NEW S, IsFiniteSet(S), NEW f, NEW g, \A x \in S : f[x] = g[x]
  PROVE  SumFunctionOnSet(f, S) = SumFunctionOnSet(g, S)
<1> DEFINE Not == {T \in SUBSET S : SumFunctionOnSet(f, T) # SumFunctionOnSet(g, T)}
<1>1. SUFFICES ASSUME Not # {} PROVE FALSE
  OBVIOUS
<1>2. PICK T \in Not : \A U \in SUBSET T : U \in Not => U = T
  <2>1. Not \in SUBSET (SUBSET S)
    OBVIOUS
  <2> HIDE DEF Not
  <2>2. QED
    BY <1>1, <2>1, Smallest
<1>3. T # {} /\ T \in SUBSET S
  BY <1>2, SumOfNone
<1>4. IsFiniteSet(T)
  BY <1>3, FS_Subset
<1>5. Rest(T) \in SUBSET T /\ Rest(T) # T /\ First(T) \in S
  BY <1>3, RestIsSmaller
<1>6. SumFunctionOnSet(f, Rest(T)) = SumFunctionOnSet(g, Rest(T))
  BY <1>2, <1>3, <1>5
<1>7. SumFunctionOnSet(f, T) = SumFunctionOnSet(g, T)
  BY <1>3, <1>4, <1>5, <1>6, SumByRest
<1>8. QED
  BY <1>2, <1>7

-----------------------------------------------------------------------------
(* How a sum changes with its function, and bounds of sums.               *)

\* When one value of a function changes, its sum changes by as much.
LEMMA SumChanged ==
  ASSUME NEW f, NEW g, NEW x \in DOMAIN f, IsFiniteSet(DOMAIN f), DOMAIN g = DOMAIN f,
         \A y \in DOMAIN f : f[y] \in Int /\ g[y] \in Int /\ (y # x => g[y] = f[y])
  PROVE  SumFunction(g) = SumFunction(f) + g[x] - f[x]
<1> DEFINE others == DOMAIN f \ {x}
<1>1. IsFiniteSet(others)
  BY FS_Subset
<1>2. SumFunction(f) = f[x] + SumFunctionOnSet(f, others)
  BY SumWithout DEF SumFunction
<1>3. SumFunction(g) = g[x] + SumFunctionOnSet(g, others)
  BY SumWithout DEF SumFunction
<1>4. SumFunctionOnSet(f, others) = SumFunctionOnSet(g, others)
  BY <1>1, SameSum
<1>5. SumFunctionOnSet(f, others) \in Int
  BY <1>1, SumIsInt
<1> HIDE DEF others
<1>6. QED
  BY <1>2, <1>3, <1>4, <1>5

\* When a function gains one argument, its sum gains the value there.
LEMMA SumAdded ==
  ASSUME NEW f, NEW g, NEW x, x \notin DOMAIN f, IsFiniteSet(DOMAIN f),
         DOMAIN g = DOMAIN f \cup {x}, g[x] \in Int,
         \A y \in DOMAIN f : f[y] \in Int /\ g[y] = f[y]
  PROVE  SumFunction(g) = SumFunction(f) + g[x]
<1>1. IsFiniteSet(DOMAIN g) /\ DOMAIN g \ {x} = DOMAIN f /\ x \in DOMAIN g
  BY FS_AddElement
<1>2. SumFunction(g) = g[x] + SumFunctionOnSet(g, DOMAIN f)
  BY <1>1, SumWithout DEF SumFunction
<1>3. SumFunctionOnSet(g, DOMAIN f) = SumFunction(f)
  BY SameSum DEF SumFunction
<1>4. SumFunction(f) \in Int
  BY SumIsInt DEF SumFunction
<1>5. QED
  BY <1>2, <1>3, <1>4

\* When a function loses one argument, its sum loses the value there.
LEMMA SumRemoved ==
  ASSUME NEW f, NEW g, NEW x \in DOMAIN f, IsFiniteSet(DOMAIN f),
         DOMAIN g = DOMAIN f \ {x},
         \A y \in DOMAIN f : f[y] \in Int /\ (y # x => g[y] = f[y])
  PROVE  SumFunction(g) = SumFunction(f) - f[x]
<1>1. IsFiniteSet(DOMAIN g) /\ x \notin DOMAIN g /\ DOMAIN f = DOMAIN g \cup {x}
  BY FS_Subset
<1>2. SumFunction(f) = SumFunction(g) + f[x]
  BY <1>1, SumAdded
<1>3. SumFunction(g) \in Int /\ f[x] \in Int
  BY <1>1, SumIsInt DEF SumFunction
<1>4. QED
  BY <1>2, <1>3

\* Smaller summands have a smaller sum.
LEMMA SumsOrdered ==
  ASSUME NEW S, IsFiniteSet(S), NEW f, NEW g,
         \A x \in S : f[x] \in Int /\ g[x] \in Int /\ f[x] <= g[x]
  PROVE  SumFunctionOnSet(f, S) <= SumFunctionOnSet(g, S)
<1> DEFINE Not == {T \in SUBSET S : ~(SumFunctionOnSet(f, T) <= SumFunctionOnSet(g, T))}
<1>1. SUFFICES ASSUME Not # {} PROVE FALSE
  OBVIOUS
<1>2. PICK T \in Not : \A U \in SUBSET T : U \in Not => U = T
  <2>1. Not \in SUBSET (SUBSET S)
    OBVIOUS
  <2> HIDE DEF Not
  <2>2. QED
    BY <1>1, <2>1, Smallest
<1>3. T # {} /\ T \in SUBSET S
  <2>1. T \in SUBSET S /\ ~(SumFunctionOnSet(f, T) <= SumFunctionOnSet(g, T))
    BY <1>2
  <2>2. SumFunctionOnSet(f, {}) <= SumFunctionOnSet(g, {})
    BY SumOfNone
  <2>3. QED
    BY <2>1, <2>2
<1>4. IsFiniteSet(T)
  BY <1>3, FS_Subset
<1>5. Rest(T) \in SUBSET T /\ Rest(T) # T /\ First(T) \in S
  BY <1>3, RestIsSmaller
<1>6. SumFunctionOnSet(f, Rest(T)) <= SumFunctionOnSet(g, Rest(T))
  BY <1>2, <1>3, <1>5
<1>7. /\ SumFunctionOnSet(f, T) = f[First(T)] + SumFunctionOnSet(f, Rest(T))
      /\ SumFunctionOnSet(g, T) = g[First(T)] + SumFunctionOnSet(g, Rest(T))
  BY <1>3, <1>4, SumByRest
<1>8. SumFunctionOnSet(f, Rest(T)) \in Int /\ SumFunctionOnSet(g, Rest(T)) \in Int
  <2>1. IsFiniteSet(Rest(T)) /\ Rest(T) \in SUBSET S
    BY <1>3, <1>4, <1>5, FS_Subset
  <2>2. QED
    BY <2>1, SumIsInt
<1>9. SumFunctionOnSet(f, T) <= SumFunctionOnSet(g, T)
  BY <1>5, <1>6, <1>7, <1>8
<1>10. QED
  BY <1>2, <1>9

\* A sum of zeros is zero.
LEMMA SumOfZeros ==
  ASSUME NEW f, NEW S, IsFiniteSet(S), \A x \in S : f[x] = 0
  PROVE  SumFunctionOnSet(f, S) = 0
<1> DEFINE Not == {T \in SUBSET S : SumFunctionOnSet(f, T) # 0}
<1>1. Not = {}
  <2>1. SUFFICES ASSUME Not # {} PROVE FALSE
    OBVIOUS
  <2>2. PICK T \in Not : \A U \in SUBSET T : U \in Not => U = T
    <3>1. Not \in SUBSET (SUBSET S)
      OBVIOUS
    <3> HIDE DEF Not
    <3>2. QED
      BY <2>1, <3>1, Smallest
  <2>3. T # {} /\ T \in SUBSET S /\ SumFunctionOnSet(f, T) # 0
    BY <2>2, SumOfNone
  <2>4. Rest(T) \in SUBSET T /\ Rest(T) # T /\ First(T) \in S
    BY <2>3, RestIsSmaller
  <2>5. SumFunctionOnSet(f, Rest(T)) = 0
    BY <2>2, <2>3, <2>4
  <2>6. SumFunctionOnSet(f, T) = f[First(T)] + SumFunctionOnSet(f, Rest(T))
    BY <2>3, SumByRest, FS_Subset
  <2>7. QED
    BY <2>3, <2>4, <2>5, <2>6
<1>2. QED
  BY <1>1

\* A sum of numbers is a number, and at least each of them.
LEMMA SumAtLeast ==
  ASSUME NEW f, IsFiniteSet(DOMAIN f), \A y \in DOMAIN f : f[y] \in Nat
  PROVE  /\ SumFunction(f) \in Nat
         /\ \A x \in DOMAIN f : f[x] <= SumFunction(f)
<1>1. ASSUME NEW S \in SUBSET DOMAIN f PROVE SumFunctionOnSet(f, S) \in Nat
  <2> DEFINE none == [x \in S |-> 0]
  <2>1. IsFiniteSet(S)
    BY FS_Subset
  <2>3. SumFunctionOnSet(none, S) = 0
    BY <2>1, SumOfZeros
  <2>4. \A x \in S : none[x] \in Int /\ f[x] \in Int /\ none[x] <= f[x]
    OBVIOUS
  <2>5. SumFunctionOnSet(none, S) <= SumFunctionOnSet(f, S)
    <3> HIDE DEF none
    <3>1. QED
      BY <2>1, <2>4, SumsOrdered
  <2>6. SumFunctionOnSet(f, S) \in Int
    BY <2>1, SumIsInt
  <2>7. QED
    BY <2>3, <2>5, <2>6
<1>2. SumFunction(f) \in Nat
  BY <1>1 DEF SumFunction
<1>3. ASSUME NEW x \in DOMAIN f PROVE f[x] <= SumFunction(f)
  <2>1. SumFunction(f) = f[x] + SumFunctionOnSet(f, DOMAIN f \ {x})
    BY SumWithout DEF SumFunction
  <2>2. SumFunctionOnSet(f, DOMAIN f \ {x}) \in Nat
    BY <1>1
  <2>3. QED
    BY <2>1, <2>2
<1>4. QED
  BY <1>2, <1>3

\* Sums of functions ordered pointwise are ordered, and differ at least by what
\* the functions differ by at one argument.
LEMMA SumsApart ==
  ASSUME NEW f, NEW g, NEW x \in DOMAIN f, IsFiniteSet(DOMAIN f), DOMAIN g = DOMAIN f,
         \A y \in DOMAIN f : f[y] \in Int /\ g[y] \in Int /\ f[y] <= g[y]
  PROVE  SumFunction(f) + (g[x] - f[x]) <= SumFunction(g)
<1> DEFINE others == DOMAIN f \ {x}
<1>1. IsFiniteSet(others)
  BY FS_Subset
<1>2. SumFunction(f) = f[x] + SumFunctionOnSet(f, others)
  BY SumWithout DEF SumFunction
<1>3. SumFunction(g) = g[x] + SumFunctionOnSet(g, others)
  BY SumWithout DEF SumFunction
<1>4. SumFunctionOnSet(f, others) <= SumFunctionOnSet(g, others)
  BY <1>1, SumsOrdered
<1>5. SumFunctionOnSet(f, others) \in Int /\ SumFunctionOnSet(g, others) \in Int
  BY <1>1, SumIsInt
<1> HIDE DEF others
<1>6. QED
  BY <1>2, <1>3, <1>4, <1>5

=============================================================================
