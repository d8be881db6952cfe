--------------------------- MODULE StreamBufProofs ---------------------------
(* The operators that the Readers of a pool are built from: the sums and the     *)
(* powers of two it takes to say what they hold, and what each change does to a  *)
(* buffer.                                                                       *)
EXTENDS StreamReader, FiniteSetTheorems, WellFoundedInduction, TLAPS

(* Sums over a finite set *)

Chosen(s) == CHOOSE x \in s : TRUE

\* g gives the sum of f over every subset of S.
Sums(f, S, g) ==
  g = [s \in SUBSET S |-> IF s = {} THEN 0 ELSE f[Chosen(s)] + g[s \ {Chosen(s)}]]

Adds(f, g, s) ==
  (s = {} => g[s] = 0) /\ (s # {} => g[s] = f[Chosen(s)] + g[s \ {Chosen(s)}])

Total(f, S) == (CHOOSE g : Sums(f, S, g))[S]

\* The definition of the library, unfolded.
LEMMA SumIsTotal ==
  ASSUME NEW f, NEW S
  PROVE  SumFunctionOnSet(f, S) = Total(f, S)
  BY DEF SumFunctionOnSet, FoldFunctionOnSet, MapThenFoldSet, Sums, Total, Chosen

\* A set of finite sets has one that contains none of the others.
LEMMA Smallest ==
  ASSUME NEW S, IsFiniteSet(S), NEW T, T \subseteq SUBSET S, T # {}
  PROVE  \E s \in T : \A t \in T : t \subseteq s => t = s
<1>1. IsWellFoundedOn(StrictSubsetOrdering(S), SUBSET S)
  BY FS_FiniteSubsetsOfFinite, FS_StrictSubsetOrderingWellFounded, Zenon
<1>2. PICK s \in T : \A t \in T : ~(<<t, s>> \in StrictSubsetOrdering(S))
  BY <1>1, WFMin
<1> QED BY <1>2, Zenon DEF StrictSubsetOrdering

\* A set that is not empty has a member to choose.
LEMMA ChosenIn == ASSUME NEW s, s # {} PROVE Chosen(s) \in s
  BY DEF Chosen

\* What Sums says of one subset.
LEMMA SumsAt ==
  ASSUME NEW f, NEW S, NEW g, Sums(f, S, g), NEW s \in SUBSET S
  PROVE  Adds(f, g, s)
<1>1. g[s] = IF s = {} THEN 0 ELSE f[Chosen(s)] + g[s \ {Chosen(s)}]
  BY Zenon DEF Sums
<1> QED BY <1>1, Zenon DEF Adds

\* There is one sum.
LEMMA SumsUnique ==
  ASSUME NEW f, NEW S, IsFiniteSet(S), NEW R \in SUBSET S, NEW g, Sums(f, S, g), NEW h, Sums(f, R, h)
  PROVE  \A s \in SUBSET R : g[s] = h[s]
<1> SUFFICES ASSUME {s \in SUBSET R : g[s] # h[s]} # {} PROVE FALSE
  OBVIOUS
<1> DEFINE T == {s \in SUBSET R : g[s] # h[s]}
<1>1. PICK s \in T : \A t \in T : t \subseteq s => t = s
  <2>1. T \subseteq SUBSET S /\ T # {}
    OBVIOUS
  <2> HIDE DEF T
  <2> QED BY <2>1, Smallest
<1>0. Adds(f, g, s) /\ Adds(f, h, s)
  BY <1>1, SumsAt
<1>2. s # {}
  BY <1>0, <1>1 DEF Adds
<1>3. Chosen(s) \in s
  BY <1>2, ChosenIn
<1> DEFINE t == s \ {Chosen(s)}
<1>4. t \in SUBSET R /\ t \subseteq s /\ t # s
  BY <1>1, <1>3
<1>5. g[t] = h[t]
  BY <1>1, <1>4
<1>6. g[s] = f[Chosen(s)] + g[t] /\ h[s] = f[Chosen(s)] + h[t]
  BY <1>0, <1>2, Zenon DEF Adds
<1> QED BY <1>1, <1>5, <1>6

\* There is a sum over every subset.
LEMMA SumsExist ==
  ASSUME NEW f, NEW S, IsFiniteSet(S)
  PROVE  \A s \in SUBSET S : \E g : Sums(f, s, g)
<1> SUFFICES ASSUME {s \in SUBSET S : ~\E g : Sums(f, s, g)} # {} PROVE FALSE
  OBVIOUS
<1> DEFINE T == {s \in SUBSET S : ~\E g : Sums(f, s, g)}
<1>1. PICK s \in T : \A t \in T : t \subseteq s => t = s
  <2>1. T \subseteq SUBSET S /\ T # {}
    OBVIOUS
  <2> HIDE DEF T
  <2> QED BY <2>1, Smallest
<1> DEFINE G(u) == CHOOSE g : Sums(f, u, g)
           x == Chosen(s)
           last == IF s = {} THEN 0 ELSE f[x] + G(s \ {x})[s \ {x}]
           h == [u \in SUBSET s |-> IF u = s THEN last ELSE G(u)[u]]
<1>2. ASSUME NEW u \in SUBSET s, u # s PROVE Sums(f, u, G(u))
  <2>1. \E g : Sums(f, u, g)
    BY <1>1, <1>2
  <2> QED BY <2>1, Zenon
<1>3. ASSUME NEW u \in SUBSET s, u # s
      PROVE  Adds(f, h, u)
  <2>0. h[u] = G(u)[u] /\ u \in SUBSET u /\ s \in SUBSET S
    BY <1>1, <1>3
  <2>1. Adds(f, G(u), u)
    <3>1. Sums(f, u, G(u))
      BY <1>2, <1>3
    <3> HIDE DEF G
    <3> QED BY <2>0, <3>1, SumsAt
  <2>2. CASE u = {}
    BY <2>0, <2>1, <2>2, Zenon DEF Adds
  <2>3. CASE u # {}
    <3> DEFINE v == u \ {Chosen(u)}
    <3>1. Chosen(u) \in u
      BY <2>3, ChosenIn
    <3>2. v \in SUBSET u /\ v \in SUBSET s /\ v # s /\ IsFiniteSet(u)
      BY <1>3, <2>0, <3>1, FS_Subset
    <3>3. Sums(f, u, G(u)) /\ Sums(f, v, G(v))
      BY <1>2, <1>3, <3>2, Zenon
    <3>4. G(u)[v] = G(v)[v]
      <4> HIDE DEF G, v
      <4>1. v \in SUBSET v
        OBVIOUS
      <4> QED BY <3>2, <3>3, <4>1, SumsUnique
    <3>5. h[v] = G(v)[v]
      BY <3>2
    <3>6. G(u)[u] = f[Chosen(u)] + G(u)[v]
      BY <2>1, <2>3, Zenon DEF Adds
    <3>7. h[u] = f[Chosen(u)] + h[v]
      BY <2>0, <3>4, <3>5, <3>6, Zenon
    <3> HIDE DEF h
    <3> QED BY <2>3, <3>7, Zenon DEF Adds
  <2> QED BY <2>2, <2>3
<1>4. Adds(f, h, s)
  <2>1. h[s] = last
    OBVIOUS
  <2>2. CASE s # {}
    <3>1. x \in s
      BY <2>2, ChosenIn
    <3>2. h[s \ {x}] = G(s \ {x})[s \ {x}]
      BY <3>1
    <3>3. last = f[x] + G(s \ {x})[s \ {x}]
      BY <2>2
    <3>4. h[s] = f[x] + h[s \ {x}]
      BY <2>1, <3>2, <3>3, Zenon
    <3> HIDE DEF h
    <3> QED BY <2>2, <3>4, Zenon DEF Adds
  <2>3. CASE s = {}
    <3>1. h[s] = 0
      BY <2>1, <2>3
    <3> HIDE DEF h
    <3> QED BY <2>3, <3>1, Zenon DEF Adds
  <2> QED BY <2>2, <2>3
<1>5. Sums(f, s, h)
  <2>1. \A u \in SUBSET s : Adds(f, h, u)
    <3> HIDE DEF h
    <3> QED BY <1>3, <1>4, Zenon
  <2>2. h = [u \in SUBSET s |-> h[u]]
    OBVIOUS
  <2> HIDE DEF h
  <2>3. \A u \in SUBSET s : h[u] = IF u = {} THEN 0 ELSE f[Chosen(u)] + h[u \ {Chosen(u)}]
    BY <2>1, Zenon DEF Adds
  <2> QED BY <2>2, <2>3, Zenon DEF Sums
<1> QED BY <1>1, <1>5

\* A sum takes one value after the other.
LEMMA TotalAt ==
  ASSUME NEW f, NEW S, IsFiniteSet(S), NEW s \in SUBSET S
  PROVE  (s = {} => Total(f, s) = 0) /\ (s # {} => Total(f, s) = f[Chosen(s)] + Total(f, s \ {Chosen(s)}))
<1> DEFINE G(u) == CHOOSE g : Sums(f, u, g)
           t == s \ {Chosen(s)}
<1>1. IsFiniteSet(s) /\ s \in SUBSET s /\ t \in SUBSET s /\ t \in SUBSET S /\ t \in SUBSET t
  BY FS_Subset
<1>2. Sums(f, s, G(s)) /\ Sums(f, t, G(t))
  <2>1. (\E g : Sums(f, s, g)) /\ (\E g : Sums(f, t, g))
    <3> HIDE DEF t
    <3> QED BY <1>1, SumsExist
  <2> QED BY <2>1, Zenon
<1>3. Total(f, s) = G(s)[s] /\ Total(f, t) = G(t)[t]
  BY Zenon DEF Total
<1>4. Adds(f, G(s), s)
  <2> HIDE DEF G
  <2> QED BY <1>1, <1>2, SumsAt
<1>5. G(s)[t] = G(t)[t]
  <2> HIDE DEF G, t
  <2> QED BY <1>1, <1>2, SumsUnique
<1>6. s # {} => G(s)[s] = f[Chosen(s)] + G(s)[t]
  BY <1>4, Zenon DEF Adds
<1>7. s = {} => G(s)[s] = 0
  BY <1>4, Zenon DEF Adds
<1>8. s # {} => Total(f, s) = f[Chosen(s)] + Total(f, t)
  BY <1>3, <1>5, <1>6, Zenon
<1> QED BY <1>3, <1>7, <1>8, Zenon

\* A sum of integers is one.
LEMMA TotalInt ==
  ASSUME NEW S, IsFiniteSet(S), NEW f, \A x \in S : f[x] \in Int
  PROVE  \A s \in SUBSET S : Total(f, s) \in Int
<1> SUFFICES ASSUME {s \in SUBSET S : Total(f, s) \notin Int} # {} PROVE FALSE
  OBVIOUS
<1> DEFINE T == {s \in SUBSET S : Total(f, s) \notin Int}
<1>1. PICK s \in T : \A t \in T : t \subseteq s => t = s
  <2>1. T \subseteq SUBSET S /\ T # {}
    OBVIOUS
  <2> HIDE DEF T
  <2> QED BY <2>1, Smallest
<1>2. /\ s \in SUBSET S /\ s # {} => Chosen(s) \in s
      /\ (s = {} => Total(f, s) = 0) /\ (s # {} => Total(f, s) = f[Chosen(s)] + Total(f, s \ {Chosen(s)}))
  <2>1. s \in SUBSET S
    BY <1>1
  <2> QED BY <2>1, TotalAt, ChosenIn, Zenon
<1>3. s # {}
  BY <1>1, <1>2
<1>4. s \ {Chosen(s)} \notin T /\ s \ {Chosen(s)} \in SUBSET S
  BY <1>1, <1>2, <1>3
<1>5. Total(f, s \ {Chosen(s)}) \in Int
  BY <1>4
<1>6. f[Chosen(s)] \in Int
  BY <1>2, <1>3
<1>7. Total(f, s) \in Int
  BY <1>2, <1>3, <1>5, <1>6
<1> QED BY <1>1, <1>7

\* Changing one value changes the sum by as much.
LEMMA TotalChange ==
  ASSUME NEW S, IsFiniteSet(S), NEW f, NEW g, NEW c \in S,
         \A x \in S : f[x] \in Int, \A x \in S : g[x] \in Int, \A x \in S \ {c} : g[x] = f[x]
  PROVE  \A s \in SUBSET S : Total(g, s) = Total(f, s) + (IF c \in s THEN g[c] - f[c] ELSE 0)
<1> DEFINE Ok(s) == Total(g, s) = Total(f, s) + (IF c \in s THEN g[c] - f[c] ELSE 0)
           T == {s \in SUBSET S : ~Ok(s)}
<1> SUFFICES ASSUME T # {} PROVE FALSE
  OBVIOUS
<1>1. PICK s \in T : \A t \in T : t \subseteq s => t = s
  <2>1. T \subseteq SUBSET S /\ T # {}
    OBVIOUS
  <2> HIDE DEF T
  <2> QED BY <2>1, Smallest
<1> DEFINE x == Chosen(s)
           t == s \ {x}
<1>2. /\ s \in SUBSET S /\ s # {} => x \in s
      /\ (s = {} => Total(f, s) = 0) /\ (s # {} => Total(f, s) = f[x] + Total(f, t))
      /\ (s = {} => Total(g, s) = 0) /\ (s # {} => Total(g, s) = g[x] + Total(g, t))
  <2>1. s \in SUBSET S
    BY <1>1
  <2> QED BY <2>1, TotalAt, ChosenIn, Zenon
<1>3. s # {}
  <2>1. s = {} => Ok(s)
    BY <1>2
  <2> QED BY <1>1, <2>1
<1>4. t \notin T /\ t \in SUBSET S /\ x \in S
  BY <1>1, <1>2, <1>3
<1>5. Ok(t)
  BY <1>4
<1>6. Total(f, t) \in Int /\ f[x] \in Int /\ g[x] \in Int /\ f[c] \in Int /\ g[c] \in Int
  BY <1>4, TotalInt
<1>7. CASE x = c
  <2>1. c \notin t /\ c \in s
    BY <1>2, <1>3, <1>7
  <2>2. Total(g, t) = Total(f, t)
    BY <1>5, <1>6, <2>1
  <2>3. Ok(s)
    BY <1>2, <1>3, <1>6, <1>7, <2>1, <2>2
  <2> QED BY <1>1, <2>3
<1>8. CASE x # c
  <2>1. c \in t <=> c \in s
    BY <1>8
  <2>2. g[x] = f[x]
    BY <1>4, <1>8
  <2>3. Ok(s)
    <3>1. Total(g, t) = Total(f, t) + (IF c \in s THEN g[c] - f[c] ELSE 0)
      BY <1>5, <2>1, Zenon
    <3> HIDE DEF t, x
    <3> QED BY <1>2, <1>3, <1>6, <2>2, <3>1
  <2> QED BY <1>1, <2>3
<1> QED BY <1>7, <1>8

\* A sum of natural numbers is one.
LEMMA TotalNat ==
  ASSUME NEW S, IsFiniteSet(S), NEW f, \A x \in S : f[x] \in Nat
  PROVE  \A s \in SUBSET S : Total(f, s) \in Nat
<1> SUFFICES ASSUME {s \in SUBSET S : Total(f, s) \notin Nat} # {} PROVE FALSE
  OBVIOUS
<1> DEFINE T == {s \in SUBSET S : Total(f, s) \notin Nat}
<1>1. PICK s \in T : \A t \in T : t \subseteq s => t = s
  <2>1. T \subseteq SUBSET S /\ T # {}
    OBVIOUS
  <2> HIDE DEF T
  <2> QED BY <2>1, Smallest
<1>2. /\ s \in SUBSET S /\ s # {} => Chosen(s) \in s
      /\ (s = {} => Total(f, s) = 0) /\ (s # {} => Total(f, s) = f[Chosen(s)] + Total(f, s \ {Chosen(s)}))
  <2>1. s \in SUBSET S
    BY <1>1
  <2> QED BY <2>1, TotalAt, ChosenIn, Zenon
<1>3. s # {}
  BY <1>1, <1>2
<1>4. s \ {Chosen(s)} \notin T /\ s \ {Chosen(s)} \in SUBSET S
  BY <1>1, <1>2, <1>3
<1>5. Total(f, s \ {Chosen(s)}) \in Nat
  BY <1>4
<1>6. f[Chosen(s)] \in Nat
  BY <1>2, <1>3
<1>7. Total(f, s) \in Nat
  BY <1>2, <1>3, <1>5, <1>6
<1> QED BY <1>1, <1>7

\* A sum of zeros is zero.
LEMMA TotalZero ==
  ASSUME NEW S, IsFiniteSet(S), NEW f, \A x \in S : f[x] = 0
  PROVE  \A s \in SUBSET S : Total(f, s) = 0
<1> SUFFICES ASSUME {s \in SUBSET S : Total(f, s) # 0} # {} PROVE FALSE
  OBVIOUS
<1> DEFINE T == {s \in SUBSET S : Total(f, s) # 0}
<1>1. PICK s \in T : \A t \in T : t \subseteq s => t = s
  <2>1. T \subseteq SUBSET S /\ T # {}
    OBVIOUS
  <2> HIDE DEF T
  <2> QED BY <2>1, Smallest
<1>2. /\ s \in SUBSET S /\ s # {} => Chosen(s) \in s
      /\ (s = {} => Total(f, s) = 0) /\ (s # {} => Total(f, s) = f[Chosen(s)] + Total(f, s \ {Chosen(s)}))
  <2>1. s \in SUBSET S
    BY <1>1
  <2> QED BY <2>1, TotalAt, ChosenIn, Zenon
<1>3. s # {}
  BY <1>1, <1>2
<1>4. s \ {Chosen(s)} \notin T /\ s \ {Chosen(s)} \in SUBSET S
  BY <1>1, <1>2, <1>3
<1>5. Total(f, s \ {Chosen(s)}) = 0 /\ f[Chosen(s)] = 0
  BY <1>2, <1>3, <1>4
<1>7. Total(f, s) = 0
  BY <1>2, <1>3, <1>5
<1> QED BY <1>1, <1>7

\* The sum of a function over its domain.
LEMMA SumFunctionIs ==
  ASSUME NEW f
  PROVE  SumFunction(f) = Total(f, DOMAIN f)
  BY SumIsTotal DEF SumFunction

\* When one value of a function changes, its sum changes by as much.
LEMMA SumChanges ==
  ASSUME NEW S, IsFiniteSet(S), NEW f \in [S -> Int], NEW g \in [S -> Int], NEW c \in S,
         \A x \in S \ {c} : g[x] = f[x]
  PROVE  SumFunction(f) \in Int /\ SumFunction(g) = SumFunction(f) + (g[c] - f[c])
<1>1. SumFunction(f) = Total(f, S) /\ SumFunction(g) = Total(g, S) /\ S \in SUBSET S
  BY SumFunctionIs
<1>2. (\A x \in S : f[x] \in Int) /\ (\A x \in S : g[x] \in Int)
  OBVIOUS
<1>3. Total(f, S) \in Int
  BY <1>1, <1>2, TotalInt
<1>4. Total(g, S) = Total(f, S) + (IF c \in S THEN g[c] - f[c] ELSE 0)
  BY <1>1, <1>2, TotalChange
<1> QED BY <1>1, <1>3, <1>4

\* The sum of a function that is zero everywhere.
LEMMA SumOfZeros ==
  ASSUME NEW S, IsFiniteSet(S), NEW f, f = [x \in S |-> 0]
  PROVE  SumFunction(f) = 0
<1>1. DOMAIN f = S /\ S \in SUBSET S /\ \A x \in S : f[x] = 0
  OBVIOUS
<1>2. Total(f, S) = 0
  BY <1>1, TotalZero
<1> QED BY <1>1, <1>2, SumFunctionIs

\* The sum of natural numbers is one.
LEMMA SumIsNat ==
  ASSUME NEW S, IsFiniteSet(S), NEW f \in [S -> Nat]
  PROVE  SumFunction(f) \in Nat
<1>1. DOMAIN f = S /\ S \in SUBSET S /\ \A x \in S : f[x] \in Nat
  OBVIOUS
<1>2. Total(f, S) \in Nat
  BY <1>1, TotalNat
<1> QED BY <1>1, <1>2, SumFunctionIs
-----------------------------------------------------------------------------
(* Powers of two and capacities *)

\* A set of natural numbers has a least one.
LEMMA Least ==
  ASSUME NEW T, T \subseteq Nat, T # {}
  PROVE  \E x \in T : \A y \in T : x <= y
<1>1. PICK x \in T : \A y \in T : ~(<<y, x>> \in OpToRel(<, Nat))
  BY NatLessThanWellFounded, WFMin, Zenon
<1>2. \A y \in T : ~(y < x)
  BY <1>1, Zenon DEF OpToRel
<1> QED BY <1>2

\* g gives the powers up to n.
Powers(g, n) == g \in [0 .. n -> Nat] /\ g[0] = 1 /\ \A k \in 0 .. n - 1 : g[k + 1] = 2 * g[k]

\* There are powers up to every number, ...
LEMMA PowersExist == \A n \in Nat : \E g : Powers(g, n)
<1> DEFINE T == {n \in Nat : ~\E g : Powers(g, n)}
<1> SUFFICES ASSUME T # {} PROVE FALSE
  OBVIOUS
<1>1. PICK n \in T : \A m \in T : n <= m
  <2>1. T \subseteq Nat
    OBVIOUS
  <2> HIDE DEF T
  <2> QED BY <2>1, Least, Zenon
<1>2. n # 0
  <2>1. Powers([k \in 0 .. 0 |-> 1], 0)
    BY DEF Powers
  <2> QED BY <1>1, <2>1
<1>3. n - 1 \in Nat /\ n \in Nat /\ n - 1 \notin T
  BY <1>1, <1>2
<1>4. PICK g : Powers(g, n - 1)
  BY <1>3
<1> DEFINE h == [k \in 0 .. n |-> IF k = n THEN 2 * g[n - 1] ELSE g[k]]
<1>5. h \in [0 .. n -> Nat]
  BY <1>3, <1>4 DEF Powers
<1>6. h[0] = 1
  BY <1>2, <1>3, <1>4 DEF Powers
<1>7. ASSUME NEW k \in 0 .. n - 1 PROVE h[k + 1] = 2 * h[k]
  BY <1>3, <1>4, <1>7 DEF Powers
<1>8. Powers(h, n)
  BY <1>3, <1>5, <1>6, <1>7, Zenon DEF Powers
<1> QED BY <1>1, <1>8

\* ... and they agree.
LEMMA PowersAgree ==
  ASSUME NEW n \in Nat, NEW m \in Nat, n <= m, NEW g, Powers(g, n), NEW h, Powers(h, m)
  PROVE  \A k \in 0 .. n : g[k] = h[k]
<1> DEFINE T == {k \in 0 .. n : g[k] # h[k]}
<1> SUFFICES ASSUME T # {} PROVE FALSE
  OBVIOUS
<1>1. PICK k \in T : \A j \in T : k <= j
  <2>1. T \subseteq Nat
    OBVIOUS
  <2> HIDE DEF T
  <2> QED BY <2>1, Least, Zenon
<1>2. k # 0
  BY <1>1 DEF Powers
<1>3. k - 1 \in 0 .. n - 1 /\ k - 1 \in 0 .. m - 1 /\ k - 1 \notin T
  BY <1>1, <1>2
<1>4. g[(k - 1) + 1] = 2 * g[k - 1] /\ h[(k - 1) + 1] = 2 * h[k - 1]
  BY <1>3, Zenon DEF Powers
<1>5. (k - 1) + 1 = k
  BY <1>1
<1>6. g[k - 1] = h[k - 1]
  BY <1>3
<1> QED BY <1>1, <1>4, <1>5, <1>6

\* What Pow2 computes.
LEMMA Pow2Is ==
  /\ Pow2 \in [Nat -> Nat] /\ Pow2[0] = 1
  /\ \A k \in Nat : Pow2[k + 1] = 2 * Pow2[k]
<1> DEFINE G(n) == CHOOSE g : Powers(g, n)
           f == [n \in Nat |-> G(n)[n]]
<1>1. \A n \in Nat : Powers(G(n), n)
  BY PowersExist, Zenon
<1>2. \A n \in Nat : G(n)[n] \in Nat
  <2> HIDE DEF G
  <2> QED BY <1>1 DEF Powers
<1>3. f \in [Nat -> Nat]
  BY <1>2
<1>4. f[0] = 1
  <2>1. f[0] = G(0)[0]
    OBVIOUS
  <2> HIDE DEF G
  <2> QED BY <1>1, <2>1 DEF Powers
<1>5. ASSUME NEW k \in Nat PROVE f[k + 1] = 2 * f[k]
  <2>1. f[k] = G(k)[k] /\ f[k + 1] = G(k + 1)[k + 1]
    OBVIOUS
  <2>2. k + 1 \in Nat /\ k <= k + 1 /\ k \in 0 .. k /\ k \in 0 .. (k + 1) - 1
    OBVIOUS
  <2> HIDE DEF G, f
  <2>3. Powers(G(k), k) /\ Powers(G(k + 1), k + 1)
    BY <1>1, <2>2
  <2>4. G(k)[k] = G(k + 1)[k]
    BY <2>2, <2>3, PowersAgree
  <2>5. G(k + 1)[k + 1] = 2 * G(k + 1)[k]
    BY <2>2, <2>3, Zenon DEF Powers
  <2> QED BY <2>1, <2>4, <2>5
<1>6. f = [k \in Nat |-> IF k = 0 THEN 1 ELSE 2 * f[k - 1]]
  <2>1. ASSUME NEW k \in Nat PROVE f[k] = IF k = 0 THEN 1 ELSE 2 * f[k - 1]
    <3> HIDE DEF f
    <3>1. CASE k = 0
      BY <1>4, <3>1
    <3>2. CASE k # 0
      <4>1. k - 1 \in Nat /\ (k - 1) + 1 = k
        BY <3>2
      <4> QED BY <1>5, <3>2, <4>1
    <3> QED BY <3>1, <3>2
  <2>2. f = [k \in Nat |-> f[k]]
    OBVIOUS
  <2> HIDE DEF f
  <2> QED BY <2>1, <2>2, Zenon
<1>7. Pow2 = [k \in Nat |-> IF k = 0 THEN 1 ELSE 2 * Pow2[k - 1]]
  <2> HIDE DEF f
  <2> QED BY <1>6, Zenon DEF Pow2
<1>8. ASSUME NEW k \in Nat PROVE Pow2[k] = IF k = 0 THEN 1 ELSE 2 * Pow2[k - 1]
  BY <1>7, Zenon
<1>9. Pow2[0] = 1
  BY <1>8
<1>10. \A k \in Nat : Pow2[k + 1] = 2 * Pow2[k]
  <2> TAKE k \in Nat
  <2>1. k + 1 \in Nat /\ k + 1 # 0 /\ (k + 1) - 1 = k
    OBVIOUS
  <2>2. Pow2[k + 1] = IF k + 1 = 0 THEN 1 ELSE 2 * Pow2[(k + 1) - 1]
    BY <1>8, <2>1
  <2> QED BY <2>1, <2>2
<1>11. \A k \in Nat : Pow2[k] \in Nat
  <2> DEFINE T == {k \in Nat : Pow2[k] \notin Nat}
  <2> SUFFICES ASSUME T # {} PROVE FALSE
    OBVIOUS
  <2>1. PICK k \in T : \A j \in T : k <= j
    <3>1. T \subseteq Nat
      OBVIOUS
    <3> HIDE DEF T
    <3> QED BY <3>1, Least, Zenon
  <2>2. k # 0
    BY <1>9, <2>1
  <2>3. k - 1 \in Nat /\ k - 1 \notin T /\ (k - 1) + 1 = k
    BY <2>1, <2>2
  <2>4. Pow2[k - 1] \in Nat /\ Pow2[k] = 2 * Pow2[k - 1]
    BY <1>10, <2>3
  <2> QED BY <2>1, <2>4
<1>12. Pow2 = [k \in Nat |-> Pow2[k]]
  <2>1. DOMAIN Pow2 = Nat
    BY <1>7, Zenon
  <2> QED BY <1>7, <2>1, Zenon
<1> QED BY <1>9, <1>10, <1>11, <1>12, Zenon

\* A power is larger than its exponent.
LEMMA Pow2Above == \A k \in Nat : Pow2[k] \in Nat /\ Pow2[k] > k
<1> DEFINE T == {k \in Nat : ~(Pow2[k] > k)}
<1>0. \A k \in Nat : Pow2[k] \in Nat
  BY Pow2Is
<1> SUFFICES ASSUME T # {} PROVE FALSE
  BY <1>0
<1>1. PICK k \in T : \A j \in T : k <= j
  <2>1. T \subseteq Nat
    OBVIOUS
  <2> HIDE DEF T
  <2> QED BY <2>1, Least, Zenon
<1>2. k # 0
  BY <1>1, Pow2Is
<1>3. k - 1 \in Nat /\ k - 1 \notin T /\ (k - 1) + 1 = k /\ k \in Nat
  BY <1>1, <1>2
<1>4. Pow2[k - 1] > k - 1 /\ Pow2[k] = 2 * Pow2[k - 1] /\ Pow2[k - 1] \in Nat
  BY <1>0, <1>3, Pow2Is
<1>5. Pow2[k] > k
  BY <1>3, <1>4
<1> QED BY <1>1, <1>5

\* Exponents add.
LEMMA Pow2Adds == \A j \in Nat, k \in Nat : Pow2[j] * Pow2[k] = Pow2[j + k]
<1> SUFFICES ASSUME NEW j \in Nat, {k \in Nat : Pow2[j] * Pow2[k] # Pow2[j + k]} # {} PROVE FALSE
  BY Zenon
<1> DEFINE T == {k \in Nat : Pow2[j] * Pow2[k] # Pow2[j + k]}
<1>1. PICK k \in T : \A i \in T : k <= i
  <2>1. T \subseteq Nat /\ T # {}
    OBVIOUS
  <2> HIDE DEF T
  <2> QED BY <2>1, Least, Zenon
<1>2. k # 0
  <2>1. Pow2[j] * 1 = Pow2[j] /\ j + 0 = j
    BY Pow2Above
  <2> QED BY <1>1, <2>1, Pow2Is
<1>3. k \in Nat /\ k - 1 \in Nat /\ k - 1 \notin T
  BY <1>1, <1>2
<1>4. Pow2[j] * Pow2[k - 1] = Pow2[j + (k - 1)]
  BY <1>3
<1>5. Pow2[k] = 2 * Pow2[k - 1]
  <2>1. (k - 1) + 1 = k
    BY <1>3
  <2> QED BY <1>3, <2>1, Pow2Is
<1>6. Pow2[j + k] = 2 * Pow2[j + (k - 1)]
  <2>1. j + (k - 1) \in Nat /\ (j + (k - 1)) + 1 = j + k
    BY <1>3
  <2> QED BY <2>1, Pow2Is
<1>7. \A a \in Nat, b \in Nat : a * (2 * b) = 2 * (a * b)
  OBVIOUS
<1>8. Pow2[j] \in Nat /\ Pow2[k - 1] \in Nat
  BY <1>3, Pow2Above
<1>9. Pow2[j] * (2 * Pow2[k - 1]) = 2 * (Pow2[j] * Pow2[k - 1])
  BY <1>7, <1>8, Zenon
<1>10. Pow2[j] * Pow2[k] = Pow2[j + k]
  BY <1>4, <1>5, <1>6, <1>9, Zenon
<1> QED BY <1>1, <1>10

\* The larger exponent gives the larger power.
LEMMA Pow2Grows == ASSUME NEW j \in Nat, NEW k \in Nat, j <= k PROVE Pow2[j] <= Pow2[k]
<1>1. k - j \in Nat /\ j + (k - j) = k
  OBVIOUS
<1>2. Pow2[j] * Pow2[k - j] = Pow2[k]
  BY <1>1, Pow2Adds
<1>3. Pow2[j] \in Nat /\ Pow2[k - j] \in Nat \ {0}
  BY <1>1, Pow2Above
<1>4. \A a \in Nat, b \in Nat \ {0} : a <= a * b
  OBVIOUS
<1> QED BY <1>2, <1>3, <1>4

\* bits.Len: the number of bits that x needs.
LEMMA BitLenIs ==
  ASSUME NEW x \in Nat
  PROVE  BitLen(x) \in Nat /\ Pow2[BitLen(x)] > x /\ (BitLen(x) > 0 => Pow2[BitLen(x) - 1] <= x)
<1> DEFINE T == {k \in Nat : Pow2[k] > x}
           P(k) == Pow2[k] > x /\ (k > 0 => Pow2[k - 1] <= x)
<1>1. PICK k \in T : \A j \in T : k <= j
  <2>1. T \subseteq Nat /\ x \in T
    BY Pow2Above
  <2> HIDE DEF T
  <2> QED BY <2>1, Least, Zenon
<1>2. k \in 0 .. x
  <2>1. x \in T
    BY Pow2Above
  <2> QED BY <1>1, <2>1
<1>3. k > 0 => Pow2[k - 1] <= x
  <2>1. SUFFICES ASSUME k > 0 PROVE Pow2[k - 1] <= x
    OBVIOUS
  <2>2. k - 1 \in Nat /\ k - 1 \notin T
    BY <1>1, <2>1
  <2> QED BY <2>2, Pow2Above
<1>4. P(k)
  BY <1>1, <1>3
<1>5. BitLen(x) \in 0 .. x /\ P(BitLen(x))
  <2> HIDE DEF P
  <2>1. BitLen(x) = CHOOSE i \in 0 .. x : P(i)
    BY DEF BitLen, P
  <2> QED BY <1>2, <1>4, <2>1, Zenon
<1> QED BY <1>5

\* A buffer has room for the n bytes it was asked for, and above MinSize its capacity
\* is less than twice n, as the comment on the size classes says.
THEOREM CapacityFits ==
  ASSUME NEW n \in Nat \ {0}
  PROVE  Capacity(n) \in Nat /\ Capacity(n) >= n /\ (n > MinSize => Capacity(n) < 2 * n)
<1>1. minShift \in Nat /\ MinSize \in Nat
  BY ReaderAssumption, Pow2Above DEF MinSize
<1>2. CASE n > Large
  <2>1. classOf(n) = -1
    BY <1>2 DEF classOf
  <2>2. Capacity(n) = n
    BY <2>1 DEF Capacity
  <2> QED BY <2>2
<1>3. CASE ~(n > Large) /\ n <= MinSize
  <2>1. classOf(n) = 0
    BY <1>3 DEF classOf
  <2>2. Capacity(n) = MinSize * Pow2[0]
    BY <2>1 DEF Capacity
  <2>3. MinSize * 1 = MinSize
    BY <1>1
  <2> QED BY <1>1, <1>3, <2>2, <2>3, Pow2Is
<1>4. CASE ~(n > Large) /\ ~(n <= MinSize)
  <2> DEFINE k == BitLen(n - 1)
  <2>1. classOf(n) = k - minShift
    BY <1>4 DEF classOf
  <2>2. n - 1 \in Nat /\ n - 1 >= MinSize
    BY <1>1, <1>4
  <2>3. k \in Nat /\ Pow2[k] > n - 1 /\ (k > 0 => Pow2[k - 1] <= n - 1)
    BY <2>2, BitLenIs
  <2> HIDE DEF k
  <2>4. k > minShift
    <3>1. Pow2[k] > Pow2[minShift] /\ Pow2[k] \in Nat /\ Pow2[minShift] \in Nat
      BY <1>1, <2>2, <2>3, Pow2Above DEF MinSize
    <3>2. ~(Pow2[k] <= Pow2[minShift])
      BY <3>1
    <3>3. ~(k <= minShift)
      BY <1>1, <2>3, <3>2, Pow2Grows
    <3> QED BY <1>1, <2>3, <3>3
  <2>5. k - minShift \in Nat /\ minShift + (k - minShift) = k
    BY <1>1, <2>3, <2>4
  <2>6. Capacity(n) = MinSize * Pow2[k - minShift]
    BY <2>1, <2>5 DEF Capacity
  <2>7. Pow2[minShift] * Pow2[k - minShift] = Pow2[k]
    BY <1>1, <2>5, Pow2Adds, SMTT(30)
  <2>8. Capacity(n) = Pow2[k] /\ Pow2[k] \in Nat
    BY <2>3, <2>6, <2>7, Pow2Above DEF MinSize
  <2>9. k - 1 \in Nat /\ Pow2[k - 1] <= n - 1
    BY <1>1, <2>3, <2>4
  <2>10. Pow2[k] = 2 * Pow2[k - 1] /\ Pow2[k - 1] \in Nat
    <3>1. Pow2[(k - 1) + 1] = 2 * Pow2[k - 1] /\ (k - 1) + 1 = k
      BY <2>3, <2>9, Pow2Is
    <3> QED BY <2>9, <3>1, Pow2Above
  <2> QED BY <2>2, <2>3, <2>8, <2>9, <2>10
<1> QED BY <1>2, <1>3, <1>4
-----------------------------------------------------------------------------
(* The invariant *)

\* Where a call can be, and which.
Ats == {"idle", "loop", "read", "free"}
Ops == {"none", "Peek", "Fill", "Read"}

Reader ==
  [max : Nat, mem : Seq(Nat), r : Nat, w : Nat, light : BOOLEAN, err : {"nil", "EOF"}, done : BOOLEAN,
   big : Nat, old : Nat, at : Ats, op : Ops, n : Nat, tooLarge : Nat, got : Nat, eaten : Nat]

\* The buffer of a Reader in use: never empty, its data between r and w, which are
\* both at the start when it has none, and the data the next bytes of the source.
Live(x) ==
  /\ x.r <= x.w /\ x.w <= Len(x.mem) /\ 1 <= Len(x.mem) /\ Len(x.mem) <= x.max
  /\ x.r = x.w => x.w = 0
  /\ x.w - x.r = x.got - x.eaten
  /\ \A i \in 1 .. x.w - x.r : x.mem[x.r + i] = x.eaten + i
  /\ x.big # 0 => x.big >= Len(x.mem)
  /\ x.big = 0 => Len(x.mem) = IdleSize

\* A released Reader has no buffer.
Dead(x) == x.mem = <<>> /\ x.r = 0 /\ x.w = 0 /\ x.big = 0

\* One Reader, whatever call is under way.
Core(c, x) ==
  /\ x \in Reader /\ x.max = MaxData[c]
  /\ x.tooLarge # 0 => x.tooLarge > x.max
  /\ ~x.done => Live(x)
  /\ x.done => Dead(x)

\* Where a call is: only one that grows holds a second buffer, what it asks for fits
\* Max, and there is room when it reads.
Under(x) ==
  /\ x.at # "free" => x.old = 0
  /\ x.at # "idle" => ~x.done
  /\ x.at \in {"loop", "free"} => x.op \in {"Peek", "Fill"}
  /\ x.at = "read" => x.op \in {"Peek", "Fill", "Read"}
  /\ x.at # "idle" /\ x.op \in {"Peek", "Fill"} => 1 <= x.n /\ x.n <= x.max
  /\ x.at = "loop" /\ x.op = "Fill" => x.n = BufLen(x) + 1
  /\ x.at \in {"read", "free"} => x.w < Len(x.mem)

\* What each Reader has borrowed.
Held == [c \in Conn |-> rd[c].big + rd[c].old]

\* What makes the properties inductive.
Inv ==
  /\ DOMAIN rd = Conn /\ rd = [c \in Conn |-> rd[c]]
  /\ \A c \in Conn : Core(c, rd[c]) /\ Under(rd[c])
  /\ used = SumFunction(Held) /\ used <= MaxUnits
-----------------------------------------------------------------------------
(* What the changes do to one Reader *)

\* The smaller of two numbers.
LEMMA MinOf == ASSUME NEW a \in Int, NEW b \in Int PROVE Min({a, b}) \in {a, b} /\ Min({a, b}) <= a /\ Min({a, b}) <= b
<1>1. \E x \in {a, b} : \A y \in {a, b} : x <= y
  OBVIOUS
<1>2. Min({a, b}) \in {a, b} /\ \A y \in {a, b} : Min({a, b}) <= y
  BY <1>1, Zenon DEF Min
<1> QED BY <1>2

\* The larger of two numbers.
LEMMA MaxOf == ASSUME NEW a \in Int, NEW b \in Int PROVE Max({a, b}) \in {a, b} /\ Max({a, b}) >= a /\ Max({a, b}) >= b
<1>1. \E x \in {a, b} : \A y \in {a, b} : x >= y
  OBVIOUS
<1>2. Max({a, b}) \in {a, b} /\ \A y \in {a, b} : Max({a, b}) >= y
  BY <1>1, Zenon DEF Max
<1> QED BY <1>2

\* A new buffer.
LEMMA ZerosIs == ASSUME NEW n \in Nat PROVE Zeros(n) \in Seq(Nat) /\ Len(Zeros(n)) = n
  BY DEF Zeros

\* One buffer after the other.
LEMMA JoinIs ==
  ASSUME NEW s \in Seq(Nat), NEW t \in Seq(Nat)
  PROVE  s \o t \in Seq(Nat) /\ Len(s \o t) = Len(s) + Len(t) /\ \A i \in 1 .. Len(s) : (s \o t)[i] = s[i]
  OBVIOUS

\* The bytes from r to w.
LEMMA PartIs ==
  ASSUME NEW s \in Seq(Nat), NEW r \in Nat, NEW w \in Nat, r <= w, w <= Len(s)
  PROVE  /\ SubSeq(s, r + 1, w) \in Seq(Nat) /\ Len(SubSeq(s, r + 1, w)) = w - r
         /\ \A i \in 1 .. w - r : SubSeq(s, r + 1, w)[i] = s[r + i]
  OBVIOUS

\* The buffered bytes at the start of a buffer.
Moved(mem, r, w, size) == SubSeq(mem, r + 1, w) \o Zeros(size - (w - r))

\* It has the same bytes from position 0.
LEMMA MovedIs ==
  ASSUME NEW mem \in Seq(Nat), NEW r \in Nat, NEW w \in Nat, r <= w, w <= Len(mem), NEW size \in Nat, w - r <= size
  PROVE  LET m == Moved(mem, r, w, size) IN
         m \in Seq(Nat) /\ Len(m) = size /\ \A i \in 1 .. w - r : m[i] = mem[r + i]
<1> DEFINE s == SubSeq(mem, r + 1, w)
           z == Zeros(size - (w - r))
           m == s \o z
<1>1. s \in Seq(Nat) /\ Len(s) = w - r /\ \A i \in 1 .. w - r : s[i] = mem[r + i]
  BY PartIs
<1>2. z \in Seq(Nat) /\ Len(z) = size - (w - r)
  <2>1. size - (w - r) \in Nat
    OBVIOUS
  <2> QED BY <2>1, ZerosIs, Zenon
<1>3. Moved(mem, r, w, size) = m
  BY DEF Moved
<1> HIDE DEF s, z
<1>4. m \in Seq(Nat) /\ Len(m) = Len(s) + Len(z) /\ \A i \in 1 .. Len(s) : m[i] = s[i]
  BY <1>1, <1>2, JoinIs, Zenon
<1> HIDE DEF m
<1>5. Len(m) = size
  BY <1>1, <1>2, <1>4
<1>6. \A i \in 1 .. w - r : m[i] = mem[r + i]
  BY <1>1, <1>4, Zenon
<1> QED BY <1>3, <1>4, <1>5, <1>6, Zenon

\* The fields of a Reader.
LEMMA Fields ==
  ASSUME NEW x \in Reader
  PROVE  /\ x.max \in Nat /\ x.mem \in Seq(Nat) /\ x.r \in Nat /\ x.w \in Nat /\ x.light \in BOOLEAN
         /\ x.err \in {"nil", "EOF"} /\ x.done \in BOOLEAN /\ x.big \in Nat /\ x.old \in Nat /\ x.at \in Ats
         /\ x.op \in Ops /\ x.n \in Nat /\ x.tooLarge \in Nat /\ x.got \in Nat /\ x.eaten \in Nat
  BY DEF Reader

\* y has the buffer that x has.
SameBuf(x, y) ==
  /\ y.max = x.max /\ y.mem = x.mem /\ y.r = x.r /\ y.w = x.w /\ y.done = x.done /\ y.big = x.big
  /\ y.got = x.got /\ y.eaten = x.eaten

\* y is where x is.
SameCall(x, y) == y.at = x.at /\ y.op = x.op /\ y.n = x.n /\ y.old = x.old

\* What only moves a call leaves the buffer as it is.
LEMMA SameCore ==
  ASSUME NEW c \in Conn, NEW x, Core(c, x), NEW y \in Reader, SameBuf(x, y),
         y.tooLarge # 0 => y.tooLarge > y.max
  PROVE  Core(c, y)
<1>1. y.max = MaxData[c] /\ (~y.done => ~x.done) /\ (y.done => x.done)
  BY DEF Core, SameBuf
<1>2. ~x.done => Live(y)
  BY DEF Core, SameBuf, Live
<1>3. x.done => Dead(y)
  BY DEF Core, SameBuf, Dead
<1> QED BY <1>1, <1>2, <1>3 DEF Core

\* Return: the call is over.
LEMMA ReturnIs ==
  ASSUME NEW x \in Reader
  PROVE  /\ Return(x) \in Reader /\ SameBuf(x, Return(x)) /\ Return(x).at = "idle" /\ Return(x).old = x.old
         /\ Return(x).tooLarge = x.tooLarge /\ Return(x).light = x.light /\ Return(x).err = x.err
<1>1. Return(x) \in Reader
  BY Zenon DEF Reader, Return, Ats, Ops
<1> QED BY <1>1 DEF Reader, Return, SameBuf

\* A return keeps the buffer and ends the call.
LEMMA ReturnKeeps ==
  ASSUME NEW c \in Conn, NEW x, Core(c, x), x.old = 0
  PROVE  Core(c, Return(x)) /\ Under(Return(x)) /\ Return(x).big = x.big /\ Return(x).old = 0
<1>1. x \in Reader
  BY DEF Core
<1> DEFINE y == Return(x)
<1>2. /\ y \in Reader /\ SameBuf(x, y) /\ y.at = "idle" /\ y.old = x.old /\ y.tooLarge = x.tooLarge
  BY <1>1, ReturnIs
<1> HIDE DEF y
<1>3. y.tooLarge # 0 => y.tooLarge > y.max
  BY <1>2 DEF Core, SameBuf
<1>4. Core(c, y)
  BY <1>2, <1>3, SameCore
<1>5. Under(y) /\ y.big = x.big /\ y.old = 0
  BY <1>2 DEF Under, SameBuf
<1> QED BY <1>4, <1>5 DEF y

\* A call that ends with ErrTooLarge asked for more than Max.
LEMMA TooLargeKeeps ==
  ASSUME NEW c \in Conn, NEW x, Core(c, x), x.old = 0, x.n > x.max
  PROVE  Core(c, ErrTooLarge(x)) /\ Under(ErrTooLarge(x)) /\ ErrTooLarge(x).big = x.big /\ ErrTooLarge(x).old = 0
<1>1. x \in Reader /\ x.n \in Nat
  BY Fields DEF Core
<1> DEFINE z == Return(x)
           y == ErrTooLarge(x)
<1>2. z \in Reader /\ SameBuf(x, z) /\ z.at = "idle" /\ z.old = x.old
  BY <1>1, ReturnIs
<1>3. y = [z EXCEPT !.tooLarge = x.n]
  BY DEF ErrTooLarge
<1> HIDE DEF y, z
<1>4. y \in Reader
  BY <1>1, <1>2, <1>3, Zenon DEF Reader
<1>5. SameBuf(x, y) /\ y.at = "idle" /\ y.old = x.old /\ y.tooLarge = x.n
  BY <1>2, <1>3 DEF Reader, SameBuf
<1>6. Core(c, y)
  <2>1. y.tooLarge > y.max
    BY <1>5 DEF SameBuf
  <2> QED BY <1>4, <1>5, <2>1, SameCore
<1>7. Under(y) /\ y.big = x.big /\ y.old = 0
  BY <1>5 DEF Under, SameBuf
<1> QED BY <1>6, <1>7 DEF y

\* Moving the buffered bytes to the start of a buffer of another size keeps them.
LEMMA LiveMoved ==
  ASSUME NEW x \in Reader, Live(x), NEW y \in Reader, NEW size \in Nat, 1 <= size, BufLen(x) <= size, size <= x.max,
         Len(y.mem) = size, \A i \in 1 .. x.w - x.r : y.mem[i] = x.mem[x.r + i], y.r = 0, y.w = BufLen(x), y.max = x.max,
         y.got = x.got, y.eaten = x.eaten, y.big # 0 => y.big >= size, y.big = 0 => size = IdleSize
  PROVE  Live(y)
<1>1. /\ x.mem \in Seq(Nat) /\ x.r \in Nat /\ x.w \in Nat /\ x.r <= x.w /\ x.w <= Len(x.mem) /\ BufLen(x) = x.w - x.r
      /\ x.got \in Nat /\ x.eaten \in Nat /\ x.w - x.r = x.got - x.eaten
      /\ \A i \in 1 .. x.w - x.r : x.mem[x.r + i] = x.eaten + i
  BY Fields DEF Live, BufLen
<1>3. ASSUME NEW i \in 1 .. y.w - y.r PROVE y.mem[y.r + i] = y.eaten + i
  <2>1. i \in 1 .. x.w - x.r /\ y.r + i = i
    BY <1>1, <1>3
  <2> QED BY <1>1, <2>1
<1>4. y.r <= y.w /\ y.w <= Len(y.mem) /\ y.w - y.r = y.got - y.eaten /\ (y.r = y.w => y.w = 0)
  BY <1>1
<1> QED BY <1>3, <1>4 DEF Live

\* The bytes of a Reader in another buffer.
LEMMA MovedOf ==
  ASSUME NEW x \in Reader, Live(x), NEW size \in Nat, BufLen(x) <= size
  PROVE  LET m == Moved(x.mem, x.r, x.w, size) IN
         m \in Seq(Nat) /\ Len(m) = size /\ \A i \in 1 .. x.w - x.r : m[i] = x.mem[x.r + i]
<1>1. /\ x.mem \in Seq(Nat) /\ x.r \in Nat /\ x.w \in Nat /\ x.r <= x.w /\ x.w <= Len(x.mem)
      /\ x.w - x.r <= size
  BY Fields DEF Live, BufLen
<1> QED BY <1>1, MovedIs, Zenon

\* ensure compacts the buffer: the call goes on with the same bytes from position 0.
LEMMA CompactedKeeps ==
  ASSUME NEW c \in Conn, NEW x, Core(c, x), ~x.done
  PROVE  LET y == Compacted(x) IN
         /\ Core(c, y) /\ SameCall(x, y) /\ y.big = x.big /\ y.r = 0 /\ y.w = BufLen(x) /\ Len(y.mem) = Len(x.mem)
         /\ y.max = x.max /\ y.done = x.done
<1> DEFINE y == Compacted(x)
           m == Moved(x.mem, x.r, x.w, Len(x.mem))
<1>1. x \in Reader /\ Live(x) /\ x.max = MaxData[c] /\ (x.tooLarge # 0 => x.tooLarge > x.max)
  BY DEF Core
<1>2. /\ x.mem \in Seq(Nat) /\ x.r \in Nat /\ x.w \in Nat /\ x.r <= x.w /\ x.w <= Len(x.mem) /\ Len(x.mem) \in Nat
      /\ 1 <= Len(x.mem) /\ Len(x.mem) <= x.max /\ BufLen(x) \in Nat /\ BufLen(x) <= Len(x.mem) /\ BufLen(x) = x.w - x.r
  BY <1>1, Fields DEF Live, BufLen
<1>3. y = [x EXCEPT !.mem = m, !.w = BufLen(x), !.r = 0]
  BY DEF Compacted, Buffered, Moved, BufLen
<1>4. m \in Seq(Nat) /\ Len(m) = Len(x.mem) /\ \A i \in 1 .. x.w - x.r : m[i] = x.mem[x.r + i]
  BY <1>1, <1>2, MovedOf, Zenon
<1> HIDE DEF y, m
<1>5. y \in Reader
  BY <1>1, <1>2, <1>3, <1>4, Zenon DEF Reader
<1>6. /\ y.mem = m /\ y.w = BufLen(x) /\ y.r = 0 /\ SameCall(x, y) /\ y.big = x.big /\ y.max = x.max /\ y.done = x.done
      /\ y.got = x.got /\ y.eaten = x.eaten /\ y.tooLarge = x.tooLarge
  BY <1>1, <1>3 DEF Reader, SameCall
<1>7. (y.big # 0 => y.big >= Len(x.mem)) /\ (y.big = 0 => Len(x.mem) = IdleSize)
  BY <1>1, <1>6 DEF Live
<1>8. Live(y) /\ Len(y.mem) = Len(x.mem)
  BY <1>1, <1>2, <1>4, <1>5, <1>6, <1>7, LiveMoved, Zenon
<1>9. Core(c, y)
  BY <1>1, <1>5, <1>6, <1>8 DEF Core
<1> QED BY <1>6, <1>8, <1>9 DEF y

\* ensure has made what room there is without another buffer.
LEMMA PreparedKeeps ==
  ASSUME NEW c \in Conn, NEW x, Core(c, x), ~x.done, NEW n \in Nat
  PROVE  LET y == Prepared(x, n) IN
         /\ Core(c, y) /\ SameCall(x, y) /\ y.big = x.big /\ BufLen(y) = BufLen(x) /\ Len(y.mem) = Len(x.mem)
         /\ y.max = x.max /\ y.done = x.done
         /\ HasRoom(x, n) => y.w < Len(y.mem)
         /\ ~HasRoom(x, n) => y = x
<1> DEFINE y == Prepared(x, n)
<1>0. x \in Reader /\ Live(x) /\ x.r \in Nat /\ x.w \in Nat /\ Len(x.mem) \in Nat /\ x.r <= x.w /\ x.w <= Len(x.mem)
  BY Fields DEF Core, Live
<1>1. CASE Len(x.mem) >= n /\ ~Fits(x, n) /\ x.r > 0
  <2>1. y = Compacted(x)
    BY <1>1 DEF Prepared
  <2>2. /\ Core(c, y) /\ SameCall(x, y) /\ y.big = x.big /\ y.r = 0 /\ y.w = BufLen(x) /\ Len(y.mem) = Len(x.mem)
        /\ y.max = x.max /\ y.done = x.done
    BY <2>1, CompactedKeeps
  <2> HIDE DEF y
  <2>3. BufLen(y) = BufLen(x) /\ BufLen(x) < Len(x.mem)
    BY <1>0, <1>1, <2>2 DEF BufLen
  <2>4. HasRoom(x, n)
    BY <1>1, <2>3 DEF HasRoom
  <2> QED BY <2>2, <2>3, <2>4 DEF y
<1>2. CASE ~(Len(x.mem) >= n /\ ~Fits(x, n) /\ x.r > 0)
  <2>1. y = x
    BY <1>2 DEF Prepared
  <2>2. HasRoom(x, n) => Fits(x, n)
    BY <1>2 DEF HasRoom
  <2>3. Fits(x, n) => x.w < Len(x.mem)
    BY DEF Fits
  <2>4. SameCall(x, x)
    BY DEF SameCall
  <2> HIDE DEF y
  <2> QED BY <2>1, <2>2, <2>3, <2>4 DEF y
<1> QED BY <1>1, <1>2

\* grow: the call goes on with the same bytes in a larger buffer, and holds the one
\* that it replaces until it has released it.
LEMMA GrownKeeps ==
  ASSUME NEW c \in Conn, NEW x, Core(c, x), ~x.done, x.old = 0, NEW size \in Nat, size > Len(x.mem), size <= x.max,
         x.op \in {"Peek", "Fill"}, 1 <= x.n, x.n <= x.max
  PROVE  LET y == [Grown(x, size) EXCEPT !.at = "free"] IN
         Core(c, y) /\ Under(y) /\ y.big = Capacity(size) /\ y.old = x.big
<1> DEFINE y == [Grown(x, size) EXCEPT !.at = "free"]
           m == Moved(x.mem, x.r, x.w, size)
<1>1. x \in Reader /\ Live(x) /\ x.max = MaxData[c] /\ (x.tooLarge # 0 => x.tooLarge > x.max)
  BY DEF Core
<1>2. /\ x.mem \in Seq(Nat) /\ x.r \in Nat /\ x.w \in Nat /\ x.r <= x.w /\ x.w <= Len(x.mem) /\ Len(x.mem) \in Nat
      /\ 1 <= Len(x.mem) /\ BufLen(x) \in Nat /\ BufLen(x) <= Len(x.mem) /\ BufLen(x) = x.w - x.r /\ x.big \in Nat
  BY <1>1, Fields, SMTT(30) DEF Live, BufLen
<1>3. Grown(x, size) = [x EXCEPT !.mem = m, !.w = BufLen(x), !.r = 0, !.old = x.big, !.big = Capacity(size)]
  BY DEF Grown, Buffered, Moved, BufLen
<1>4. /\ m \in Seq(Nat) /\ Len(m) = size /\ \A i \in 1 .. x.w - x.r : m[i] = x.mem[x.r + i]
      /\ 1 <= size /\ BufLen(x) <= size
  <2>1. 1 <= size /\ BufLen(x) <= size
    BY <1>2
  <2>2. m \in Seq(Nat) /\ Len(m) = size /\ \A i \in 1 .. x.w - x.r : m[i] = x.mem[x.r + i]
    BY <1>1, <2>1, MovedOf, Zenon
  <2> QED BY <2>1, <2>2, Zenon
<1>c. Capacity(size) \in Nat /\ Capacity(size) >= size
  BY <1>4, CapacityFits
<1> DEFINE g == Grown(x, size)
<1> HIDE DEF m, g
<1>5. g \in Reader
  BY <1>1, <1>2, <1>3, <1>4, <1>c, Zenon DEF Reader, g
<1>6. y \in Reader
  BY <1>5, Zenon DEF Reader, Ats, g
<1>7. /\ g.mem = m /\ g.w = BufLen(x) /\ g.r = 0 /\ g.old = x.big /\ g.big = Capacity(size) /\ g.max = x.max
      /\ g.done = x.done /\ g.got = x.got /\ g.eaten = x.eaten /\ g.tooLarge = x.tooLarge /\ g.op = x.op /\ g.n = x.n
  BY <1>1, <1>3 DEF Reader, g
<1>8. y = [g EXCEPT !.at = "free"]
  BY DEF g
<1> HIDE DEF y
<1>9. /\ y.mem = m /\ y.w = BufLen(x) /\ y.r = 0 /\ y.old = x.big /\ y.big = Capacity(size) /\ y.max = x.max
      /\ y.done = x.done /\ y.got = x.got /\ y.eaten = x.eaten /\ y.tooLarge = x.tooLarge /\ y.op = x.op /\ y.n = x.n
      /\ y.at = "free"
  BY <1>5, <1>7, <1>8 DEF Reader
<1>10. (y.big # 0 => y.big >= size) /\ y.big # 0
  BY <1>c, <1>4, <1>9
<1>11. Live(y) /\ Len(y.mem) = size
  BY <1>1, <1>2, <1>4, <1>6, <1>9, <1>10, LiveMoved, ZenonT(30)
<1>12. Core(c, y)
  BY <1>1, <1>6, <1>9, <1>11 DEF Core
<1>13. Under(y)
  <2>1. y.w < Len(y.mem)
    BY <1>2, <1>9, <1>11
  <2> QED BY <1>9, <2>1 DEF Under
<1> QED BY <1>9, <1>12, <1>13 DEF y

\* Discard before it looks whether the buffer is empty.
Ate(x, k) ==
  [x EXCEPT !.r = @ + k, !.eaten = @ + k, !.mem = [i \in DOMAIN @ |-> IF i > x.r + k THEN @[i] ELSE 0]]

\* The buffer with what lies up to position p gone.
LEMMA WipedIs ==
  ASSUME NEW s \in Seq(Nat), NEW p \in Nat
  PROVE  LET m == [i \in DOMAIN s |-> IF i > p THEN s[i] ELSE 0] IN
         m \in Seq(Nat) /\ Len(m) = Len(s) /\ (\A i \in 1 .. Len(s) : i > p => m[i] = s[i]) /\ (s = <<>> => m = <<>>)
  BY SMTT(30)

\* The fields of Ate.
LEMMA AteIs ==
  ASSUME NEW x \in Reader, NEW k \in Nat
  PROVE  LET y == Ate(x, k) IN
         /\ y \in Reader /\ y.r = x.r + k /\ y.eaten = x.eaten + k /\ y.w = x.w /\ Len(y.mem) = Len(x.mem)
         /\ \A i \in 1 .. Len(x.mem) : i > x.r + k => y.mem[i] = x.mem[i]
         /\ x.mem = <<>> => y.mem = <<>>
         /\ SameCall(x, y) /\ y.big = x.big /\ y.max = x.max /\ y.done = x.done /\ y.light = x.light
         /\ y.got = x.got /\ y.tooLarge = x.tooLarge
<1> DEFINE y == Ate(x, k)
           m == [i \in DOMAIN x.mem |-> IF i > x.r + k THEN x.mem[i] ELSE 0]
<1>1. x.r \in Nat /\ x.mem \in Seq(Nat) /\ x.eaten \in Nat /\ x.r + k \in Nat /\ x.eaten + k \in Nat
  BY Fields
<1>2. /\ m \in Seq(Nat) /\ Len(m) = Len(x.mem) /\ \A i \in 1 .. Len(x.mem) : i > x.r + k => m[i] = x.mem[i]
      /\ x.mem = <<>> => m = <<>>
  BY <1>1, WipedIs, ZenonT(30)
<1>3. y = [x EXCEPT !.r = x.r + k, !.eaten = x.eaten + k, !.mem = m]
  BY DEF Ate
<1> HIDE DEF y, m
<1>4. y \in Reader
  BY <1>1, <1>2, <1>3, Zenon DEF Reader
<1>5. /\ y.r = x.r + k /\ y.eaten = x.eaten + k /\ y.w = x.w /\ y.mem = m
      /\ SameCall(x, y) /\ y.big = x.big /\ y.max = x.max /\ y.done = x.done /\ y.light = x.light
      /\ y.got = x.got /\ y.tooLarge = x.tooLarge
  BY <1>3 DEF Reader, SameCall
<1> QED BY <1>2, <1>4, <1>5 DEF y

\* An empty buffer is used from its start again, or is exchanged for the idle one.
LEMMA EmptiedIs ==
  ASSUME NEW y \in Reader
  PROVE  /\ Rewound(y) \in Reader /\ Rewound(y).r = 0 /\ Rewound(y).w = 0 /\ Rewound(y).mem = y.mem
         /\ Rewound(y).eaten = y.eaten /\ SameCall(y, Rewound(y)) /\ Rewound(y).big = y.big
         /\ Rewound(y).max = y.max /\ Rewound(y).done = y.done
         /\ Rewound(y).got = y.got /\ Rewound(y).tooLarge = y.tooLarge
<1>1. Rewound(y) \in Reader
  BY Zenon DEF Reader, Rewound
<1> QED BY <1>1 DEF Reader, Rewound, SameCall

\* Discard keeps the bytes it does not eat, and the budget gets back the buffer it
\* gives up.
LEMMA DiscardedKeeps ==
  ASSUME NEW c \in Conn, NEW x, NEW k \in Nat
  PROVE  Core(c, x) /\ k <= BufLen(x) =>
         LET y == Discarded(x, k) IN
         /\ Core(c, y) /\ SameCall(x, y) /\ y.big = x.big - DiscardRefund(x, k) /\ y.max = x.max /\ y.done = x.done
<1>0. SUFFICES ASSUME Core(c, x), k <= BufLen(x)
      PROVE  LET y == Discarded(x, k) IN
             /\ Core(c, y) /\ SameCall(x, y) /\ y.big = x.big - DiscardRefund(x, k) /\ y.max = x.max /\ y.done = x.done
  OBVIOUS
<1> DEFINE y == Ate(x, k)
           d == Discarded(x, k)
<1>1. x \in Reader /\ x.max = MaxData[c] /\ (x.tooLarge # 0 => x.tooLarge > x.max)
  BY <1>0 DEF Core
<1>2. /\ x.r \in Nat /\ x.w \in Nat /\ x.mem \in Seq(Nat) /\ x.big \in Nat /\ x.got \in Nat /\ x.eaten \in Nat
      /\ BufLen(x) = x.w - x.r /\ x.done \in BOOLEAN
  BY <1>1, Fields DEF BufLen
<1>3. /\ y \in Reader /\ y.r = x.r + k /\ y.eaten = x.eaten + k /\ y.w = x.w /\ Len(y.mem) = Len(x.mem)
      /\ \A i \in 1 .. Len(x.mem) : i > x.r + k => y.mem[i] = x.mem[i]
      /\ x.mem = <<>> => y.mem = <<>>
      /\ SameCall(x, y) /\ y.big = x.big /\ y.max = x.max /\ y.done = x.done /\ y.light = x.light
      /\ y.got = x.got /\ y.tooLarge = x.tooLarge
  BY <1>1, AteIs
<1>4. /\ y.r # y.w => d = y
      /\ y.r = y.w /\ ~Shrinks(y) => d = Rewound(y)
      /\ y.r = y.w /\ Shrinks(y) => d = [Rewound(y) EXCEPT !.mem = Zeros(IdleSize), !.big = 0]
  BY DEF Discarded, Ate
<1>5. Shrinks(x) = Shrinks(y) /\ (Shrinks(y) => y.big # 0)
  BY <1>3 DEF Shrinks
<1>6. DiscardRefund(x, k) = IF y.r = y.w /\ Shrinks(y) THEN x.big ELSE 0
  BY <1>3, <1>5, SMTT(30) DEF DiscardRefund
<1>e. /\ Rewound(y) \in Reader /\ Rewound(y).r = 0 /\ Rewound(y).w = 0 /\ Rewound(y).mem = y.mem
      /\ Rewound(y).eaten = y.eaten /\ SameCall(y, Rewound(y)) /\ Rewound(y).big = y.big
      /\ Rewound(y).max = y.max /\ Rewound(y).done = y.done
      /\ Rewound(y).got = y.got /\ Rewound(y).tooLarge = y.tooLarge
  BY <1>3, EmptiedIs
<1>l. ASSUME ~x.done
      PROVE  /\ x.r <= x.w /\ x.w <= Len(x.mem) /\ 1 <= Len(x.mem) /\ Len(x.mem) <= x.max /\ x.w - x.r = x.got - x.eaten
             /\ x.big # 0 => x.big >= Len(x.mem)
             /\ x.big = 0 => Len(x.mem) = IdleSize
  BY <1>0, <1>l DEF Core, Live
<1>k. k <= x.w - x.r
  BY <1>0, <1>2, SMTT(30)
<1>n. /\ x.r \in Nat /\ x.w \in Nat /\ x.big \in Nat /\ x.got \in Nat /\ x.eaten \in Nat
      /\ y.r = x.r + k /\ y.w = x.w /\ y.eaten = x.eaten + k /\ y.got = x.got /\ y.big = x.big /\ y.max = x.max
  BY <1>2, <1>3
<1>m. Len(y.mem) = Len(x.mem)
  BY <1>3, SMTT(30)
<1> HIDE DEF y, d
<1>7. CASE y.r # y.w
  <2>1. ~x.done
    BY <1>0, <1>2, <1>3, <1>7 DEF Core, Dead
  <2>2. Live(x)
    BY <1>0, <2>1 DEF Core
  <2>a. y.r <= y.w
    BY <1>n, <1>k
  <2>b. y.w - y.r = y.got - y.eaten
    <3>1. x.w - x.r = x.got - x.eaten
      BY <1>l, <2>1
    <3>2. x.w - (x.r + k) = x.got - (x.eaten + k)
      BY <1>n, <3>1
    <3> QED BY <1>n, <3>2
  <2>c. /\ y.w <= Len(y.mem) /\ 1 <= Len(y.mem) /\ Len(y.mem) <= y.max
        /\ y.big # 0 => y.big >= Len(y.mem)
        /\ y.big = 0 => Len(y.mem) = IdleSize
    BY <1>n, <1>m, <1>l, <2>1, Zenon
  <2>3. /\ y.r <= y.w /\ y.w <= Len(y.mem) /\ 1 <= Len(y.mem) /\ Len(y.mem) <= y.max /\ y.w - y.r = y.got - y.eaten
        /\ y.big # 0 => y.big >= Len(y.mem)
        /\ y.big = 0 => Len(y.mem) = IdleSize
    BY <2>a, <2>b, <2>c, Zenon
  <2>4. ASSUME NEW i \in 1 .. y.w - y.r PROVE y.mem[y.r + i] = y.eaten + i
    <3>0. i \in Nat /\ 1 <= i /\ i <= y.w - y.r
      BY <1>n, <2>4
    <3>1. k + i \in 1 .. x.w - x.r /\ x.r + (k + i) = y.r + i /\ y.r + i > x.r + k /\ 1 <= y.r + i
      BY <1>n, <3>0
    <3>a. y.r + i \in 1 .. Len(x.mem)
      <4> DEFINE len == Len(x.mem)
      <4>1. len \in Nat /\ y.w <= len
        BY <1>2, <1>m, <2>c
      <4> HIDE DEF len
      <4>2. y.r + i \in 1 .. len
        BY <1>n, <3>0, <3>1, <4>1, SMTT(30)
      <4> QED BY <4>2 DEF len
    <3>2. x.mem[x.r + (k + i)] = x.eaten + (k + i)
      BY <2>2, <3>1 DEF Live
    <3>3. y.mem[y.r + i] = x.mem[y.r + i]
      BY <1>3, <3>1, <3>a, Zenon
    <3>4. x.eaten + (k + i) = y.eaten + i
      BY <1>n, <3>0
    <3> QED BY <3>1, <3>2, <3>3, <3>4, Zenon
  <2>5. Live(y)
    BY <1>7, <2>3, <2>4, SMTT(30) DEF Live
  <2>6. Core(c, y)
    BY <1>0, <1>1, <1>3, <2>1, <2>5 DEF Core
  <2>7. d = y /\ DiscardRefund(x, k) = 0
    BY <1>4, <1>6, <1>7, SMTT(30)
  <2> QED BY <1>2, <1>3, <2>6, <2>7, SMTT(30) DEF d
<1>8. CASE y.r = y.w /\ ~Shrinks(y)
  <2>1. d = Rewound(y) /\ DiscardRefund(x, k) = 0
    BY <1>4, <1>6, <1>8
  <2>2. ASSUME ~x.done PROVE Live(d)
    <3>1. d.r = 0 /\ d.w = 0 /\ d.got - d.eaten = 0
      <4>1. x.got - (x.eaten + k) = 0
        BY <1>n, <1>l, <1>8, <2>2, SMTT(30)
      <4> QED BY <1>3, <1>e, <2>1, <4>1, SMTT(30)
    <3>2. Len(d.mem) = Len(x.mem) /\ d.big = x.big /\ d.max = x.max
      BY <1>3, <1>e, <2>1
    <3> QED BY <1>2, <1>l, <2>2, <3>1, <3>2, SMTT(30) DEF Live
  <2>3. ASSUME x.done PROVE Dead(d)
    BY <1>0, <1>3, <1>e, <2>1, <2>3, SMTT(30) DEF Core, Dead
  <2>4. Core(c, d)
    BY <1>0, <1>1, <1>3, <1>e, <2>1, <2>2, <2>3, SMTT(30) DEF Core
  <2>5. SameCall(x, d) /\ d.big = x.big /\ d.max = x.max /\ d.done = x.done
    BY <1>3, <1>e, <2>1 DEF SameCall
  <2> QED BY <1>2, <2>1, <2>4, <2>5 DEF d
<1>9. CASE y.r = y.w /\ Shrinks(y)
  <2>1. d = [Rewound(y) EXCEPT !.mem = Zeros(IdleSize), !.big = 0] /\ DiscardRefund(x, k) = x.big
    BY <1>4, <1>6, <1>9
  <2>2. IdleSize \in Nat \ {0} /\ IdleSize <= x.max /\ Zeros(IdleSize) \in Seq(Nat) /\ Len(Zeros(IdleSize)) = IdleSize
    BY <1>1, ReaderAssumption, ZerosIs
  <2> DEFINE z == Rewound(y)
  <2>3. d = [z EXCEPT !.mem = Zeros(IdleSize), !.big = 0] /\ z \in Reader
    BY <1>e, <2>1
  <2> HIDE DEF z
  <2>4. d \in Reader
    BY <2>2, <2>3, Zenon DEF Reader
  <2>5. /\ d.mem = Zeros(IdleSize) /\ d.big = 0 /\ d.r = z.r /\ d.w = z.w /\ d.eaten = z.eaten /\ SameCall(z, d)
        /\ d.max = z.max /\ d.done = z.done /\ d.got = z.got /\ d.tooLarge = z.tooLarge
    BY <2>3 DEF Reader, SameCall
  <2>6. ~x.done
    BY <1>0, <1>3, <1>5, <1>9, SMTT(30) DEF Core, Dead
  <2>7. Live(d)
    <3>1. x.got - (x.eaten + k) = 0
      BY <1>n, <1>l, <1>9, <2>6, SMTT(30)
    <3>2. d.r = 0 /\ d.w = 0 /\ d.got - d.eaten = 0 /\ d.max = x.max
      BY <1>3, <1>e, <2>5, <3>1 DEF z
    <3> QED BY <2>2, <2>5, <3>2 DEF Live
  <2>8. d.max = x.max /\ d.done = x.done /\ d.tooLarge = x.tooLarge /\ SameCall(x, d)
    BY <1>3, <1>e, <2>5 DEF z, SameCall
  <2>9. Core(c, d)
    BY <1>0, <1>1, <2>4, <2>6, <2>7, <2>8, SMTT(30) DEF Core
  <2> QED BY <1>2, <2>1, <2>5, <2>8, <2>9, SMTT(30) DEF d
<1> QED BY <1>7, <1>8, <1>9

\* The buffer with k bytes of the source, those after byte g, at position w.
Put(s, w, k, g) == [i \in DOMAIN s |-> IF i \in w + 1 .. w + k THEN g + i - w ELSE s[i]]

\* It changes those k positions only.
LEMMA PutIs ==
  ASSUME NEW s \in Seq(Nat), NEW w \in Nat, NEW k \in Nat, NEW g \in Nat
  PROVE  LET m == Put(s, w, k, g) IN
         /\ m \in Seq(Nat) /\ Len(m) = Len(s)
         /\ \A i \in 1 .. Len(s) : i <= w => m[i] = s[i]
         /\ \A i \in 1 .. Len(s) : i \in w + 1 .. w + k => m[i] = g + i - w
  BY SMTT(30) DEF Put

\* readOnce adds the next bytes of the source to those that are buffered.
LEMMA FilledKeeps ==
  ASSUME NEW c \in Conn, NEW x, NEW k \in Nat, NEW err \in {"nil", "EOF"}
  PROVE  Core(c, x) /\ ~x.done /\ x.w + k <= Len(x.mem) =>
         LET y == Filled(x, k, err) IN
         Core(c, y) /\ SameCall(x, y) /\ y.big = x.big /\ y.max = x.max /\ y.done = x.done /\ y.w = x.w + k /\ y.r = x.r
<1>0. SUFFICES ASSUME Core(c, x), ~x.done, x.w + k <= Len(x.mem)
      PROVE  LET y == Filled(x, k, err) IN
             Core(c, y) /\ SameCall(x, y) /\ y.big = x.big /\ y.max = x.max /\ y.done = x.done /\ y.w = x.w + k /\ y.r = x.r
  OBVIOUS
<1> DEFINE y == Filled(x, k, err)
           m == Put(x.mem, x.w, k, x.got)
           light == k <= IdleSize
<1>1. x \in Reader /\ Live(x) /\ x.max = MaxData[c] /\ (x.tooLarge # 0 => x.tooLarge > x.max)
  BY <1>0 DEF Core
<1>2. /\ x.r \in Nat /\ x.w \in Nat /\ x.big \in Nat /\ x.got \in Nat /\ x.eaten \in Nat
      /\ x.w + k \in Nat /\ x.got + k \in Nat /\ light \in BOOLEAN
  BY <1>1, Fields
<1>3. x.mem \in Seq(Nat)
  BY <1>1, Fields
<1>4. /\ m \in Seq(Nat) /\ Len(m) = Len(x.mem)
      /\ \A i \in 1 .. Len(x.mem) : i <= x.w => m[i] = x.mem[i]
      /\ \A i \in 1 .. Len(x.mem) : i \in x.w + 1 .. x.w + k => m[i] = x.got + i - x.w
  <2> DEFINE s == x.mem
             w == x.w
             g == x.got
             P(p) == /\ p \in Seq(Nat) /\ Len(p) = Len(s)
                     /\ \A i \in 1 .. Len(s) : i <= w => p[i] = s[i]
                     /\ \A i \in 1 .. Len(s) : i \in w + 1 .. w + k => p[i] = g + i - w
  <2>1. s \in Seq(Nat) /\ w \in Nat /\ g \in Nat
    BY <1>2, <1>3
  <2> HIDE DEF s, w, g
  <2>2. P(Put(s, w, k, g))
    BY <2>1, PutIs
  <2> QED BY <2>2 DEF s, w, g
<1>5. y = [x EXCEPT !.mem = m, !.w = x.w + k, !.light = light, !.err = err, !.got = x.got + k]
  BY DEF Filled, Put
<1> HIDE DEF y, m, light
<1>6. y \in Reader
  BY <1>1, <1>2, <1>4, <1>5, Zenon DEF Reader
<1>7. /\ y.mem = m /\ y.w = x.w + k /\ y.got = x.got + k /\ y.r = x.r /\ y.eaten = x.eaten /\ y.max = x.max
      /\ SameCall(x, y) /\ y.big = x.big /\ y.done = x.done /\ y.tooLarge = x.tooLarge
  BY <1>1, <1>5 DEF Reader, SameCall
<1>n. y.w = x.w + k /\ y.got = x.got + k /\ y.r = x.r /\ y.eaten = x.eaten
  BY <1>7
<1>8. x.r <= x.w /\ (x.r = x.w => x.w = 0) /\ x.w - x.r = x.got - x.eaten
  BY <1>1 DEF Live
<1>9. /\ 1 <= Len(y.mem) /\ Len(y.mem) <= y.max /\ y.w <= Len(y.mem)
      /\ y.big # 0 => y.big >= Len(y.mem)
      /\ y.big = 0 => Len(y.mem) = IdleSize
  <2>1. /\ 1 <= Len(x.mem) /\ Len(x.mem) <= x.max
        /\ x.big # 0 => x.big >= Len(x.mem)
        /\ x.big = 0 => Len(x.mem) = IdleSize
    BY <1>1 DEF Live
  <2>2. Len(y.mem) = Len(x.mem)
    BY <1>4, <1>7, Zenon
  <2> QED BY <1>0, <1>7, <2>1, <2>2, Zenon
<1>10. y.r <= y.w /\ y.w - y.r = y.got - y.eaten
  BY <1>2, <1>8, <1>n
<1>11. y.r = y.w => y.w = 0
  BY <1>2, <1>8, <1>n
<1>12. ASSUME NEW i \in 1 .. y.w - y.r PROVE y.mem[y.r + i] = y.eaten + i
  <2> DEFINE p == x.r + i
             len == Len(x.mem)
  <2>1. i \in Nat /\ 1 <= i /\ i <= y.w - y.r
    BY <1>2, <1>n, <1>12
  <2>2. p \in Nat /\ 1 <= p /\ p <= x.w + k
    BY <1>2, <1>n, <2>1
  <2>3. p \in 1 .. len
    <3>1. len \in Nat /\ x.w + k <= len
      BY <1>0, <1>3
    <3> HIDE DEF len, p
    <3> QED BY <1>2, <2>2, <3>1
  <2>4. CASE p <= x.w
    <3>1. i \in 1 .. x.w - x.r
      BY <1>2, <2>1, <2>4
    <3>2. x.mem[x.r + i] = x.eaten + i
      BY <1>1, <3>1 DEF Live
    <3>3. m[p] = x.mem[p]
      BY <1>4, <2>3, <2>4, Zenon
    <3> QED BY <1>7, <3>2, <3>3, Zenon
  <2>5. CASE ~(p <= x.w)
    <3>1. p \in x.w + 1 .. x.w + k
      BY <1>2, <2>2, <2>5
    <3>2. m[p] = x.got + p - x.w
      BY <1>4, <2>3, <3>1, Zenon
    <3>3. x.got + (x.r + i) - x.w = x.eaten + i
      BY <1>2, <1>8, <2>1
    <3> QED BY <1>7, <3>2, <3>3, Zenon
  <2> QED BY <2>4, <2>5
<1>13. Live(y)
  BY <1>9, <1>10, <1>11, <1>12 DEF Live
<1>14. Core(c, y)
  BY <1>0, <1>1, <1>6, <1>7, <1>13, SMTT(30) DEF Core
<1> QED BY <1>7, <1>14 DEF y

\* A call begins.
Begun(x, op, n, at) == [x EXCEPT !.op = op, !.n = n, !.at = at, !.tooLarge = 0]

\* It leaves the buffer as it is.
LEMMA CallKeeps ==
  ASSUME NEW c \in Conn, NEW x, Core(c, x), NEW op \in Ops, NEW n \in Nat, NEW at \in Ats
  PROVE  LET y == Begun(x, op, n, at) IN
         Core(c, y) /\ SameBuf(x, y) /\ y.op = op /\ y.n = n /\ y.at = at /\ y.old = x.old
<1> DEFINE y == Begun(x, op, n, at)
<1>1. /\ y \in Reader /\ SameBuf(x, y) /\ y.op = op /\ y.n = n /\ y.at = at /\ y.tooLarge = 0 /\ y.old = x.old
  <2>1. x \in Reader
    BY DEF Core
  <2>2. y \in Reader
    BY <2>1, Zenon DEF Reader, Begun
  <2>3. SameBuf(x, y) /\ y.op = op /\ y.n = n /\ y.at = at /\ y.tooLarge = 0 /\ y.old = x.old
    BY <2>1 DEF Reader, SameBuf, Begun
  <2> QED BY <2>2, <2>3
<1> HIDE DEF y
<1>2. Core(c, y)
  BY <1>1, SameCore
<1> QED BY <1>1, <1>2 DEF y

\* A step of one Reader that pays for what it holds.
LEMMA Step ==
  ASSUME Inv, NEW c \in Conn, NEW y, Core(c, y), Under(y), rd' = [rd EXCEPT ![c] = y],
         used' = used + ((y.big + y.old) - (rd[c].big + rd[c].old)), used' <= MaxUnits
  PROVE  Inv'
<1>1. DOMAIN rd = Conn /\ rd = [e \in Conn |-> rd[e]] /\ used = SumFunction(Held)
  BY DEF Inv
<1>2. DOMAIN rd' = Conn /\ rd' = [e \in Conn |-> rd'[e]] /\ rd'[c] = y /\ \A e \in Conn \ {c} : rd'[e] = rd[e]
  BY <1>1
<1>3. \A e \in Conn : Core(e, rd'[e]) /\ Under(rd'[e])
  BY <1>2 DEF Inv
<1>4. \A e \in Conn : rd[e].big \in Nat /\ rd[e].old \in Nat /\ rd'[e].big \in Nat /\ rd'[e].old \in Nat
  <2>1. \A e \in Conn : rd[e] \in Reader /\ rd'[e] \in Reader
    BY <1>3 DEF Inv, Core
  <2> QED BY <2>1, Fields
<1>5. Held \in [Conn -> Int] /\ Held' \in [Conn -> Int]
  BY <1>4 DEF Held
<1>6. /\ Held[c] = rd[c].big + rd[c].old /\ Held'[c] = y.big + y.old
      /\ \A e \in Conn \ {c} : Held'[e] = Held[e]
  BY <1>2 DEF Held
<1>7. SumFunction(Held') = SumFunction(Held) + (Held'[c] - Held[c])
  <2>1. IsFiniteSet(Conn)
    BY ReaderAssumption
  <2> QED BY <1>5, <1>6, <2>1, SumChanges, Zenon
<1>8. used' = SumFunction(Held')
  BY <1>1, <1>6, <1>7, Zenon
<1>9. (\A e \in Conn : Core(e, rd[e]) /\ Under(rd[e]))'
  BY <1>3 DEF Core, Under, Live, Dead, BufLen
<1>10. SumFunction(Held)' = SumFunction(Held')
  BY DEF SumFunction
<1> QED BY <1>2, <1>8, <1>9, ReaderAssumption DEF Inv
=============================================================================
