--------------------------- MODULE SumTheorems ------------------------------
(***************************************************************************)
(* Sums.  SumFunction of the community module Functions is a fold, that is *)
(* a function defined by recursion on the subsets of its domain.  That the *)
(* recursion defines one, and what it computes, is shown here for finite   *)
(* domains by looking at a smallest set for which it would not be so.      *)
(***************************************************************************)
EXTENDS Functions, FiniteSetTheorems, TLAPS

\* The value that is added next to the sum over s, and what is computed for s
\* from the sums g over smaller sets.
NextOf(s) == CHOOSE x \in s : TRUE

SumStep(f, g, s) == IF s = {} THEN 0 ELSE f[NextOf(s)] + g[s \ {NextOf(s)}]

Sums(f, S, g) == g = [s \in SUBSET S |-> SumStep(f, g, s)]

LEMMA SumIsChosen ==
  \A f, S : SumFunctionOnSet(f, S) = (CHOOSE g : Sums(f, S, g))[S]
BY DEF SumFunctionOnSet, FoldFunctionOnSet, MapThenFoldSet, Sums, SumStep, NextOf

\* A set of finite sets, unless it is empty, has one that includes no other.
LEMMA SmallestSet ==
  ASSUME NEW S, IsFiniteSet(S), NEW T \in SUBSET (SUBSET S), T # {}
  PROVE  \E s \in T : \A r \in T : r \subseteq s => r = s
<1>1. IsWellFoundedOn(StrictSubsetOrdering(S), SUBSET S)
  BY FS_StrictSubsetOrderingWellFounded, FS_FiniteSubsetsOfFinite
<1>2. PICK s \in T : \A r \in T : ~ (<<r, s>> \in StrictSubsetOrdering(S))
  BY <1>1, WFMin
<1>3. ASSUME NEW r \in T, r \subseteq s, r # s
      PROVE  FALSE
  BY <1>2, <1>3 DEF StrictSubsetOrdering
<1> QED
  BY <1>2, <1>3

LEMMA NextIsIn == \A s : s # {} => NextOf(s) \in s
BY DEF NextOf

LEMMA SumsAgree ==
  ASSUME NEW f, NEW A, NEW B, NEW S, IsFiniteSet(S), S \subseteq A, S \subseteq B,
         NEW g, NEW h, Sums(f, A, g), Sums(f, B, h)
  PROVE  \A s \in SUBSET S : g[s] = h[s]
<1> DEFINE bad == {s \in SUBSET S : g[s] # h[s]}
<1> SUFFICES ASSUME bad # {} PROVE FALSE
  OBVIOUS
<1> bad \in SUBSET (SUBSET S)
  OBVIOUS
<1> HIDE DEF bad
<1>1. PICK s \in bad : \A r \in bad : r \subseteq s => r = s
  BY SmallestSet
<1>2. s \in SUBSET S /\ g[s] # h[s] /\ s \in SUBSET A /\ s \in SUBSET B
  BY DEF bad
<1>3. g[s] = SumStep(f, g, s) /\ h[s] = SumStep(f, h, s)
  BY <1>2 DEF Sums
<1>4. s # {} => g[s \ {NextOf(s)}] = h[s \ {NextOf(s)}]
  <2> SUFFICES ASSUME s # {} PROVE s \ {NextOf(s)} \notin bad
    BY <1>2 DEF bad
  <2> QED
    BY <1>1, NextIsIn DEF bad
<1> QED
  BY <1>2, <1>3, <1>4 DEF SumStep

LEMMA SumsExist ==
  ASSUME NEW f, NEW S, IsFiniteSet(S)
  PROVE  \E g : Sums(f, S, g)
<1> DEFINE bad == {s \in SUBSET S : ~ \E g : Sums(f, s, g)}
<1> SUFFICES ASSUME bad # {} PROVE FALSE
  OBVIOUS
<1> bad \in SUBSET (SUBSET S)
  OBVIOUS
<1> HIDE DEF bad
<1>1. PICK T \in bad : \A r \in bad : r \subseteq T => r = T
  BY SmallestSet
<1>2. T \in SUBSET S /\ ~ \E g : Sums(f, T, g)
  BY DEF bad
<1>3. \A r \in SUBSET T : r # T => \E g : Sums(f, r, g)
  <2> TAKE r \in SUBSET T
  <2> HAVE r # T
  <2>1. r \notin bad /\ r \in SUBSET S
    BY <1>1, <1>2
  <2> QED
    BY <2>1 DEF bad
<1> DEFINE value(r) == (CHOOSE g : Sums(f, r, g))[r]
           total    == [s \in SUBSET T |->
                          IF s = {} THEN 0 ELSE f[NextOf(s)] + value(s \ {NextOf(s)})]
<1>4. \A r \in SUBSET T : r # T => value(r) = total[r]
  <2> SUFFICES ASSUME NEW r \in SUBSET T, r # T PROVE value(r) = total[r]
    OBVIOUS
  <2> DEFINE g == CHOOSE g : Sums(f, r, g)
             q == r \ {NextOf(r)}
             h == CHOOSE h : Sums(f, q, h)
  <2>1. Sums(f, r, g)
    BY <1>3
  <2> HIDE DEF g
  <2>2. value(r) = g[r] /\ g[r] = SumStep(f, g, r)
    BY <2>1 DEF Sums, g
  <2>3. CASE r = {}
    BY <2>2, <2>3 DEF SumStep
  <2>4. CASE r # {}
    <3>1. q \in SUBSET T /\ q # T /\ q \subseteq r
      BY <2>4
    <3>2. Sums(f, q, h)
      BY <1>3, <3>1
    <3>3. value(q) = h[q]
      OBVIOUS
    <3>4. IsFiniteSet(q)
      BY <1>2, <3>1, FS_Subset
    <3> HIDE DEF q, h, value
    <3>5. g[q] = h[q]
      BY <2>1, <3>1, <3>2, <3>4, SumsAgree
    <3>6. g[r] = f[NextOf(r)] + value(q)
      BY <2>2, <2>4, <3>3, <3>5 DEF SumStep, q
    <3>7. total[r] = f[NextOf(r)] + value(q)
      BY <2>4 DEF q
    <3> QED
      BY <2>2, <3>6, <3>7
  <2> QED
    BY <2>3, <2>4
<1> HIDE DEF value
<1>5. ASSUME NEW s \in SUBSET T
      PROVE  total[s] = SumStep(f, total, s)
  <2>1. CASE s = {}
    BY <2>1 DEF SumStep
  <2>2. CASE s # {}
    <3>1. s \ {NextOf(s)} \in SUBSET T /\ s \ {NextOf(s)} # T
      BY <2>2, NextIsIn
    <3>2. value(s \ {NextOf(s)}) = total[s \ {NextOf(s)}]
      BY <1>4, <3>1
    <3>3. total[s] = f[NextOf(s)] + value(s \ {NextOf(s)})
      BY <2>2
    <3> HIDE DEF total
    <3> QED
      BY <2>2, <3>2, <3>3 DEF SumStep
  <2> QED
    BY <2>1, <2>2
<1>6. total = [s \in SUBSET T |-> total[s]]
  OBVIOUS
<1> HIDE DEF total
<1>7. Sums(f, T, total)
  BY <1>5, <1>6 DEF Sums
<1> QED
  BY <1>2, <1>7

\* The sum over a finite set by its recursion.
LEMMA SumRecursion ==
  ASSUME NEW f, NEW S, IsFiniteSet(S)
  PROVE  /\ S = {} => SumFunctionOnSet(f, S) = 0
         /\ S # {} => SumFunctionOnSet(f, S)
                        = f[NextOf(S)] + SumFunctionOnSet(f, S \ {NextOf(S)})
<1> DEFINE g == CHOOSE g : Sums(f, S, g)
           q == S \ {NextOf(S)}
           h == CHOOSE h : Sums(f, q, h)
<1>1. IsFiniteSet(q)
  BY FS_Subset
<1>2. Sums(f, S, g)
  BY SumsExist
<1>3. Sums(f, q, h)
  BY <1>1, SumsExist
<1>4. SumFunctionOnSet(f, S) = g[S] /\ SumFunctionOnSet(f, q) = h[q]
  BY SumIsChosen
<1> HIDE DEF g, h, q
<1>5. q \subseteq S
  BY DEF q
<1>6. \A s \in SUBSET q : g[s] = h[s]
  BY <1>1, <1>2, <1>3, <1>5, SumsAgree
<1>7. g[S] = SumStep(f, g, S)
  BY <1>2 DEF Sums
<1> QED
  BY <1>4, <1>6, <1>7 DEF SumStep, q


\* A change of one value changes the sum by as much.
LEMMA SumOfChange ==
  ASSUME NEW S, IsFiniteSet(S), NEW f \in [S -> Int], NEW h \in [S -> Int],
         NEW a \in S, NEW d \in Int,
         h[a] = f[a] + d, \A s \in S \ {a} : h[s] = f[s]
  PROVE  SumFunction(f) \in Int /\ SumFunction(h) = SumFunction(f) + d
<1> DEFINE sum(s)  == SumFunctionOnSet(f, s)
           then(s) == SumFunctionOnSet(h, s)
           bad     == {s \in SUBSET S :
                         ~ (sum(s) \in Int /\ then(s) = sum(s) + (IF a \in s THEN d ELSE 0))}
<1>1. h \in [S -> Int] /\ h[a] = f[a] + d /\ \A b \in S \ {a} : h[b] = f[b]
  OBVIOUS
<1>2. SumFunction(f) = sum(S) /\ SumFunction(h) = then(S)
  BY DEF SumFunction
<1> SUFFICES ASSUME bad # {} PROVE FALSE
  BY <1>2
<1>3. bad \in SUBSET (SUBSET S)
  OBVIOUS
<1> HIDE DEF bad
<1>4. PICK s \in bad : \A r \in bad : r \subseteq s => r = s
  BY <1>3, SmallestSet
<1>5. s \in SUBSET S /\ IsFiniteSet(s)
  BY <1>3, FS_Subset
<1>6. CASE s = {}
  <2>1. sum(s) = 0 /\ then(s) = 0
    BY <1>5, <1>6, SumRecursion
  <2> QED
    BY <1>6, <2>1 DEF bad
<1>7. CASE s # {}
  <2> DEFINE b == NextOf(s)
             q == s \ {b}
  <2>1. b \in s /\ b \in S /\ q \in SUBSET S /\ q # s /\ q \subseteq s
    BY <1>5, <1>7, NextIsIn
  <2>2. sum(s) = f[b] + sum(q) /\ then(s) = h[b] + then(q)
    BY <1>5, <1>7, SumRecursion
  <2>3. q \notin bad
    BY <1>4, <2>1
  <2> HIDE DEF b
  <2>4. sum(q) \in Int /\ then(q) = sum(q) + (IF a \in q THEN d ELSE 0)
    BY <2>1, <2>3 DEF bad
  <2>5. f[b] \in Int
    BY <2>1
  <2> HIDE DEF sum, then
  <2>6. CASE a = b
    <3>1. a \notin q /\ a \in s /\ h[b] = f[b] + d
      BY <1>1, <2>1, <2>6
    <3> HIDE DEF q
    <3>2. sum(s) \in Int /\ then(s) = sum(s) + d
      BY <2>2, <2>4, <2>5, <3>1
    <3> QED
      BY <3>1, <3>2 DEF bad
  <2>7. CASE a # b
    <3>1. (a \in q <=> a \in s) /\ h[b] = f[b]
      BY <1>1, <2>1, <2>7
    <3> HIDE DEF q
    <3>2. sum(s) \in Int /\ then(s) = sum(s) + (IF a \in s THEN d ELSE 0)
      BY <2>2, <2>4, <2>5, <3>1
    <3> QED
      BY <3>2 DEF bad
  <2> QED
    BY <2>6, <2>7
<1> QED
  BY <1>6, <1>7

\* A sum of natural numbers is one, and no less than any of them.
LEMMA SumOfNaturals ==
  ASSUME NEW S, IsFiniteSet(S), NEW f \in [S -> Nat]
  PROVE  SumFunction(f) \in Nat /\ \A a \in S : f[a] <= SumFunction(f)
<1> DEFINE sum(s) == SumFunctionOnSet(f, s)
           bad    == {s \in SUBSET S : ~ (sum(s) \in Nat /\ \A a \in s : f[a] <= sum(s))}
<1>1. SumFunction(f) = sum(S)
  BY DEF SumFunction
<1> SUFFICES ASSUME bad # {} PROVE FALSE
  BY <1>1
<1>2. bad \in SUBSET (SUBSET S)
  OBVIOUS
<1> HIDE DEF bad
<1>3. PICK s \in bad : \A r \in bad : r \subseteq s => r = s
  BY <1>2, SmallestSet
<1>4. s \in SUBSET S /\ IsFiniteSet(s)
  BY <1>2, FS_Subset
<1>5. CASE s = {}
  <2>1. sum(s) = 0
    BY <1>4, <1>5, SumRecursion
  <2> QED
    BY <1>5, <2>1 DEF bad
<1>6. CASE s # {}
  <2> DEFINE b == NextOf(s)
             q == s \ {b}
  <2>1. b \in s /\ b \in S /\ q \in SUBSET S /\ q # s /\ q \subseteq s
    BY <1>4, <1>6, NextIsIn
  <2>2. sum(s) = f[b] + sum(q)
    BY <1>4, <1>6, SumRecursion
  <2>3. q \notin bad
    BY <1>3, <2>1
  <2> HIDE DEF b
  <2>4. sum(q) \in Nat /\ \A a \in q : f[a] <= sum(q)
    BY <2>1, <2>3 DEF bad
  <2>5. f[b] \in Nat /\ \A a \in s : f[a] \in Nat /\ (a = b \/ a \in q)
    BY <1>4, <2>1
  <2> HIDE DEF sum, q
  <2>6. sum(s) \in Nat /\ \A a \in s : f[a] <= sum(s)
    BY <2>2, <2>4, <2>5
  <2> QED
    BY <2>6 DEF bad
<1> QED
  BY <1>5, <1>6

LEMMA SumOfZeros ==
  ASSUME NEW S, IsFiniteSet(S)
  PROVE  SumFunction([a \in S |-> 0]) = 0
<1> DEFINE f      == [a \in S |-> 0]
           sum(s) == SumFunctionOnSet(f, s)
           bad    == {s \in SUBSET S : sum(s) # 0}
<1>1. SumFunction(f) = sum(S)
  BY DEF SumFunction
<1> SUFFICES ASSUME bad # {} PROVE FALSE
  BY <1>1
<1>2. bad \in SUBSET (SUBSET S)
  OBVIOUS
<1> HIDE DEF bad
<1>3. PICK s \in bad : \A r \in bad : r \subseteq s => r = s
  BY <1>2, SmallestSet
<1>4. s \in SUBSET S /\ IsFiniteSet(s)
  BY <1>2, FS_Subset
<1>5. CASE s = {}
  BY <1>4, <1>5, SumRecursion DEF bad
<1>6. CASE s # {}
  <2> DEFINE b == NextOf(s)
             q == s \ {b}
  <2>1. b \in s /\ b \in S /\ q \in SUBSET S /\ q # s /\ q \subseteq s
    BY <1>4, <1>6, NextIsIn
  <2>2. sum(s) = f[b] + sum(q)
    BY <1>4, <1>6, SumRecursion
  <2>3. sum(q) = 0 /\ f[b] = 0
    BY <1>3, <2>1 DEF bad
  <2> QED
    BY <2>2, <2>3 DEF bad
<1> QED
  BY <1>5, <1>6

\* Any value may be taken out of a sum first.
LEMMA SumOfRest ==
  ASSUME NEW S, IsFiniteSet(S), NEW f \in [S -> Int]
  PROVE  \A s \in SUBSET S : \A x \in s :
           /\ SumFunctionOnSet(f, s) \in Int
           /\ SumFunctionOnSet(f, s) = f[x] + SumFunctionOnSet(f, s \ {x})
<1> DEFINE sum(s) == SumFunctionOnSet(f, s)
           good(s) == /\ sum(s) \in Int
                      /\ \A x \in s : sum(s) = f[x] + sum(s \ {x})
           bad     == {s \in SUBSET S : ~good(s)}
<1> SUFFICES ASSUME bad # {} PROVE FALSE
  OBVIOUS
<1>1. bad \in SUBSET (SUBSET S)
  OBVIOUS
<1> HIDE DEF bad
<1>2. PICK s \in bad : \A r \in bad : r \subseteq s => r = s
  BY <1>1, SmallestSet
<1>3. s \in SUBSET S /\ IsFiniteSet(s)
  BY <1>1, FS_Subset
<1>4. \A r \in SUBSET s : r # s => good(r)
  BY <1>2, <1>3 DEF bad
<1>5. CASE s = {}
  <2>1. sum(s) = 0
    BY <1>3, <1>5, SumRecursion
  <2> QED
    BY <1>5, <2>1 DEF bad
<1>6. CASE s # {}
  <2> DEFINE b == NextOf(s)
  <2>1. b \in s /\ f[b] \in Int
    BY <1>3, <1>6, NextIsIn
  <2>2. sum(s) = f[b] + sum(s \ {b})
    BY <1>3, <1>6, SumRecursion
  <2> HIDE DEF b
  <2>3. sum(s \ {b}) \in Int /\ sum(s) \in Int
    BY <1>4, <2>1, <2>2
  <2>4. ASSUME NEW x \in s, x # b
        PROVE  sum(s) = f[x] + sum(s \ {x})
    <3> DEFINE q == (s \ {b}) \ {x}
    <3>1. q = (s \ {x}) \ {b} /\ q \in SUBSET s /\ q # s
      BY <2>1
    <3>2. sum(s \ {b}) = f[x] + sum(q)
      <4>1. s \ {b} \in SUBSET s /\ s \ {b} # s /\ x \in s \ {b}
        BY <2>1, <2>4
      <4> QED
        BY <1>4, <4>1
    <3>3. sum(s \ {x}) = f[b] + sum(q)
      <4>1. s \ {x} \in SUBSET s /\ s \ {x} # s /\ b \in s \ {x}
        BY <2>1, <2>4
      <4>2. sum(s \ {x}) = f[b] + sum((s \ {x}) \ {b})
        BY <1>4, <4>1
      <4> QED
        BY <3>1, <4>2
    <3>4. sum(q) \in Int
      BY <1>4, <3>1
    <3>5. f[x] \in Int
      BY <1>3
    <3> HIDE DEF q, sum
    <3> QED
      BY <2>1, <2>2, <3>2, <3>3, <3>4, <3>5
  <2> QED
    BY <2>2, <2>3, <2>4 DEF bad
<1> QED
  BY <1>5, <1>6

\* A sum does not depend on how what is added up is named.
LEMMA SumOfRenamed ==
  ASSUME NEW D, IsFiniteSet(D), NEW S, IsFiniteSet(S), NEW p \in [D -> S],
         \A i, j \in D : p[i] = p[j] => i = j,
         NEW f \in [D -> Int], NEW g \in [S -> Int], \A i \in D : f[i] = g[p[i]]
  PROVE  SumFunctionOnSet(f, D) = SumFunctionOnSet(g, {p[i] : i \in D})
<1> DEFINE image(d) == {p[i] : i \in d}
           bad      == {d \in SUBSET D : SumFunctionOnSet(f, d) # SumFunctionOnSet(g, image(d))}
<1> SUFFICES ASSUME bad # {} PROVE FALSE
  OBVIOUS
<1>1. bad \in SUBSET (SUBSET D)
  OBVIOUS
<1> HIDE DEF bad
<1>2. PICK d \in bad : \A r \in bad : r \subseteq d => r = d
  BY <1>1, SmallestSet
<1>3. d \in SUBSET D /\ IsFiniteSet(d) /\ image(d) \in SUBSET S /\ IsFiniteSet(image(d))
  BY <1>1, FS_Subset
<1>4. CASE d = {}
  <2>1. image(d) = {}
    BY <1>4
  <2>2. SumFunctionOnSet(f, d) = 0 /\ SumFunctionOnSet(g, image(d)) = 0
    BY <1>3, <1>4, <2>1, SumRecursion
  <2> QED
    BY <2>2 DEF bad
<1>5. CASE d # {}
  <2> DEFINE b == NextOf(d)
             q == d \ {b}
  <2>1. b \in d /\ b \in D /\ q \in SUBSET D /\ q # d /\ q \subseteq d
    BY <1>3, <1>5, NextIsIn
  <2>2. SumFunctionOnSet(f, d) = f[b] + SumFunctionOnSet(f, q)
    BY <1>3, <1>5, SumRecursion
  <2> HIDE DEF b
  <2>3. image(q) = image(d) \ {p[b]}
    BY <1>3, <2>1
  <2>4. p[b] \in image(d)
    BY <2>1
  <2>5. SumFunctionOnSet(g, image(d)) = g[p[b]] + SumFunctionOnSet(g, image(q))
    BY <1>3, <2>3, <2>4, SumOfRest
  <2>6. SumFunctionOnSet(f, q) = SumFunctionOnSet(g, image(q))
    BY <1>2, <2>1 DEF bad
  <2> QED
    BY <2>1, <2>2, <2>5, <2>6 DEF bad
<1> QED
  BY <1>4, <1>5

LEMMA SumIsInteger ==
  ASSUME NEW S, IsFiniteSet(S), NEW f \in [S -> Int], NEW s \in SUBSET S
  PROVE  SumFunctionOnSet(f, s) \in Int
<1>1. IsFiniteSet(s)
  BY FS_Subset
<1>2. CASE s = {}
  BY <1>1, <1>2, SumRecursion
<1>3. CASE \E x : x \in s
  BY <1>3, SumOfRest
<1> QED
  BY <1>2, <1>3

\* What is counted as zero where it is missing may as well be left out.
LEMMA SumOfPadded ==
  ASSUME NEW S, IsFiniteSet(S), NEW F, IsFiniteSet(F),
         NEW f \in [F -> Int], NEW g \in [S -> Int],
         \A a \in S : g[a] = IF a \in F THEN f[a] ELSE 0
  PROVE  SumFunctionOnSet(f, F \cap S) = SumFunction(g)
<1> DEFINE bad == {d \in SUBSET S : SumFunctionOnSet(f, F \cap d) # SumFunctionOnSet(g, d)}
<1>1. SumFunction(g) = SumFunctionOnSet(g, S)
  BY DEF SumFunction
<1> SUFFICES ASSUME bad # {} PROVE FALSE
  BY <1>1
<1>2. bad \in SUBSET (SUBSET S)
  OBVIOUS
<1> HIDE DEF bad
<1>3. PICK d \in bad : \A r \in bad : r \subseteq d => r = d
  BY <1>2, SmallestSet
<1>4. d \in SUBSET S /\ IsFiniteSet(d) /\ F \cap d \in SUBSET F
  BY <1>2, FS_Subset
<1>5. CASE d = {}
  <2>1. F \cap d = {} /\ IsFiniteSet(F \cap d)
    BY <1>4, <1>5
  <2>2. SumFunctionOnSet(f, F \cap d) = 0 /\ SumFunctionOnSet(g, d) = 0
    BY <1>4, <1>5, <2>1, SumRecursion
  <2> QED
    BY <2>2 DEF bad
<1>6. ASSUME NEW x \in d PROVE FALSE
  <2> DEFINE q == d \ {x}
  <2>1. q \in SUBSET S /\ q \subseteq d /\ q # d
    BY <1>4
  <2>2. SumFunctionOnSet(f, F \cap q) = SumFunctionOnSet(g, q)
    BY <1>3, <2>1 DEF bad
  <2>3. /\ SumFunctionOnSet(g, d) = g[x] + SumFunctionOnSet(g, q)
        /\ SumFunctionOnSet(g, q) \in Int
    BY <1>4, <2>1, SumIsInteger, SumOfRest
  <2>4. CASE x \in F
    <3>1. F \cap q = (F \cap d) \ {x} /\ x \in F \cap d
      BY <2>4
    <3>2. SumFunctionOnSet(f, F \cap d) = f[x] + SumFunctionOnSet(f, F \cap q)
      BY <1>4, <3>1, SumOfRest
    <3>3. g[x] = f[x]
      BY <1>4, <2>4
    <3> QED
      BY <1>3, <2>2, <2>3, <3>2, <3>3 DEF bad
  <2>5. CASE x \notin F
    <3>1. F \cap q = F \cap d
      BY <2>5
    <3>2. g[x] = 0
      BY <1>4, <2>5
    <3> QED
      BY <1>3, <2>2, <2>3, <3>1, <3>2 DEF bad
  <2> QED
    BY <2>4, <2>5
<1> QED
  BY <1>5, <1>6
=============================================================================
