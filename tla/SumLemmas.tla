------------------------------ MODULE SumLemmas ------------------------------
(***************************************************************************)
(* What the sums of the reports are, for any finite set.  The folds of the *)
(* library are recursive functions, and its induction theorems take a      *)
(* predicate as a parameter; here induction is by a least counterexample   *)
(* instead: a set of finite sets that has no least element is empty.       *)
(***************************************************************************)
EXTENDS Integers, FiniteSets, Functions, FiniteSetTheorems, TLAPS

(* A set of subsets of a finite set has a member without smaller members.   *)
LEMMA LeastSubset ==
  ASSUME NEW S, IsFiniteSet(S), NEW Bad, Bad \subseteq SUBSET S, Bad # {}
  PROVE  \E T \in Bad : \A U \in Bad : ~ (U \subseteq T /\ U # T)
<1>1. IsWellFoundedOn(StrictSubsetOrdering(S), SUBSET S)
  BY FS_StrictSubsetOrderingWellFounded, FS_FiniteSubsetsOfFinite
<1>2. \E T \in Bad : \A U \in Bad : <<U, T>> \notin StrictSubsetOrdering(S)
  BY <1>1, WFMin
<1> QED
  BY <1>2 DEF StrictSubsetOrdering

-----------------------------------------------------------------------------
(***************************************************************************)
(* SumFunctionOnSet takes one element after the other.                     *)
(***************************************************************************)
One(s) == CHOOSE x \in s : TRUE

Rest(s) == s \ {One(s)}

(* g gives for every part of S the sum of f on it.                          *)
Adds(g, f, S) == g = [s \in SUBSET S |-> IF s = {} THEN 0 ELSE f[One(s)] + g[Rest(s)]]

(* The definition of the library, in these terms.                           *)
LEMMA SumIs ==
  ASSUME NEW f, NEW S
  PROVE  SumFunctionOnSet(f, S) = (CHOOSE g : Adds(g, f, S))[S]
BY DEF SumFunctionOnSet, FoldFunctionOnSet, MapThenFoldSet, Adds, One, Rest

(* What is left is a smaller set.                                           *)
LEMMA RestIsLess ==
  ASSUME NEW s, s # {}
  PROVE  One(s) \in s /\ Rest(s) \subseteq s /\ Rest(s) # s
BY DEF One, Rest

(* Sums on a set and on a larger one agree where both are defined.          *)
LEMMA AddsAgree ==
  ASSUME NEW f, NEW S, IsFiniteSet(S), NEW T, S \subseteq T,
         NEW g, Adds(g, f, S), NEW h, Adds(h, f, T)
  PROVE  g[S] = h[S]
<1> DEFINE Bad == {s \in SUBSET S : g[s] # h[s]}
<1>1. \A s \in SUBSET S : g[s] = IF s = {} THEN 0 ELSE f[One(s)] + g[Rest(s)]
  BY DEF Adds
<1>2. \A s \in SUBSET S : h[s] = IF s = {} THEN 0 ELSE f[One(s)] + h[Rest(s)]
  BY DEF Adds
<1>3. ASSUME NEW s \in Bad PROVE \E u \in Bad : u \subseteq s /\ u # s
  <2>1. s # {} /\ Rest(s) \in SUBSET S
    BY <1>1, <1>2, <1>3, RestIsLess
  <2>2. g[Rest(s)] # h[Rest(s)]
    BY <1>1, <1>2, <2>1
  <2> QED
    BY <2>1, <2>2, RestIsLess
<1>4. Bad \subseteq SUBSET S
  OBVIOUS
<1>5. S \notin Bad
  <2> HIDE DEF Bad
  <2> QED
    BY <1>3, <1>4, LeastSubset
<1> QED
  BY <1>5

(* The recursion is well founded: there is such a function.                 *)
LEMMA AddsExist ==
  ASSUME NEW f, NEW S, IsFiniteSet(S)
  PROVE  \E g : Adds(g, f, S)
<1> DEFINE Bad == {T \in SUBSET S : \A g : ~Adds(g, f, T)}
<1>1. ASSUME NEW T \in SUBSET S, \A U \in SUBSET T : U # T => \E g : Adds(g, f, U)
      PROVE  \E g : Adds(g, f, T)
  <2>0. \A U \in SUBSET T : IsFiniteSet(U)
    BY FS_Subset
  <2> DEFINE g == [s \in SUBSET T |->
                     IF s = {} THEN 0 ELSE f[One(s)] + SumFunctionOnSet(f, Rest(s))]
  <2>1. ASSUME NEW U \in SUBSET T, U # T PROVE Adds(CHOOSE h : Adds(h, f, U), f, U)
    BY <1>1, <2>1
  <2>2. ASSUME NEW U \in SUBSET T, U # T PROVE g[U] = SumFunctionOnSet(f, U)
    <3> DEFINE h == CHOOSE k : Adds(k, f, U)
    <3>1. Adds(h, f, U) /\ SumFunctionOnSet(f, U) = h[U]
      BY <2>1, <2>2, SumIs
    <3>2. h[U] = IF U = {} THEN 0 ELSE f[One(U)] + h[Rest(U)]
      BY <3>1 DEF Adds
    <3>3. ASSUME U # {} PROVE h[Rest(U)] = SumFunctionOnSet(f, Rest(U))
      <4>1. Rest(U) \subseteq U /\ Rest(U) # T
        BY <3>3, RestIsLess
      <4> DEFINE k == CHOOSE m : Adds(m, f, Rest(U))
      <4>2. Adds(k, f, Rest(U)) /\ SumFunctionOnSet(f, Rest(U)) = k[Rest(U)]
        BY <2>1, <4>1, SumIs
      <4>3. IsFiniteSet(Rest(U))
        BY <2>0, <4>1
      <4> HIDE DEF k, h
      <4> QED
        BY <3>1, <4>1, <4>2, <4>3, AddsAgree
    <3> QED
      BY <3>1, <3>2, <3>3
  <2>3. ASSUME NEW s \in SUBSET T, s # {} PROVE g[Rest(s)] = SumFunctionOnSet(f, Rest(s))
    <3>1. Rest(s) \in SUBSET T /\ Rest(s) # T
      BY <2>3, RestIsLess
    <3> HIDE DEF g
    <3> QED
      BY <2>2, <3>1
  <2>4. g = [s \in SUBSET T |-> IF s = {} THEN 0 ELSE f[One(s)] + g[Rest(s)]]
    BY <2>3
  <2> QED
    BY <2>4 DEF Adds
<1>2. ASSUME NEW T \in Bad PROVE \E U \in Bad : U \subseteq T /\ U # T
  <2>1. T \in SUBSET S /\ ~\E g : Adds(g, f, T)
    BY <1>2
  <2>2. PICK U \in SUBSET T : U # T /\ ~\E g : Adds(g, f, U)
    BY <1>1, <2>1
  <2>3. U \in Bad
    BY <2>1, <2>2
  <2> QED
    BY <2>2, <2>3
<1>3. Bad \subseteq SUBSET S
  OBVIOUS
<1>4. S \notin Bad
  <2> HIDE DEF Bad
  <2> QED
    BY <1>2, <1>3, LeastSubset
<1> QED
  BY <1>4

-----------------------------------------------------------------------------
(***************************************************************************)
(* What a sum is, without the order in which it is taken.                  *)
(***************************************************************************)

(* Nothing adds up to zero.                                                 *)
LEMMA SumEmpty ==
  ASSUME NEW f
  PROVE  SumFunctionOnSet(f, {}) = 0
<1>1. Adds(CHOOSE g : Adds(g, f, {}), f, {})
  BY AddsExist, FS_EmptySet
<1> QED
  BY <1>1, SumIs DEF Adds

(* The element that is chosen is added to the sum of the rest.              *)
LEMMA SumChosen ==
  ASSUME NEW f, NEW S, IsFiniteSet(S), S # {}
  PROVE  SumFunctionOnSet(f, S) = f[One(S)] + SumFunctionOnSet(f, Rest(S))
<1> DEFINE g == CHOOSE k : Adds(k, f, S)
           h == CHOOSE k : Adds(k, f, Rest(S))
<1>1. IsFiniteSet(Rest(S)) /\ Rest(S) \subseteq S
  BY RestIsLess, FS_Subset
<1>2. Adds(g, f, S) /\ SumFunctionOnSet(f, S) = g[S]
  BY AddsExist, SumIs
<1>3. Adds(h, f, Rest(S)) /\ SumFunctionOnSet(f, Rest(S)) = h[Rest(S)]
  BY <1>1, AddsExist, SumIs
<1> HIDE DEF g, h
<1>4. h[Rest(S)] = g[Rest(S)]
  BY <1>1, <1>2, <1>3, AddsAgree
<1>5. g[S] = f[One(S)] + g[Rest(S)]
  BY <1>2 DEF Adds
<1> QED
  BY <1>2, <1>3, <1>4, <1>5

(* Integers add up to an integer.                                           *)
LEMMA SumInt ==
  ASSUME NEW f, NEW S, IsFiniteSet(S), \A x \in S : f[x] \in Int
  PROVE  SumFunctionOnSet(f, S) \in Int
<1> DEFINE Bad == {s \in SUBSET S : SumFunctionOnSet(f, s) \notin Int}
<1>1. ASSUME NEW s \in Bad PROVE \E u \in Bad : u \subseteq s /\ u # s
  <2>1. s \in SUBSET S /\ SumFunctionOnSet(f, s) \notin Int
    BY <1>1
  <2>2. s # {}
    BY <2>1, SumEmpty
  <2>3. /\ One(s) \in s /\ Rest(s) \subseteq s /\ Rest(s) # s
        /\ SumFunctionOnSet(f, s) = f[One(s)] + SumFunctionOnSet(f, Rest(s))
    BY <2>1, <2>2, RestIsLess, SumChosen, FS_Subset
  <2>4. SumFunctionOnSet(f, Rest(s)) \notin Int
    BY <2>1, <2>3
  <2> QED
    BY <2>1, <2>3, <2>4
<1>2. Bad \subseteq SUBSET S
  OBVIOUS
<1>3. S \notin Bad
  <2> HIDE DEF Bad
  <2> QED
    BY <1>1, <1>2, LeastSubset
<1> QED
  BY <1>3

(* Any element, and not just the chosen one, may be taken first.            *)
LEMMA SumRemove ==
  ASSUME NEW f, NEW S, IsFiniteSet(S), \A x \in S : f[x] \in Int, NEW y \in S
  PROVE  SumFunctionOnSet(f, S) = f[y] + SumFunctionOnSet(f, S \ {y})
<1> DEFINE Split(s) == \A x \in s : SumFunctionOnSet(f, s) = f[x] + SumFunctionOnSet(f, s \ {x})
           Bad == {s \in SUBSET S : ~Split(s)}
<1>0. \A s \in SUBSET S : IsFiniteSet(s) /\ SumFunctionOnSet(f, s) \in Int
  BY FS_Subset, SumInt
<1>1. ASSUME NEW s \in Bad PROVE \E u \in Bad : u \subseteq s /\ u # s
  <2> SUFFICES ASSUME \A u \in SUBSET s : u # s => Split(u)
               PROVE  Split(s)
    BY <1>1
  <2> SUFFICES ASSUME NEW x \in s
               PROVE  SumFunctionOnSet(f, s) = f[x] + SumFunctionOnSet(f, s \ {x})
    OBVIOUS
  <2>1. s \in SUBSET S /\ s # {}
    BY <1>1
  <2> DEFINE z == One(s)
  <2>2. z \in s /\ Rest(s) = s \ {z} /\ SumFunctionOnSet(f, s) = f[z] + SumFunctionOnSet(f, s \ {z})
    BY <1>0, <2>1, RestIsLess, SumChosen DEF Rest
  <2> HIDE DEF z
  <2>3. CASE x = z
    BY <2>2, <2>3
  <2>4. CASE x # z
    <3> DEFINE t == s \ {x, z}
    <3>1. (s \ {x}) \ {z} = t /\ (s \ {z}) \ {x} = t
      OBVIOUS
    <3>2. Split(s \ {x}) /\ Split(s \ {z})
      BY <2>2
    <3>3. /\ SumFunctionOnSet(f, s \ {x}) = f[z] + SumFunctionOnSet(f, t)
          /\ SumFunctionOnSet(f, s \ {z}) = f[x] + SumFunctionOnSet(f, t)
      BY <2>2, <2>4, <3>1, <3>2
    <3>4. f[x] \in Int /\ f[z] \in Int /\ SumFunctionOnSet(f, t) \in Int
      BY <1>0, <2>1, <2>2
    <3> HIDE DEF t
    <3> QED
      BY <2>2, <3>3, <3>4
  <2> QED
    BY <2>3, <2>4
<1>2. Bad \subseteq SUBSET S
  OBVIOUS
<1>3. S \notin Bad
  <2> HIDE DEF Bad
  <2> QED
    BY <1>1, <1>2, LeastSubset
<1> QED
  BY <1>3

(* A sum depends on the values on its set alone.                            *)
LEMMA SumSame ==
  ASSUME NEW S, IsFiniteSet(S), NEW f, NEW g, \A x \in S : f[x] = g[x]
  PROVE  SumFunctionOnSet(f, S) = SumFunctionOnSet(g, S)
<1> DEFINE Bad == {s \in SUBSET S : SumFunctionOnSet(f, s) # SumFunctionOnSet(g, s)}
<1>1. ASSUME NEW s \in Bad PROVE \E u \in Bad : u \subseteq s /\ u # s
  <2>1. s \in SUBSET S /\ SumFunctionOnSet(f, s) # SumFunctionOnSet(g, s)
    BY <1>1
  <2>2. s # {}
    BY <2>1, SumEmpty
  <2>3. /\ One(s) \in s /\ Rest(s) \subseteq s /\ Rest(s) # s
        /\ SumFunctionOnSet(f, s) = f[One(s)] + SumFunctionOnSet(f, Rest(s))
        /\ SumFunctionOnSet(g, s) = g[One(s)] + SumFunctionOnSet(g, Rest(s))
    BY <2>1, <2>2, RestIsLess, SumChosen, FS_Subset
  <2>4. SumFunctionOnSet(f, Rest(s)) # SumFunctionOnSet(g, Rest(s))
    BY <2>1, <2>3
  <2> QED
    BY <2>1, <2>3, <2>4
<1>2. Bad \subseteq SUBSET S
  OBVIOUS
<1>3. S \notin Bad
  <2> HIDE DEF Bad
  <2> QED
    BY <1>1, <1>2, LeastSubset
<1> QED
  BY <1>3

(* A sum of zeros.                                                          *)
LEMMA SumZero ==
  ASSUME NEW f, NEW S, IsFiniteSet(S), \A x \in S : f[x] = 0
  PROVE  SumFunctionOnSet(f, S) = 0
<1> DEFINE Bad == {s \in SUBSET S : SumFunctionOnSet(f, s) # 0}
<1>1. ASSUME NEW s \in Bad PROVE \E u \in Bad : u \subseteq s /\ u # s
  <2>1. s \in SUBSET S /\ SumFunctionOnSet(f, s) # 0
    BY <1>1
  <2>2. s # {}
    BY <2>1, SumEmpty
  <2>3. /\ One(s) \in s /\ Rest(s) \subseteq s /\ Rest(s) # s
        /\ SumFunctionOnSet(f, s) = f[One(s)] + SumFunctionOnSet(f, Rest(s))
    BY <2>1, <2>2, RestIsLess, SumChosen, FS_Subset
  <2>4. SumFunctionOnSet(f, Rest(s)) # 0
    BY <2>1, <2>3
  <2>5. Rest(s) \in Bad
    BY <2>1, <2>3, <2>4
  <2> QED
    BY <2>3, <2>5
<1>2. Bad \subseteq SUBSET S
  OBVIOUS
<1>3. S \in Bad <=> SumFunctionOnSet(f, S) # 0
  OBVIOUS
<1> HIDE DEF Bad
<1> QED
  BY <1>1, <1>2, <1>3, LeastSubset

(* Adding d to one value adds d to the sum.                                 *)
LEMMA SumUpdate ==
  ASSUME NEW S, IsFiniteSet(S), NEW f \in [S -> Int], NEW g \in [S -> Int],
         NEW y \in S, NEW d \in Int, g[y] = f[y] + d, \A x \in S \ {y} : g[x] = f[x]
  PROVE  SumFunction(g) = SumFunction(f) + d
<1>1. IsFiniteSet(S \ {y})
  BY FS_Subset
<1>2. SumFunctionOnSet(g, S \ {y}) = SumFunctionOnSet(f, S \ {y})
  BY <1>1, SumSame
<1>3. SumFunctionOnSet(f, S \ {y}) \in Int
  BY <1>1, SumInt
<1>4. SumFunctionOnSet(g, S) = g[y] + SumFunctionOnSet(g, S \ {y})
  BY SumRemove
<1>5. SumFunctionOnSet(f, S) = f[y] + SumFunctionOnSet(f, S \ {y})
  BY SumRemove
<1> QED
  BY <1>2, <1>3, <1>4, <1>5 DEF SumFunction

(* An element more.                                                         *)
LEMMA SumOneMore ==
  ASSUME NEW f, NEW S, IsFiniteSet(S), \A x \in S : f[x] \in Int, NEW y, y \notin S, f[y] \in Int
  PROVE  /\ IsFiniteSet(S \cup {y})
         /\ Cardinality(S \cup {y}) = Cardinality(S) + 1
         /\ SumFunctionOnSet(f, S \cup {y}) = SumFunctionOnSet(f, S) + f[y]
<1>1. IsFiniteSet(S \cup {y}) /\ Cardinality(S \cup {y}) = Cardinality(S) + 1
  BY FS_AddElement
<1>2. (S \cup {y}) \ {y} = S
  OBVIOUS
<1>3. y \in S \cup {y} /\ \A x \in S \cup {y} : f[x] \in Int
  OBVIOUS
<1>4. SumFunctionOnSet(f, S \cup {y}) = f[y] + SumFunctionOnSet(f, (S \cup {y}) \ {y})
  BY <1>1, <1>3, SumRemove
<1>5. SumFunctionOnSet(f, S) \in Int
  BY SumInt
<1>6. SumFunctionOnSet(f, S \cup {y}) = f[y] + SumFunctionOnSet(f, S)
  BY <1>2, <1>4
<1>7. PICK a \in Int, b \in Int : a = f[y] /\ b = SumFunctionOnSet(f, S)
  BY <1>5
<1>8. a + b = b + a
  BY <1>7
<1> QED
  BY <1>1, <1>6, <1>7, <1>8, Zenon

(* The size of two sets that share nothing.                                 *)
LEMMA ApartAddUp ==
  ASSUME NEW A, NEW B, IsFiniteSet(A), IsFiniteSet(B), A \cap B = {}
  PROVE  Cardinality(A \cup B) = Cardinality(A) + Cardinality(B)
<1>1. Cardinality(A \cap B) = 0
  BY FS_EmptySet
<1>2. Cardinality(A \cup B) = Cardinality(A) + Cardinality(B) - Cardinality(A \cap B)
  BY FS_Union
<1>3. Cardinality(A) \in Nat /\ Cardinality(B) \in Nat
  BY FS_CardinalityType
<1> QED
  BY <1>1, <1>2, <1>3

(* The sum over two sets that share nothing.                                *)
LEMMA SumApart ==
  ASSUME NEW f, NEW A, IsFiniteSet(A), NEW B, IsFiniteSet(B), A \cap B = {},
         \A x \in A \cup B : f[x] \in Int
  PROVE  SumFunctionOnSet(f, A \cup B) = SumFunctionOnSet(f, A) + SumFunctionOnSet(f, B)
<1> DEFINE Bad == {s \in SUBSET B : SumFunctionOnSet(f, A \cup s) #
                                      SumFunctionOnSet(f, A) + SumFunctionOnSet(f, s)}
<1>1. ASSUME NEW s \in Bad PROVE \E u \in Bad : u \subseteq s /\ u # s
  <2>1. s \in SUBSET B /\ SumFunctionOnSet(f, A \cup s) #
                            SumFunctionOnSet(f, A) + SumFunctionOnSet(f, s)
    BY <1>1
  <2>2. SumFunctionOnSet(f, A) \in Int
    BY SumInt
  <2>3. s # {}
    <3>1. ASSUME s = {} PROVE FALSE
      <4>1. A \cup s = A
        BY <3>1
      <4>2. SumFunctionOnSet(f, s) = 0
        BY <3>1, SumEmpty
      <4>3. SumFunctionOnSet(f, A) + 0 = SumFunctionOnSet(f, A)
        BY <2>2
      <4> QED
        BY <2>1, <4>1, <4>2, <4>3, Zenon
    <3> QED
      BY <3>1
  <2>4. PICK y, u : y = One(s) /\ u = Rest(s)
    OBVIOUS
  <2>5. y \in s /\ u \subseteq s /\ u # s /\ y \notin u /\ s = u \cup {y}
    BY <2>3, <2>4, RestIsLess DEF Rest
  <2>6. IsFiniteSet(u) /\ IsFiniteSet(A \cup u)
    BY <2>1, <2>5, FS_Subset, FS_Union
  <2>7. y \notin A \cup u /\ f[y] \in Int /\ \A x \in A \cup u : f[x] \in Int
    BY <2>1, <2>5
  <2>8. SumFunctionOnSet(f, (A \cup u) \cup {y}) = SumFunctionOnSet(f, A \cup u) + f[y]
    BY <2>6, <2>7, SumOneMore
  <2>9. SumFunctionOnSet(f, u \cup {y}) = SumFunctionOnSet(f, u) + f[y]
    BY <2>6, <2>7, SumOneMore
  <2>10. SumFunctionOnSet(f, u) \in Int /\ SumFunctionOnSet(f, A \cup u) \in Int
    BY <2>6, <2>7, SumInt
  <2>11. (A \cup u) \cup {y} = A \cup s
    BY <2>5
  <2>12. SumFunctionOnSet(f, A \cup u) # SumFunctionOnSet(f, A) + SumFunctionOnSet(f, u)
    <3>1. PICK a \in Int, b \in Int, c \in Int, d \in Int :
            /\ a = SumFunctionOnSet(f, A) /\ b = SumFunctionOnSet(f, u)
            /\ c = SumFunctionOnSet(f, A \cup u) /\ d = f[y]
      BY <2>2, <2>7, <2>10
    <3>2. SumFunctionOnSet(f, A \cup s) = c + d /\ SumFunctionOnSet(f, s) = b + d
      BY <2>5, <2>8, <2>9, <2>11, <3>1, Zenon
    <3>3. c + d # a + (b + d)
      BY <2>1, <3>1, <3>2, Zenon
    <3>4. c # a + b
      BY <3>3
    <3> QED
      BY <3>1, <3>4, Zenon
  <2> QED
    BY <2>1, <2>5, <2>12
<1>2. Bad \subseteq SUBSET B
  OBVIOUS
<1>3. B \in Bad <=> SumFunctionOnSet(f, A \cup B) #
                      SumFunctionOnSet(f, A) + SumFunctionOnSet(f, B)
  OBVIOUS
<1> HIDE DEF Bad
<1> QED
  BY <1>1, <1>2, <1>3, LeastSubset

(* Counting by value: the sizes of the classes add up to the whole.         *)
LEMMA SumOfCounts ==
  ASSUME NEW S, IsFiniteSet(S), NEW f,
         NEW count, count = [v \in {f[k] : k \in S} |-> Cardinality({k \in S : f[k] = v})]
  PROVE  SumFunction(count) = Cardinality(S)
<1> DEFINE V == {f[k] : k \in S}
           Of(s) == {k \in S : f[k] \in s}
           Bad == {s \in SUBSET V : SumFunctionOnSet(count, s) # Cardinality(Of(s))}
<1>1. IsFiniteSet(V)
  <2> DEFINE g == [k \in S |-> f[k]]
  <2>1. g \in Surjection(S, V)
    BY DEF Surjection
  <2> HIDE DEF g, V
  <2> QED
    BY <2>1, FS_Surjection
<1>2. ASSUME NEW s \in SUBSET V
      PROVE  IsFiniteSet(s) /\ IsFiniteSet(Of(s)) /\ Cardinality(Of(s)) \in Nat
  BY <1>1, FS_Subset, FS_CardinalityType
<1>3. ASSUME NEW s \in Bad PROVE \E u \in Bad : u \subseteq s /\ u # s
  <2>1. s \in SUBSET V /\ SumFunctionOnSet(count, s) # Cardinality(Of(s))
    BY <1>3
  <2>2. s # {}
    <3>1. Of({}) = {} /\ Cardinality({}) = 0
      BY FS_EmptySet
    <3> QED
      BY <2>1, <3>1, SumEmpty
  <2>3. One(s) \in s /\ Rest(s) \subseteq s /\ Rest(s) # s /\ Rest(s) = s \ {One(s)}
    BY <2>2, RestIsLess DEF Rest
  <2>4. SumFunctionOnSet(count, s) = count[One(s)] + SumFunctionOnSet(count, Rest(s))
    BY <1>2, <2>1, <2>2, SumChosen
  <2> DEFINE A == {k \in S : f[k] = One(s)}
             B == Of(Rest(s))
  <2>5. count[One(s)] = Cardinality(A)
    BY <2>1, <2>3
  <2>6. Of(s) = A \cup B /\ A \cap B = {}
    BY <2>3
  <2>7. IsFiniteSet(A) /\ IsFiniteSet(B) /\ Cardinality(A) \in Nat /\ Cardinality(B) \in Nat
    BY <1>2, <2>1, <2>3, FS_Subset, FS_CardinalityType
  <2> HIDE DEF A, B, Of
  <2>8. Cardinality(A \cup B) = Cardinality(A) + Cardinality(B)
    BY <2>6, <2>7, ApartAddUp
  <2>9. SumFunctionOnSet(count, Rest(s)) # Cardinality(B)
    BY <2>1, <2>4, <2>5, <2>6, <2>7, <2>8
  <2> QED
    BY <2>1, <2>3, <2>9 DEF B
<1>4. Bad \subseteq SUBSET V
  OBVIOUS
<1>5. SumFunctionOnSet(count, V) = Cardinality(Of(V))
  <2>1. V \notin Bad
    <3> HIDE DEF Bad, V
    <3> QED
      BY <1>1, <1>3, <1>4, LeastSubset
  <2> QED
    BY <2>1
<1>6. Of(V) = S /\ DOMAIN count = V
  OBVIOUS
<1> QED
  BY <1>5, <1>6 DEF SumFunction
=============================================================================
