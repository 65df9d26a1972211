---------------------------- MODULE ReportProofs ----------------------------
(***************************************************************************)
(* What the dashboards may rely on for any number of rows and fees, any     *)
(* configuration, any instants and any requests: the type invariant, the    *)
(* calendar wherever the clock begins, the breakdown against the counts,    *)
(* the nesting of the totals, the export, and the days that are over.       *)
(***************************************************************************)
EXTENDS TransactionLog, CalendarProofs, FiniteSetTheorems, SequenceTheorems,
        WellFoundedInduction, TLAPS

-----------------------------------------------------------------------------
(* Sums over finite sets.  A property of every finite set is shown of a     *)
(* family of sets with the empty one and, with a set, every one larger.     *)

(* A set of natural numbers has a least one.                                *)
LEMMA LeastNat ==
  ASSUME NEW T, T \subseteq Nat, T # {}
  PROVE  \E x \in T : \A y \in T : x <= y
<1> DEFINE R == StrictSubsetOrdering(Nat)
           intervals == {0 .. x : x \in T}
<1>1. \A x \in T : IsFiniteSet(0 .. x) /\ 0 .. x \in SUBSET Nat
  BY FS_Interval
<1>2. intervals \subseteq FiniteSubsetsOf(Nat) /\ intervals # {}
  BY <1>1 DEF FiniteSubsetsOf
<1>3. IsWellFoundedOn(R, FiniteSubsetsOf(Nat))
  BY FS_StrictSubsetOrderingWellFounded
<1> HIDE DEF R, intervals
<1>4. \E I \in intervals : \A J \in intervals : ~(<<J, I>> \in R)
  BY <1>2, <1>3, WFMin
<1> USE DEF intervals
<1>5. PICK x \in T : \A y \in T : ~(<<0 .. y, 0 .. x>> \in R)
  BY <1>4
<1>6. ASSUME NEW y \in T, ~(x <= y) PROVE FALSE
  <2>1. x \in Nat /\ y \in Nat /\ y < x
    BY <1>6
  <2>2. 0 .. y \subseteq 0 .. x
    BY <2>1
  <2>3. x \in 0 .. x /\ x \notin 0 .. y
    BY <2>1
  <2>4. <<0 .. y, 0 .. x>> \in R
    BY <1>1, <2>2, <2>3 DEF R, StrictSubsetOrdering
  <2> QED BY <1>5, <2>4
<1> QED BY <1>6

(* What holds of 0 and of the successor of what it holds of holds of every  *)
(* natural number.                                                          *)
LEMMA Counting ==
  ASSUME NEW I, I \subseteq Nat, 0 \in I, \A n \in I : n + 1 \in I
  PROVE  I = Nat
<1>1. SUFFICES ASSUME Nat \ I # {} PROVE FALSE
  OBVIOUS
<1>2. PICK n \in Nat \ I : \A m \in Nat \ I : n <= m
  BY <1>1, LeastNat
<1>3. n - 1 \in Nat /\ n - 1 \in I
  BY <1>2
<1> QED BY <1>2, <1>3

(* A family with the empty set and, with a set, every larger one by one     *)
(* element, has the whole finite set.                                       *)
LEMMA OneByOne ==
  ASSUME NEW S, IsFiniteSet(S), NEW F, F \subseteq SUBSET S, {} \in F,
         \A T \in F : \A x \in S \ T : T \cup {x} \in F
  PROVE  S \in F
<1> DEFINE missing == {Cardinality(S \ T) : T \in F}
<1>1. \A T \in F : IsFiniteSet(S \ T) /\ Cardinality(S \ T) \in Nat
  BY FS_Difference, FS_CardinalityType
<1>2. PICK n \in missing : \A m \in missing : n <= m
  <2>1. missing \subseteq Nat /\ missing # {}
    BY <1>1
  <2> QED BY <2>1, LeastNat
<1>3. PICK T \in F : n = Cardinality(S \ T)
  BY <1>2
<1>4. S \ T = {}
  <2>1. SUFFICES ASSUME NEW x \in S \ T PROVE FALSE
    OBVIOUS
  <2>2. T \cup {x} \in F
    OBVIOUS
  <2>3. S \ (T \cup {x}) = (S \ T) \ {x}
    OBVIOUS
  <2> DEFINE left == S \ T
  <2>4. IsFiniteSet(left) /\ Cardinality(left) \in Nat /\ x \in left
    BY <1>1, <1>3
  <2>5. Cardinality(left \ {x}) = Cardinality(left) - 1
    <3> HIDE DEF left
    <3> QED BY <2>4, FS_RemoveElement
  <2>6. n <= Cardinality(left \ {x}) /\ n = Cardinality(left)
    <3>1. Cardinality(S \ (T \cup {x})) \in missing
      BY <2>2
    <3> QED BY <1>2, <1>3, <2>3, <3>1
  <2> HIDE DEF left
  <2> QED BY <2>4, <2>5, <2>6
<1> QED BY <1>4

-----------------------------------------------------------------------------
(* The next addend of a sum over s, and what makes g the sums of f over the *)
(* subsets of S.                                                            *)
NextAddend(s) == CHOOSE x \in s : TRUE
AddUp(g, f, s) == IF s = {} THEN 0 ELSE f[NextAddend(s)] + g[s \ {NextAddend(s)}]
AreSums(g, f, S) == g = [s \in SUBSET S |-> AddUp(g, f, s)]

(* The next addend is one of the set.                                       *)
LEMMA NextAddendIn == ASSUME NEW s, s # {} PROVE NextAddend(s) \in s
BY DEF NextAddend

(* A finite set has sums: those of up to n elements give those of n + 1.    *)
LEMMA SumsExist ==
  ASSUME NEW S, IsFiniteSet(S), NEW f
  PROVE  \E g : AreSums(g, f, S)
<1> DEFINE upto(g, n) == \A s \in SUBSET S : Cardinality(s) <= n => g[s] = AddUp(g, f, s)
           I == {n \in Nat : \E g : upto(g, n)}
<1>0. \A s \in SUBSET S : IsFiniteSet(s) /\ Cardinality(s) \in Nat /\ Cardinality(s) <= Cardinality(S)
  BY FS_Subset, FS_CardinalityType
<1>1. 0 \in I
  <2> DEFINE g == [s \in SUBSET S |-> 0]
  <2>1. ASSUME NEW s \in SUBSET S, Cardinality(s) <= 0 PROVE g[s] = AddUp(g, f, s)
    <3>1. s = {}
      BY <1>0, <2>1, FS_EmptySet
    <3> QED BY <3>1 DEF AddUp
  <2> QED BY <2>1
<1>2. ASSUME NEW n \in I PROVE n + 1 \in I
  <2>1. PICK g : upto(g, n)
    BY <1>2
  <2> DEFINE h == [s \in SUBSET S |-> AddUp(g, f, s)]
  <2>2. ASSUME NEW s \in SUBSET S, Cardinality(s) <= n + 1 PROVE h[s] = AddUp(h, f, s)
    <3>1. CASE s = {}
      BY <3>1 DEF AddUp
    <3>2. CASE s # {}
      <4> DEFINE r == s \ {NextAddend(s)}
      <4>1. Cardinality(r) = Cardinality(s) - 1
        BY <1>0, <3>2, NextAddendIn, FS_RemoveElement
      <4>2. r \in SUBSET S /\ Cardinality(r) <= n
        BY <1>0, <1>2, <2>2, <4>1
      <4>3. h[r] = g[r]
        <5> HIDE DEF r
        <5> QED BY <2>1, <4>2
      <4> QED BY <3>2, <4>3 DEF AddUp
    <3> QED BY <3>1, <3>2
  <2>3. upto(h, n + 1)
    BY <2>2
  <2> HIDE DEF upto, h
  <2> QED BY <1>2, <2>3
<1>3. I = Nat
  <2> HIDE DEF upto
  <2> QED BY <1>1, <1>2, Counting
<1>4. PICK g : upto(g, Cardinality(S))
  BY <1>0, <1>3
<1> DEFINE h == [s \in SUBSET S |-> g[s]]
<1>5. ASSUME NEW s \in SUBSET S PROVE h[s] = AddUp(h, f, s)
  <2>1. g[s] = AddUp(g, f, s)
    BY <1>0, <1>4
  <2> QED BY <2>1 DEF AddUp
<1>6. AreSums(h, f, S)
  BY <1>5 DEF AreSums
<1> QED BY <1>6

(* Two tables of sums agree where both have one: a least set on which they  *)
(* differ has a smaller one.                                                *)
LEMMA SumsAgree ==
  ASSUME NEW S, IsFiniteSet(S), NEW T \in SUBSET S, NEW f,
         NEW g, NEW h, AreSums(g, f, S), AreSums(h, f, T)
  PROVE  \A s \in SUBSET T : g[s] = h[s]
<1> DEFINE apart == {s \in SUBSET T : g[s] # h[s]}
           sizes == {Cardinality(s) : s \in apart}
<1>1. SUFFICES ASSUME apart # {} PROVE FALSE
  OBVIOUS
<1>2. \A s \in SUBSET S : IsFiniteSet(s) /\ Cardinality(s) \in Nat
  BY FS_Subset, FS_CardinalityType
<1>3. PICK n \in sizes : \A m \in sizes : n <= m
  <2>1. sizes \subseteq Nat /\ sizes # {}
    BY <1>1, <1>2
  <2> QED BY <2>1, LeastNat
<1>4. PICK s \in apart : n = Cardinality(s)
  BY <1>3
<1>5. g[s] = AddUp(g, f, s) /\ h[s] = AddUp(h, f, s)
  BY DEF AreSums
<1>6. s # {}
  BY <1>5 DEF AddUp
<1>7. Cardinality(s \ {NextAddend(s)}) < n
  <2>1. Cardinality(s \ {NextAddend(s)}) = Cardinality(s) - 1
    BY <1>2, <1>6, NextAddendIn, FS_RemoveElement
  <2> QED BY <1>2, <1>4, <2>1
<1>8. g[s \ {NextAddend(s)}] = h[s \ {NextAddend(s)}]
  <2>1. s \ {NextAddend(s)} \in SUBSET T
    OBVIOUS
  <2>2. s \ {NextAddend(s)} \notin apart
    <3>1. SUFFICES ASSUME s \ {NextAddend(s)} \in apart PROVE FALSE
      OBVIOUS
    <3>2. Cardinality(s \ {NextAddend(s)}) \in sizes
      BY <3>1
    <3>3. n \in Nat /\ Cardinality(s \ {NextAddend(s)}) \in Nat
      BY <1>2, <1>4
    <3>4. n <= Cardinality(s \ {NextAddend(s)})
      BY <1>3, <3>2
    <3> HIDE DEF sizes, apart
    <3> QED BY <1>7, <3>3, <3>4
  <2> QED BY <2>1, <2>2
<1> QED BY <1>5, <1>6, <1>8 DEF AddUp

(* The library's sum is the next addend and the sum of the rest.            *)
LEMMA SumUnfolds ==
  ASSUME NEW T, IsFiniteSet(T), NEW f
  PROVE  SumFunctionOnSet(f, T) =
           IF T = {} THEN 0 ELSE f[NextAddend(T)] + SumFunctionOnSet(f, T \ {NextAddend(T)})
<1> DEFINE sums(S) == CHOOSE g : AreSums(g, f, S)
<1>1. \A S : SumFunctionOnSet(f, S) = sums(S)[S]
  BY DEF SumFunctionOnSet, FoldFunctionOnSet, MapThenFoldSet, AreSums, AddUp, NextAddend
<1>2. \A S : IsFiniteSet(S) => AreSums(sums(S), f, S)
  BY SumsExist
<1> HIDE DEF sums
<1>3. sums(T)[T] = AddUp(sums(T), f, T)
  BY <1>2 DEF AreSums
<1>4. CASE T = {}
  BY <1>1, <1>3, <1>4 DEF AddUp
<1>5. CASE T # {}
  <2> DEFINE r == T \ {NextAddend(T)}
  <2>1. r \in SUBSET T /\ IsFiniteSet(r)
    BY FS_Subset
  <2>2. sums(T)[r] = sums(r)[r]
    <3> HIDE DEF r
    <3> QED BY <1>2, <2>1, SumsAgree
  <2> QED BY <1>1, <1>3, <1>5, <2>2 DEF AddUp
<1> QED BY <1>4, <1>5

(* A sum of natural numbers is one, and any element may be taken out of it  *)
(* first.                                                                   *)
LEMMA SumAdd ==
  ASSUME NEW S, IsFiniteSet(S), NEW f, \A x \in S : f[x] \in Nat
  PROVE  /\ SumFunctionOnSet(f, S) \in Nat
         /\ \A x \in S : SumFunctionOnSet(f, S) = f[x] + SumFunctionOnSet(f, S \ {x})
<1> DEFINE sum(T) == SumFunctionOnSet(f, T)
           fine(T) == sum(T) \in Nat /\ \A x \in T : sum(T) = f[x] + sum(T \ {x})
           bad == {T \in SUBSET S : ~fine(T)}
           sizes == {Cardinality(T) : T \in bad}
<1>1. \A T \in SUBSET S : IsFiniteSet(T) /\ Cardinality(T) \in Nat
  BY FS_Subset, FS_CardinalityType
<1>2. ASSUME NEW T \in SUBSET S
      PROVE  sum(T) = IF T = {} THEN 0 ELSE f[NextAddend(T)] + sum(T \ {NextAddend(T)})
  BY <1>1, SumUnfolds
<1>3. SUFFICES ASSUME bad # {} PROVE FALSE
  OBVIOUS
<1>4. PICK n \in sizes : \A m \in sizes : n <= m
  <2>1. sizes \subseteq Nat /\ sizes # {}
    BY <1>1, <1>3
  <2> QED BY <2>1, LeastNat
<1>5. PICK T \in bad : n = Cardinality(T)
  BY <1>4
<1>6. T \in SUBSET S /\ IsFiniteSet(T) /\ Cardinality(T) \in Nat /\ ~fine(T)
  BY <1>1, <1>5
<1> HIDE DEF sum, bad, sizes
<1>7. ASSUME NEW R \in SUBSET S, Cardinality(R) < n PROVE fine(R)
  <2>1. SUFFICES ASSUME R \in bad PROVE FALSE
    BY DEF bad
  <2>2. n <= Cardinality(R)
    BY <1>4, <2>1 DEF sizes
  <2>3. n \in Nat /\ Cardinality(R) \in Nat
    BY <1>1, <1>5, <1>6
  <2> QED BY <1>7, <2>2, <2>3
<1>8. T # {}
  BY <1>2, <1>6
<1> DEFINE c == NextAddend(T)
<1>9. c \in T /\ sum(T) = f[c] + sum(T \ {c})
  BY <1>2, <1>6, <1>8, NextAddendIn
<1>10. ASSUME NEW x \in T PROVE T \ {x} \in SUBSET S /\ Cardinality(T \ {x}) < n
  <2>1. Cardinality(T \ {x}) = Cardinality(T) - 1
    BY <1>6, FS_RemoveElement
  <2> QED BY <1>5, <1>6, <2>1
<1>11. f[c] \in Nat /\ fine(T \ {c})
  BY <1>6, <1>7, <1>9, <1>10
<1> HIDE DEF c
<1>12. ASSUME NEW x \in T PROVE sum(T) = f[x] + sum(T \ {x})
  <2>1. CASE x = c
    BY <1>9, <2>1
  <2>2. CASE x # c
    <3>1. (T \ {c}) \ {x} = (T \ {x}) \ {c}
      OBVIOUS
    <3>2. sum(T \ {c}) = f[x] + sum((T \ {c}) \ {x})
      BY <1>11, <2>2
    <3>3. fine(T \ {x}) /\ c \in T \ {x}
      BY <1>7, <1>9, <1>10, <2>2
    <3>4. sum(T \ {x}) = f[c] + sum((T \ {x}) \ {c}) /\ sum(T \ {x}) \in Nat
      BY <3>3
    <3>5. sum((T \ {c}) \ {x}) \in Nat /\ f[x] \in Nat
      <4>1. fine((T \ {c}) \ {x})
        <5> DEFINE r == (T \ {c}) \ {x}
        <5>1. Cardinality(r) <= Cardinality(T \ {c}) /\ Cardinality(r) \in Nat
              /\ Cardinality(T \ {c}) \in Nat /\ r \in SUBSET S
          <6>1. IsFiniteSet(T \ {c}) /\ r \in SUBSET (T \ {c}) /\ r \in SUBSET S /\ T \ {c} \in SUBSET S
            BY <1>1, <1>6
          <6> HIDE DEF r
          <6> QED BY <1>1, <6>1, FS_Subset
        <5>2. Cardinality(T \ {c}) < n
          BY <1>9, <1>10
        <5> HIDE DEF r, fine
        <5>3. Cardinality(r) < n
          BY <1>5, <1>6, <5>1, <5>2
        <5>4. fine(r)
          BY <1>7, <5>1, <5>3
        <5> QED BY <5>4 DEF r
      <4> QED BY <1>6, <4>1
    <3> DEFINE rest == sum((T \ {x}) \ {c})
    <3>6. /\ rest \in Nat /\ f[c] \in Nat /\ f[x] \in Nat
          /\ sum(T \ {c}) = f[x] + rest /\ sum(T \ {x}) = f[c] + rest
          /\ sum(T) = f[c] + sum(T \ {c})
      BY <1>9, <1>11, <3>1, <3>2, <3>4, <3>5
    <3> HIDE DEF rest, fine
    <3> QED BY <3>6
  <2> QED BY <2>1, <2>2
<1>13. sum(T) \in Nat
  BY <1>9, <1>11
<1> QED BY <1>6, <1>12, <1>13

(* The sum over no element.                                                 *)
LEMMA SumEmpty == ASSUME NEW f PROVE SumFunctionOnSet(f, {}) = 0
BY SumUnfolds, FS_EmptySet

(* A sum grows with its set and its addends.                                *)
LEMMA SumGrows ==
  ASSUME NEW S, IsFiniteSet(S), NEW T \in SUBSET S, NEW f, NEW g,
         \A x \in T : f[x] \in Nat /\ f[x] <= g[x],
         \A x \in S : g[x] \in Nat
  PROVE  SumFunctionOnSet(f, T) <= SumFunctionOnSet(g, S)
<1> DEFINE low(R) == SumFunctionOnSet(f, R \cap T)
           high(R) == SumFunctionOnSet(g, R)
           F == {R \in SUBSET S : low(R) <= high(R)}
<1>1. \A R \in SUBSET S : IsFiniteSet(R) /\ IsFiniteSet(R \cap T)
  BY FS_Subset, FS_Intersection
<1>2. {} \in F
  <2>1. {} \cap T = {} /\ {} \in SUBSET S
    OBVIOUS
  <2>2. SumFunctionOnSet(f, {}) = 0 /\ SumFunctionOnSet(g, {}) = 0
    BY SumEmpty
  <2> QED BY <2>1, <2>2
<1>3. ASSUME NEW R \in F, NEW x \in S \ R PROVE R \cup {x} \in F
  <2> DEFINE W == R \cup {x}
  <2>1. W \in SUBSET S /\ W \ {x} = R /\ x \in W
    OBVIOUS
  <2>2. high(W) = g[x] + high(R) /\ high(R) \in Nat /\ g[x] \in Nat
    <3>1. SumFunctionOnSet(g, W) = g[x] + SumFunctionOnSet(g, W \ {x})
      <4> HIDE DEF W
      <4> QED BY <1>1, <2>1, SumAdd
    <3>2. SumFunctionOnSet(g, R) \in Nat
      BY <1>1, SumAdd
    <3> QED BY <2>1, <3>1, <3>2
  <2>3. low(R) \in Nat
    BY <1>1, SumAdd
  <2>4. CASE x \in T
    <3>1. (W \cap T) \ {x} = R \cap T /\ x \in W \cap T
      BY <2>4
    <3>2. SumFunctionOnSet(f, W \cap T) = f[x] + SumFunctionOnSet(f, (W \cap T) \ {x})
      <4>1. IsFiniteSet(W \cap T) /\ \A y \in W \cap T : f[y] \in Nat
        BY <1>1, <2>1
      <4> DEFINE V == W \cap T
      <4> HIDE DEF V
      <4> QED BY <3>1, <4>1, SumAdd DEF V
    <3>3. low(W) = f[x] + low(R)
      BY <3>1, <3>2
    <3>4. f[x] \in Nat /\ f[x] <= g[x] /\ low(R) <= high(R)
      BY <1>3, <2>4
    <3>5. low(W) <= high(W)
      <4> HIDE DEF low, high, W
      <4> QED BY <2>2, <2>3, <3>3, <3>4
    <3> QED BY <2>1, <3>5
  <2>5. CASE x \notin T
    <3>1. W \cap T = R \cap T
      BY <2>5
    <3>2. low(W) = low(R) /\ low(R) <= high(R)
      BY <1>3, <3>1
    <3>3. low(W) <= high(W)
      <4> HIDE DEF low, high, W
      <4> QED BY <2>2, <2>3, <3>2
    <3> QED BY <2>1, <3>3
  <2> QED BY <2>4, <2>5
<1>4. S \in F
  <2> HIDE DEF F
  <2>1. F \subseteq SUBSET S
    BY DEF F
  <2> QED BY <1>2, <1>3, <2>1, OneByOne
<1>5. S \cap T = T
  OBVIOUS
<1> QED BY <1>4, <1>5

(* Addends that are zero change nothing.                                    *)
LEMMA SumSame ==
  ASSUME NEW S, IsFiniteSet(S), NEW T \in SUBSET S, NEW f, NEW g,
         \A x \in T : f[x] \in Nat /\ f[x] = g[x],
         \A x \in S \ T : g[x] = 0
  PROVE  SumFunctionOnSet(f, T) = SumFunctionOnSet(g, S)
<1> DEFINE low(R) == SumFunctionOnSet(f, R \cap T)
           high(R) == SumFunctionOnSet(g, R)
           F == {R \in SUBSET S : low(R) = high(R)}
<1>1. \A R \in SUBSET S : IsFiniteSet(R) /\ IsFiniteSet(R \cap T)
  BY FS_Subset, FS_Intersection
<1>a. \A x \in S : g[x] \in Nat
  OBVIOUS
<1>2. {} \in F
  <2>1. {} \cap T = {} /\ {} \in SUBSET S
    OBVIOUS
  <2>2. SumFunctionOnSet(f, {}) = 0 /\ SumFunctionOnSet(g, {}) = 0
    BY SumEmpty
  <2> QED BY <2>1, <2>2
<1>3. ASSUME NEW R \in F, NEW x \in S \ R PROVE R \cup {x} \in F
  <2> DEFINE W == R \cup {x}
  <2>1. W \in SUBSET S /\ W \ {x} = R /\ x \in W
    OBVIOUS
  <2>2. high(W) = g[x] + high(R) /\ high(R) \in Nat /\ g[x] \in Nat
    <3>1. SumFunctionOnSet(g, W) = g[x] + SumFunctionOnSet(g, W \ {x})
      <4> HIDE DEF W
      <4> QED BY <1>1, <1>a, <2>1, SumAdd
    <3>2. SumFunctionOnSet(g, R) \in Nat
      BY <1>1, <1>a, SumAdd
    <3> QED BY <1>a, <2>1, <3>1, <3>2
  <2>4. CASE x \in T
    <3>1. (W \cap T) \ {x} = R \cap T /\ x \in W \cap T
      BY <2>4
    <3>2. SumFunctionOnSet(f, W \cap T) = f[x] + SumFunctionOnSet(f, (W \cap T) \ {x})
      <4>1. IsFiniteSet(W \cap T) /\ \A y \in W \cap T : f[y] \in Nat
        BY <1>1, <2>1
      <4> DEFINE V == W \cap T
      <4> HIDE DEF V
      <4> QED BY <3>1, <4>1, SumAdd DEF V
    <3>3. low(W) = f[x] + low(R) /\ f[x] = g[x] /\ low(R) = high(R)
      BY <1>3, <2>4, <3>1, <3>2
    <3>4. low(W) = high(W)
      <4> HIDE DEF low, high, W
      <4> QED BY <2>2, <3>3
    <3> QED BY <2>1, <3>4
  <2>5. CASE x \notin T
    <3>1. W \cap T = R \cap T
      BY <2>5
    <3>2. low(W) = low(R) /\ low(R) = high(R) /\ g[x] = 0
      BY <1>3, <2>5, <3>1
    <3>3. low(W) = high(W)
      <4> HIDE DEF low, high, W
      <4> QED BY <2>2, <3>2
    <3> QED BY <2>1, <3>3
  <2> QED BY <2>4, <2>5
<1>4. S \in F
  <2> HIDE DEF F
  <2>1. F \subseteq SUBSET S
    BY DEF F
  <2> QED BY <1>2, <1>3, <2>1, OneByOne
<1>5. S \cap T = T
  OBVIOUS
<1> QED BY <1>4, <1>5

(* The members of a set, counted kind by kind.                              *)
LEMMA CountByKind ==
  ASSUME NEW S, IsFiniteSet(S), NEW K, IsFiniteSet(K), NEW kind \in [S -> K]
  PROVE  SumFunctionOnSet([k \in K |-> Cardinality({x \in S : kind[x] = k})], K)
           = Cardinality(S)
<1> DEFINE of(R, k) == {x \in R : kind[x] = k}
           count(R) == [k \in K |-> Cardinality(of(R, k))]
           F == {R \in SUBSET S : SumFunctionOnSet(count(R), K) = Cardinality(R)}
<1>1. \A R \in SUBSET S : \A k \in K :
        IsFiniteSet(R) /\ IsFiniteSet(of(R, k)) /\ count(R)[k] \in Nat /\ Cardinality(R) \in Nat
  <2>1. \A R \in SUBSET S : \A k \in K : IsFiniteSet(R) /\ IsFiniteSet(of(R, k))
    BY FS_Subset
  <2> QED BY <2>1, FS_CardinalityType
<1>2. {} \in F
  <2>1. \A k \in K : count({})[k] = 0
    <3>1. \A k \in K : of({}, k) = {}
      OBVIOUS
    <3> QED BY <3>1, FS_EmptySet
  <2> DEFINE none == count({})
  <2>2. SumFunctionOnSet(none, {}) = SumFunctionOnSet(none, K)
    <3> HIDE DEF none
    <3> QED BY <2>1, SumSame DEF none
  <2> QED BY <2>2, SumEmpty, FS_EmptySet
<1>3. ASSUME NEW R \in F, NEW x \in S \ R PROVE R \cup {x} \in F
  <2> DEFINE W == R \cup {x}
             j == kind[x]
             old == count(R)
             new == count(W)
  <2>1. W \in SUBSET S /\ R \in SUBSET S /\ j \in K
    OBVIOUS
  <2>2. Cardinality(W) = Cardinality(R) + 1 /\ Cardinality(R) \in Nat
    BY <1>1, <2>1, FS_AddElement
  <2>3. new[j] = old[j] + 1
    <3>1. of(W, j) = of(R, j) \cup {x} /\ x \notin of(R, j)
      OBVIOUS
    <3>2. Cardinality(of(R, j) \cup {x}) = Cardinality(of(R, j)) + 1
      <4> DEFINE o == of(R, j)
      <4>1. IsFiniteSet(o) /\ x \notin o
        BY <1>1, <2>1
      <4> HIDE DEF o
      <4>2. Cardinality(o \cup {x}) = Cardinality(o) + 1
        BY <4>1, FS_AddElement
      <4> QED BY <4>2 DEF o
    <3> QED BY <2>1, <3>1, <3>2
  <2>4. ASSUME NEW k \in K \ {j} PROVE new[k] = old[k]
    <3>1. of(W, k) = of(R, k)
      OBVIOUS
    <3> QED BY <3>1
  <2>5. \A k \in K : new[k] \in Nat /\ old[k] \in Nat
    BY <1>1, <2>1
  <2> HIDE DEF old, new, j
  <2>6. SumFunctionOnSet(new, K) = new[j] + SumFunctionOnSet(new, K \ {j})
    BY <2>1, <2>5, SumAdd
  <2>7. SumFunctionOnSet(old, K) = old[j] + SumFunctionOnSet(old, K \ {j})
    BY <2>1, <2>5, SumAdd
  <2>8. /\ SumFunctionOnSet(new, K \ {j}) = SumFunctionOnSet(old, K \ {j})
        /\ SumFunctionOnSet(old, K \ {j}) \in Nat
    <3> DEFINE J == K \ {j}
    <3>1. IsFiniteSet(J) /\ \A k \in J : new[k] \in Nat /\ new[k] = old[k] /\ old[k] \in Nat
      BY <2>4, <2>5, FS_RemoveElement
    <3> HIDE DEF J
    <3>2. SumFunctionOnSet(new, J) = SumFunctionOnSet(old, J)
      BY <3>1, SumSame
    <3>3. SumFunctionOnSet(old, J) \in Nat
      BY <3>1, SumAdd
    <3> QED BY <3>2, <3>3 DEF J
  <2>9. SumFunctionOnSet(old, K) = Cardinality(R)
    BY <1>3 DEF old
  <2>10. SumFunctionOnSet(new, K) = Cardinality(W)
    <3> HIDE DEF W
    <3> QED BY <2>1, <2>2, <2>3, <2>5, <2>6, <2>7, <2>8, <2>9
  <2> QED BY <2>1, <2>10 DEF new
<1>4. S \in F
  <2> HIDE DEF F
  <2>1. F \subseteq SUBSET S
    BY DEF F
  <2> QED BY <1>2, <1>3, <2>1, OneByOne
<1> QED BY <1>4

-----------------------------------------------------------------------------
(* Rows in order.                                                           *)

(* A finite set that is ordered has its members listed in that order.       *)
LEMMA OrderListed ==
  ASSUME NEW S, IsFiniteSet(S), NEW R,
         \A a \in S : <<a, a>> \notin R,
         \A a, b \in S : a # b => <<a, b>> \in R \/ <<b, a>> \in R,
         \A a, b, c \in S : <<a, b>> \in R /\ <<b, c>> \in R => <<a, c>> \in R
  PROVE  \E rows \in SetToSeqs(S) :
           \A i, j \in DOMAIN rows : i < j => <<rows[i], rows[j]>> \in R
<1> DEFINE n == Cardinality(S)
           under(a) == {b \in S : <<b, a>> \in R}
           rank == [a \in S |-> Cardinality(under(a))]
<1>1. n \in Nat
  BY FS_CardinalityType
<1>2. \A a \in S : IsFiniteSet(under(a)) /\ rank[a] \in Nat /\ a \notin under(a)
                   /\ under(a) \cup {a} \in SUBSET S
  <2>1. \A a \in S : under(a) \in SUBSET S
    OBVIOUS
  <2>2. \A a \in S : IsFiniteSet(under(a))
    BY <2>1, FS_Subset
  <2> QED BY <2>2, FS_CardinalityType
<1> HIDE DEF under
<1>3. ASSUME NEW a \in S PROVE Cardinality(under(a) \cup {a}) = rank[a] + 1
  BY <1>2, FS_AddElement
<1>4. ASSUME NEW a \in S PROVE rank[a] \in 0 .. n - 1
  <2>1. Cardinality(under(a) \cup {a}) <= n
    BY <1>2, FS_Subset
  <2> HIDE DEF n, rank
  <2> QED BY <1>1, <1>2, <1>3, <2>1
<1>5. ASSUME NEW a \in S, NEW b \in S, <<a, b>> \in R PROVE rank[a] < rank[b]
  <2>1. under(a) \cup {a} \in SUBSET under(b)
    BY <1>5 DEF under
  <2>2. Cardinality(under(a) \cup {a}) <= rank[b]
    BY <1>2, <2>1, FS_Subset
  <2> HIDE DEF rank
  <2> QED BY <1>2, <1>3, <2>2
<1>6. rank \in Injection(S, 0 .. n - 1)
  <2>1. \A a, b \in S : rank[a] = rank[b] => a = b
    <3>1. SUFFICES ASSUME NEW a \in S, NEW b \in S, a # b PROVE rank[a] # rank[b]
      OBVIOUS
    <3>2. rank[a] \in Nat /\ rank[b] \in Nat
      BY <1>2
    <3>3. rank[a] < rank[b] \/ rank[b] < rank[a]
      <4>1. <<a, b>> \in R \/ <<b, a>> \in R
        BY <3>1
      <4> HIDE DEF rank
      <4> QED BY <1>5, <4>1
    <3> HIDE DEF rank
    <3> QED BY <3>2, <3>3
  <2>2. rank \in [S -> 0 .. n - 1]
    <3> HIDE DEF n
    <3> QED BY <1>4
  <2>3. \A a, b \in DOMAIN rank : rank[a] = rank[b] => a = b
    BY <2>1
  <2> HIDE DEF rank, n
  <2> QED BY <2>2, <2>3 DEF Injection, IsInjective
<1>7. rank \in Surjection(S, 0 .. n - 1)
  <2>1. IsFiniteSet(0 .. n - 1) /\ Cardinality(0 .. n - 1) = n
    <3> HIDE DEF n
    <3> QED BY <1>1, FS_Interval
  <2> HIDE DEF rank
  <2> QED BY <1>6, <2>1, FS_Injection
<1>8. \A k \in 0 .. n - 1 : \E a \in S : rank[a] = k
  <2> HIDE DEF rank, n
  <2> QED BY <1>7 DEF Surjection
<1> DEFINE rows == [i \in 1 .. n |-> CHOOSE a \in S : rank[a] = i - 1]
<1> HIDE DEF rank, n
<1>9. ASSUME NEW i \in 1 .. n PROVE rows[i] \in S /\ rank[rows[i]] = i - 1
  <2>1. i - 1 \in 0 .. n - 1
    BY <1>1
  <2> QED BY <1>8, <2>1
<1> HIDE DEF rows
<1>10. rows \in [1 .. n -> S]
  <2>1. rows = [i \in 1 .. n |-> rows[i]]
    BY DEF rows
  <2> QED BY <1>9, <2>1
<1>11. \A i, j \in 1 .. n : i # j => rows[i] # rows[j]
  BY <1>1, <1>9
<1>12. rows \in SetToSeqs(S)
  BY <1>10, <1>11 DEF SetToSeqs, n
<1>13. ASSUME NEW i \in 1 .. n, NEW j \in 1 .. n, i < j PROVE <<rows[i], rows[j]>> \in R
  <2>1. rank[rows[i]] < rank[rows[j]] /\ rows[i] # rows[j] /\ rows[i] \in S /\ rows[j] \in S
    BY <1>1, <1>9, <1>13
  <2>2. <<rows[j], rows[i]>> \notin R
    BY <1>2, <1>5, <2>1
  <2> QED BY <2>1, <2>2
<1>14. DOMAIN rows = 1 .. n
  BY <1>10
<1> QED BY <1>12, <1>13, <1>14

(* A row of the table, as far as the dashboards read it.                    *)
Rows == [status : RowStatuses \cup {"none"}, fee : Fees, updated : Int]

(* The order of the log is one: rows that tie under the sort are told apart *)
(* by their tracking id, and those of a fee without a name come last.       *)
LEMMA LogOrdered ==
  ASSUME row \in [Attempts -> Rows], NEW q
  PROVE  /\ \A a \in Attempts : ~Earlier(a, a, q)
         /\ \A a, b \in Attempts : a # b => Earlier(a, b, q) \/ Earlier(b, a, q)
         /\ \A a, b, c \in Attempts :
              Earlier(a, b, q) /\ Earlier(b, c, q) => Earlier(a, c, q)
<1>1. ASSUME NEW a \in Attempts, ~Nulls(a, q) PROVE Key(a, q) \in Int
  <2>1. CASE q.sort = "feeName"
    <3>1. \E i \in DOMAIN Configured : Configured[i] = row[a].fee
      BY <1>1, <2>1 DEF Nulls, Named, ConfiguredFees, Range
    <3>2. NameOf(a) \in DOMAIN Configured
      BY <3>1 DEF NameOf
    <3>3. DOMAIN Configured = 1 .. Len(Configured) /\ Len(Configured) \in Nat
      BY LogAssumption
    <3> QED BY <2>1, <3>2, <3>3 DEF Key
  <2>2. CASE q.sort # "feeName"
    BY <2>2 DEF Key, Rows
  <2> QED BY <2>1, <2>2
<1>2. Attempts \subseteq Int
  BY LogAssumption
<1>3. ASSUME NEW a \in Attempts PROVE ~Earlier(a, a, q)
  BY <1>2 DEF Earlier, Tied
<1>4. ASSUME NEW a \in Attempts, NEW b \in Attempts, a # b
      PROVE  Earlier(a, b, q) \/ Earlier(b, a, q)
  BY <1>1, <1>2, <1>4 DEF Earlier, Tied, Before
<1>5. ASSUME NEW a \in Attempts, NEW b \in Attempts, NEW c \in Attempts,
             Earlier(a, b, q), Earlier(b, c, q)
      PROVE  Earlier(a, c, q)
  BY <1>1, <1>2, <1>5 DEF Earlier, Tied, Before
<1> QED BY <1>3, <1>4, <1>5

(* The rows of a set, in the order of the log, are every one of them once.  *)
LEMMA OrderedRows ==
  ASSUME row \in [Attempts -> Rows], NEW S \in SUBSET Attempts, NEW q
  PROVE  /\ IsFiniteSet(S) /\ Cardinality(S) \in Nat
         /\ OrderedBy(S, q) \in [1 .. Cardinality(S) -> S]
         /\ \A i, j \in 1 .. Cardinality(S) :
              i # j => OrderedBy(S, q)[i] # OrderedBy(S, q)[j]
         /\ Range(OrderedBy(S, q)) = S
<1>1. IsFiniteSet(S) /\ Cardinality(S) \in Nat
  BY LogAssumption, FS_Subset, FS_CardinalityType
<1> DEFINE R == {p \in S \X S : Earlier(p[1], p[2], q)}
           n == Cardinality(S)
           all == OrderedBy(S, q)
<1>2. \A a, b \in S : <<a, b>> \in R <=> Earlier(a, b, q)
  OBVIOUS
<1>3. /\ \A a \in S : <<a, a>> \notin R
      /\ \A a, b \in S : a # b => <<a, b>> \in R \/ <<b, a>> \in R
      /\ \A a, b, c \in S : <<a, b>> \in R /\ <<b, c>> \in R => <<a, c>> \in R
  <2> HIDE DEF R
  <2> QED BY <1>2, LogOrdered
<1>4. PICK rows \in SetToSeqs(S) :
           \A i, j \in DOMAIN rows : i < j => <<rows[i], rows[j]>> \in R
  <2> HIDE DEF R
  <2> QED BY <1>1, <1>3, OrderListed
<1>5. rows \in [1 .. n -> S]
  BY DEF SetToSeqs
<1>6. \A i, j \in DOMAIN rows : i < j => Earlier(rows[i], rows[j], q)
  <2>1. \A i, j \in DOMAIN rows : rows[i] \in S /\ rows[j] \in S
    BY <1>5
  <2> HIDE DEF R, n
  <2> QED BY <1>2, <1>4, <2>1
<1>7. all \in SetToSeqs(S)
  BY <1>6 DEF OrderedBy
<1>8. all \in [1 .. n -> S] /\ \A i, j \in 1 .. n : i # j => all[i] # all[j]
  BY <1>7 DEF SetToSeqs
<1>9. Range(all) = S
  <2>1. all \in Injection(1 .. n, S)
    <3>1. \A i, j \in DOMAIN all : all[i] = all[j] => i = j
      BY <1>8
    <3> HIDE DEF all, n
    <3> QED BY <1>8, <3>1 DEF Injection, IsInjective
  <2>2. Cardinality(1 .. n) = n
    BY <1>1, FS_Interval
  <2>3. all \in Surjection(1 .. n, S)
    <3> HIDE DEF all
    <3> QED BY <1>1, <2>1, <2>2, FS_Injection
  <2>4. \A a \in S : \E i \in 1 .. n : all[i] = a
    <3> HIDE DEF all, n
    <3> QED BY <2>3 DEF Surjection
  <2> HIDE DEF all, n
  <2> QED BY <1>8, <2>4 DEF Range
<1> QED BY <1>1, <1>8, <1>9

-----------------------------------------------------------------------------
(* What the statements return.                                              *)

(* What the tally of a period is, and what a request has been answered so   *)
(* far.                                                                     *)
Tallies == [Fees -> [qty : Nat, subtotal : Nat]]
Answers == [rows : Seq(Attempts), total : 0 .. Cardinality(Attempts),
            counts : [Outcomes -> Nat], tally : Tallies, totals : [PeriodNames -> Nat],
            fees : [PeriodNames -> Tallies], previous : [PeriodNames -> Nat],
            trends : BOOLEAN]

(* Every set of rows a statement reads is a finite set of attempts.         *)
LEMMA RowSets ==
  /\ IsFiniteSet(Attempts) /\ Cardinality(Attempts) \in Nat
  /\ \A S \in SUBSET Attempts : /\ IsFiniteSet(S) /\ Cardinality(S) \in Nat
                                /\ Cardinality(S) <= Cardinality(Attempts)
  /\ \A b : Within(b) \in SUBSET Attempts /\ Paid(b) \in SUBSET Attempts
  /\ \A q, t : Matching(q, t) \in SUBSET Attempts
<1>1. \A b : Within(b) \in SUBSET Attempts
  BY DEF Within, Present
<1>2. \A b : Paid(b) \in SUBSET Attempts
  BY <1>1 DEF Paid
<1>3. \A q, t : Matching(q, t) \in SUBSET Attempts
  BY <1>1 DEF Matching
<1> QED BY <1>1, <1>2, <1>3, LogAssumption, FS_Subset, FS_CardinalityType

(* A quantity times an amount is a natural number.                          *)
LEMMA Price == ASSUME NEW m \in Nat, NEW n \in Nat PROVE m * n \in Nat
OBVIOUS

(* A tally has a quantity and a subtotal for every fee.                     *)
LEMMA TallyTyped == ASSUME NEW S \in SUBSET Attempts PROVE Tally(S) \in Tallies
<1>1. ASSUME NEW f \in Fees
      PROVE  /\ Cardinality({a \in S : row[a].fee = f}) \in Nat
             /\ Amount[f] * Cardinality({a \in S : row[a].fee = f}) \in Nat
  <2>1. {a \in S : row[a].fee = f} \in SUBSET Attempts
    OBVIOUS
  <2>2. Cardinality({a \in S : row[a].fee = f}) \in Nat
    BY <2>1, RowSets
  <2>3. Amount[f] \in Nat
    BY LogAssumption
  <2> QED BY <2>2, <2>3, Price
<1> QED BY <1>1 DEF Tally, Tallies

(* Revenue is a natural number: no attempt is paid a negative amount.       *)
LEMMA RevenueTyped ==
  ASSUME row \in [Attempts -> Rows], NEW S \in SUBSET Attempts
  PROVE  Revenue(S) \in Nat
<1> DEFINE f == [a \in Attempts |-> Amount[row[a].fee]]
<1>1. \A a \in S : f[a] \in Nat
  BY LogAssumption DEF Rows
<1>2. IsFiniteSet(S)
  BY RowSets
<1> HIDE DEF f
<1>3. SumFunctionOnSet(f, S) \in Nat
  BY <1>1, <1>2, SumAdd
<1> QED BY <1>3 DEF Revenue, f

(* The totals to date have a total for every period.                        *)
LEMMA TotalsTyped ==
  ASSUME row \in [Attempts -> Rows], NEW periods
  PROVE  TotalsToDate(periods) \in [PeriodNames -> Nat]
<1>1. ASSUME NEW name \in PeriodNames PROVE Revenue(Paid(periods[name])) \in Nat
  BY RowSets, RevenueTyped
<1> QED BY <1>1 DEF TotalsToDate

(* The counts have a number for every outcome.                              *)
LEMMA CountsTyped ==
  ASSUME NEW S \in SUBSET Attempts
  PROVE  Counts(S) \in [Outcomes -> Nat]
<1>1. \A s : {a \in S : PaymentStatus(row[a].status) = s} \in SUBSET Attempts
  OBVIOUS
<1>2. \A s : Cardinality({a \in S : PaymentStatus(row[a].status) = s}) \in Nat
  BY <1>1, RowSets
<1> QED BY <1>2 DEF Counts

(* The summary's totals have a total for every period.                      *)
LEMMA SummaryTyped ==
  ASSUME NEW tallies \in [PeriodNames -> Tallies]
  PROVE  SummaryTotals(tallies) \in [PeriodNames -> Nat]
<1>1. ASSUME NEW name \in PeriodNames
      PROVE  SumFunction([f \in Fees |-> tallies[name][f].subtotal]) \in Nat
  <2> DEFINE g == [f \in Fees |-> tallies[name][f].subtotal]
  <2>1. \A f \in Fees : g[f] \in Nat
    BY DEF Tallies
  <2>2. DOMAIN g = Fees /\ IsFiniteSet(Fees)
    BY LogAssumption
  <2> HIDE DEF g
  <2>3. SumFunctionOnSet(g, Fees) \in Nat
    BY <2>1, <2>2, SumAdd
  <2> QED BY <2>2, <2>3 DEF SumFunction, g
<1> QED BY <1>1 DEF SummaryTotals

(* The smaller of two numbers, as the page's last row is found.             *)
LEMMA Smaller ==
  ASSUME NEW m \in Int, NEW n \in Int
  PROVE  Min({m, n}) = IF m <= n THEN m ELSE n
<1> DEFINE least(x) == x \in {m, n} /\ \A y \in {m, n} : x <= y
<1>1. least(IF m <= n THEN m ELSE n)
  OBVIOUS
<1>2. \A x, y \in {m, n} : least(x) /\ least(y) => x = y
  OBVIOUS
<1> QED BY <1>1, <1>2 DEF Min

(* A page is a sequence of attempts.                                        *)
LEMMA PageTyped ==
  ASSUME row \in [Attempts -> Rows], NEW S \in SUBSET Attempts,
         NEW q, q.size \in Nat \ {0}, page \in Nat \ {0}
  PROVE  Page(S, q) \in Seq(Attempts)
<1> DEFINE all == OrderedBy(S, q)
           first == (page - 1) * q.size + 1
           last == Min({page * q.size, Len(all)})
           n == Cardinality(S)
<1>1. all \in [1 .. n -> Attempts] /\ n \in Nat
  BY OrderedRows
<1>2. Len(all) = n /\ all \in Seq(Attempts)
  <2> HIDE DEF all, n
  <2> QED BY <1>1
<1>3. first \in Nat \ {0} /\ page * q.size \in Nat
  <2>1. page - 1 \in Nat /\ page \in Nat /\ q.size \in Nat
    OBVIOUS
  <2>2. (page - 1) * q.size \in Nat /\ page * q.size \in Nat
    BY <2>1, Price
  <2> HIDE DEF first
  <2> QED BY <2>2 DEF first
<1>4. last \in Nat /\ last <= Len(all)
  <2> HIDE DEF all, n
  <2> QED BY <1>1, <1>2, <1>3, Smaller
<1>5. SubSeq(all, first, last) \in Seq(Attempts)
  <2> HIDE DEF all, n, first, last
  <2> QED BY <1>1, <1>2, <1>3, <1>4
<1> QED BY <1>5 DEF Page

-----------------------------------------------------------------------------
(* The table and the request.                                               *)

(* The clock is at an instant of the model, and no row is stamped later     *)
(* than it.                                                                 *)
TableTyped == /\ now \in Starts \cup Instants
              /\ row \in [Attempts -> Rows]
              /\ \A a \in Attempts : row[a].updated <= now

(* A request that is served was made, and its export begun, at an instant   *)
(* whose bounds are known; it has only statements of its own left to run.   *)
RequestTyped ==
  /\ query \in Queries /\ page \in 1 .. Cardinality(Attempts) + 1
  /\ askedAt \in Nat /\ askedAt <= now /\ firstAt \in Nat /\ firstAt <= now
  /\ outcome \in {"idle", "running", "200", "400", "500"}
  /\ outcome \in {"running", "200"} =>
       askedAt \in Instants /\ firstAt \in Instants /\ firstAt <= askedAt
  /\ todo \subseteq Statements(query, page) /\ (todo # {} => outcome = "running")
  /\ got \in Answers

(* What the exporting client has.                                           *)
ExportTyped ==
  /\ assembled \in Seq(Attempts) /\ expected \in 0 .. Cardinality(Attempts)
  /\ written \in 0 .. MaxWrites

(* The inductive invariant behind every theorem of the dashboards.          *)
Typed == TableTyped /\ RequestTyped /\ ExportTyped

(* At every instant of the model the calendar holds.                        *)
LEMMA ClockRuns == ASSUME TableTyped PROVE now \in Nat /\ Around(now)
BY LogAssumption DEF TableTyped

(* The portal writes the table.                                             *)
Writing == \E a \in Attempts : \/ \E f \in Carries[a] : Receive(a, f)
                               \/ \E s \in RowStatuses : Settle(a, s)

(* A write puts one typed row in the table, stamped with the clock or, for  *)
(* a cancellation, with the stamp it had.                                   *)
LEMMA Writers ==
  ASSUME TableTyped, Writing
  PROVE /\ UNCHANGED <<now, request, export>>
        /\ IF outcome = "idle" THEN UNCHANGED written
           ELSE written < MaxWrites /\ written' = written + 1
        /\ \E a \in Attempts : \E new \in Rows :
             /\ row' = [row EXCEPT ![a] = new]
             /\ \/ new.updated = now
                \/ new.status = "cancelled" /\ new.updated = row[a].updated
<1>0. now \in Int
  BY ClockRuns
<1>1. PICK a \in Attempts : \/ \E f \in Carries[a] : Receive(a, f)
                            \/ \E s \in RowStatuses : Settle(a, s)
  BY DEF Writing
<1>2. CASE \E f \in Carries[a] : Receive(a, f)
  <2>1. PICK f \in Carries[a] : Receive(a, f)
    BY <1>2
  <2>2. [status |-> "pending", fee |-> f, updated |-> now] \in Rows
    BY <1>0, LogAssumption DEF Rows, RowStatuses
  <2> QED BY <2>1, <2>2 DEF Receive, Write
<1>3. CASE \E s \in RowStatuses : Settle(a, s)
  <2>1. PICK s \in RowStatuses : Settle(a, s)
    BY <1>3
  <2> DEFINE new == [row[a] EXCEPT !.status = s, !.updated = Stamp(a, s)]
  <2>2. row[a] \in Rows /\ Stamp(a, s) \in Int
    BY <1>0 DEF TableTyped, Rows, Stamp
  <2>3. new \in Rows /\ new.updated = Stamp(a, s) /\ new.status = s
    BY <2>2 DEF Rows
  <2>4. Stamp(a, s) = now \/ (s = "cancelled" /\ Stamp(a, s) = row[a].updated)
    BY DEF Stamp
  <2>5. Write(a, new)
    BY <2>1 DEF Settle
  <2> HIDE DEF new
  <2> QED BY <2>3, <2>4, <2>5 DEF Write
<1> QED BY <1>1, <1>2, <1>3

(* Each kind of step keeps the invariant: a write,                          *)
LEMMA WriteTyped == ASSUME Typed, Writing PROVE Typed'
<1>0. TableTyped /\ now \in Nat
  BY ClockRuns DEF Typed
<1>1. /\ UNCHANGED <<now, request, export>>
      /\ IF outcome = "idle" THEN UNCHANGED written
         ELSE written < MaxWrites /\ written' = written + 1
  BY <1>0, Writers
<1>2. PICK a \in Attempts, new \in Rows :
             /\ row' = [row EXCEPT ![a] = new]
             /\ \/ new.updated = now
                \/ new.status = "cancelled" /\ new.updated = row[a].updated
  BY <1>0, Writers
<1>3. TableTyped'
  BY <1>0, <1>1, <1>2 DEF TableTyped
<1>4. RequestTyped'
  BY <1>1 DEF Typed, RequestTyped, request, export
<1>5. ExportTyped'
  BY <1>1, LogAssumption DEF Typed, ExportTyped, export
<1> QED BY <1>3, <1>4, <1>5 DEF Typed

(* the clock,                                                               *)
LEMMA PassTyped == ASSUME Typed, NEW t \in Instants, Pass(t) PROVE Typed'
<1>0. now \in Nat /\ t \in Nat /\ now' = t /\ t > now /\ UNCHANGED <<row, request, export, written>>
  BY ClockRuns, LogAssumption DEF Pass, Typed
<1>1. TableTyped'
  BY <1>0 DEF Typed, TableTyped, Rows
<1>2. RequestTyped'
  BY <1>0 DEF Typed, RequestTyped, request, export
<1>3. ExportTyped'
  BY <1>0 DEF Typed, ExportTyped, export
<1> QED BY <1>1, <1>2, <1>3 DEF Typed

(* (an answer before any statement has run is one)                          *)
LEMMA NothingTyped == Nothing \in Answers
<1>1. NoTally \in Tallies /\ NoTotals \in [PeriodNames -> Nat]
  BY DEF NoTally, NoTotals, Tallies
<1>2. 0 \in 0 .. Cardinality(Attempts) /\ <<>> \in Seq(Attempts)
  BY RowSets
<1> QED BY <1>1, <1>2 DEF Nothing, Answers

(* the end of a request,                                                    *)
LEMMA IdleTyped == ASSUME Typed, Idle, UNCHANGED <<now, row>> PROVE Typed'
<1>0. now \in Nat
  BY ClockRuns DEF Typed
<1>1. TableTyped'
  BY DEF Typed, TableTyped
<1>2. RequestTyped'
  BY <1>0, NothingTyped, RowSets, QueryAssumption DEF Idle, RequestTyped
<1>3. ExportTyped'
  BY RowSets, LogAssumption DEF Idle, ExportTyped
<1> QED BY <1>1, <1>2, <1>3 DEF Typed

(* a request,                                                               *)
LEMMA AskTyped == ASSUME Typed, NEW q \in Queries, Ask(q) PROVE Typed'
<1>0. now \in Nat /\ now \in Instants /\ UNCHANGED <<now, row, expected>>
  BY ClockRuns DEF Typed, Ask
<1>1. TableTyped'
  BY <1>0 DEF Typed, TableTyped
<1>2. CASE ValidQuery(q)
  <2>1. RequestTyped'
    BY <1>0, <1>2, NothingTyped, RowSets DEF Ask, Start, RequestTyped
  <2>2. ExportTyped'
    BY <1>0, <1>2, LogAssumption DEF Ask, Typed, ExportTyped
  <2> QED BY <1>1, <2>1, <2>2 DEF Typed
<1>3. CASE ~ValidQuery(q)
  <2>1. RequestTyped'
    BY <1>0, <1>3 DEF Ask, Typed, RequestTyped
  <2>2. ExportTyped'
    BY <1>0, <1>3 DEF Ask, Typed, ExportTyped
  <2> QED BY <1>1, <2>1, <2>2 DEF Typed
<1> QED BY <1>2, <1>3

(* the next page of an export, which there is only while rows are left,     *)
LEMMA NextPageTyped == ASSUME Typed, NextPage PROVE Typed'
<1>0. /\ now \in Nat /\ now \in Instants /\ UNCHANGED <<now, row, export, written>>
      /\ Start(query, page + 1) /\ MorePages
  BY ClockRuns DEF Typed, NextPage
<1>1. TableTyped'
  BY <1>0 DEF Typed, TableTyped
<1>2. page + 1 \in 1 .. Cardinality(Attempts) + 1
  <2>1. /\ page \in Nat \ {0} /\ query.size \in Nat \ {0} /\ page * query.size < expected
        /\ expected \in Nat /\ expected <= Cardinality(Attempts) /\ Cardinality(Attempts) \in Nat
    BY <1>0, RowSets, QueryAssumption DEF Typed, RequestTyped, ExportTyped, MorePages
  <2>2. page <= page * query.size
    <3>1. \A m, n \in Nat \ {0} : m <= m * n
      OBVIOUS
    <3> QED BY <2>1, <3>1
  <2>3. page * query.size \in Nat
    BY <2>1, Price
  <2> QED BY <2>1, <2>2, <2>3
<1>3. RequestTyped'
  BY <1>0, <1>2, NothingTyped DEF Start, Typed, RequestTyped, export, MorePages
<1>4. ExportTyped'
  BY <1>0 DEF Typed, ExportTyped, export
<1> QED BY <1>1, <1>3, <1>4 DEF Typed

(* an answer,                                                               *)
LEMMA AnswerTyped == ASSUME Typed, Answer PROVE Typed'
<1>0. UNCHANGED <<now, row, query, askedAt, page, todo, got, firstAt, written>>
      /\ outcome' = "200" /\ outcome = "running" /\ todo = {}
  BY DEF Answer
<1>1. TableTyped'
  BY <1>0 DEF Typed, TableTyped
<1>2. RequestTyped'
  BY <1>0 DEF Typed, RequestTyped
<1>3. got.rows \in Seq(Attempts) /\ got.total \in 0 .. Cardinality(Attempts)
  BY DEF Typed, RequestTyped, Answers
<1>4. ExportTyped'
  BY <1>0, <1>3 DEF Answer, Typed, ExportTyped
<1> QED BY <1>1, <1>2, <1>4 DEF Typed

(* What a statement leaves in got is an answer.                             *)
LEMMA RunTyped == ASSUME Typed, Run PROVE Typed'
<1>0. /\ UNCHANGED <<now, row, query, askedAt, page, export, written>>
      /\ outcome = "running" /\ row \in [Attempts -> Rows] /\ got \in Answers
  BY DEF Run, Typed, TableTyped, RequestTyped
<1>1. TableTyped' /\ ExportTyped'
  BY <1>0 DEF Typed, TableTyped, ExportTyped, export
<1>2. ASSUME got' \in Answers, todo' \subseteq todo, outcome' = outcome PROVE RequestTyped'
  BY <1>0, <1>2 DEF Typed, RequestTyped, export
<1>3. ASSUME Failed PROVE RequestTyped'
  BY <1>0, <1>3, NothingTyped DEF Failed, Typed, RequestTyped, export
<1>4. ASSUME ReadPage PROVE RequestTyped'
  <2> DEFINE rows == Page(Matching(query, askedAt), query)
  <2>1. rows \in Seq(Attempts)
    <3>1. query.size \in Nat \ {0} /\ page \in Nat \ {0}
      BY QueryAssumption DEF Typed, RequestTyped
    <3> QED BY <1>0, <3>1, RowSets, PageTyped
  <2> HIDE DEF rows
  <2>2. [got EXCEPT !.rows = rows] \in Answers
    BY <1>0, <2>1 DEF Answers
  <2>3. Failed \/ Took("page", [got EXCEPT !.rows = rows])
    BY <1>4 DEF ReadPage, rows
  <2> QED BY <1>2, <1>3, <2>2, <2>3 DEF Took
<1>5. ASSUME ReadTotal PROVE RequestTyped'
  <2>1. Cardinality(Matching(query, askedAt)) \in 0 .. Cardinality(Attempts)
    BY RowSets
  <2>2. [got EXCEPT !.total = Cardinality(Matching(query, askedAt))] \in Answers
    BY <1>0, <2>1 DEF Answers
  <2> QED BY <1>2, <1>5, <2>2 DEF ReadTotal, Took
<1>6. ASSUME ReadCounts PROVE RequestTyped'
  <2> DEFINE bounds == TimeframeOf(query, askedAt)
             counts == Counts(Within(bounds))
             tally == IF query.breakdown THEN Tally(Paid(bounds)) ELSE got.tally
  <2>1. counts \in [Outcomes -> Nat] /\ tally \in Tallies
    BY <1>0, RowSets, CountsTyped, TallyTyped DEF Answers
  <2>2. Took("counts", [got EXCEPT !.counts = counts, !.tally = tally])
    BY <1>6 DEF ReadCounts
  <2> HIDE DEF bounds, counts, tally
  <2>3. [got EXCEPT !.counts = counts, !.tally = tally] \in Answers
    BY <1>0, <2>1 DEF Answers
  <2> QED BY <1>2, <2>2, <2>3 DEF Took
<1>7. ASSUME ReadTotals PROVE RequestTyped'
  <2>1. [got EXCEPT !.totals = TotalsToDate(PeriodsAt[askedAt])] \in Answers
    BY <1>0, TotalsTyped DEF Answers
  <2> QED BY <1>2, <1>7, <2>1 DEF ReadTotals, Took
<1>8. ASSUME ReadPrevious PROVE RequestTyped'
  <2>1. [got EXCEPT !.previous = TotalsToDate(PreviousAt[askedAt]), !.trends = TRUE] \in Answers
    BY <1>0, TotalsTyped DEF Answers
  <2> QED BY <1>2, <1>8, <2>1 DEF ReadPrevious, Took
<1>9. ASSUME ReadTallies PROVE RequestTyped'
  <2> DEFINE tallies == [name \in PeriodNames |-> Tally(Paid(PeriodsAt[askedAt][name]))]
  <2>1. tallies \in [PeriodNames -> Tallies]
    BY RowSets, TallyTyped
  <2>2. Took("tallies", [got EXCEPT !.fees = tallies, !.totals = SummaryTotals(tallies)])
    BY <1>9 DEF ReadTallies
  <2> HIDE DEF tallies
  <2>3. [got EXCEPT !.fees = tallies, !.totals = SummaryTotals(tallies)] \in Answers
    BY <1>0, <2>1, SummaryTyped DEF Answers
  <2> QED BY <1>2, <2>2, <2>3 DEF Took
<1>10. RequestTyped'
  BY <1>4, <1>5, <1>6, <1>7, <1>8, <1>9 DEF Run
<1> QED BY <1>1, <1>10 DEF Typed

(* and a statement that fails.                                              *)
LEMMA FailTyped == ASSUME Typed, NEW s \in todo, Fail(s) PROVE Typed'
<1>0. /\ UNCHANGED <<now, row, query, askedAt, page, export, written>>
      /\ outcome = "running" /\ (Took(s, got) \/ Failed)
  BY DEF Fail
<1>1. TableTyped' /\ ExportTyped'
  BY <1>0 DEF Typed, TableTyped, ExportTyped, export
<1>2. RequestTyped'
  BY <1>0, NothingTyped DEF Took, Failed, Typed, RequestTyped, export
<1> QED BY <1>1, <1>2 DEF Typed

(* The invariant holds at first, at every step, and so always.              *)
LEMMA TypedStart == ASSUME Init PROVE Typed
<1>1. Configured[1] \in Fees
  BY LogAssumption
<1>2. TableTyped
  BY <1>1, LogAssumption DEF Init, TableTyped, Rows
<1>3. RequestTyped
  BY NothingTyped, RowSets, QueryAssumption, LogAssumption DEF Init, RequestTyped
<1>4. ExportTyped
  BY RowSets, LogAssumption DEF Init, ExportTyped
<1> QED BY <1>2, <1>3, <1>4 DEF Typed

(* The steps together.                                                      *)
LEMMA TypedStep == ASSUME Typed, [Next]_vars PROVE Typed'
<1>1. CASE Writing
  BY <1>1, WriteTyped
<1>2. CASE \E q \in Queries : Ask(q)
  BY <1>2, AskTyped
<1>3. CASE Run
  BY <1>3, RunTyped
<1>4. CASE Answer
  BY <1>4, AnswerTyped
<1>5. CASE NextPage
  BY <1>5, NextPageTyped
<1>6. CASE Forget
  BY <1>6, IdleTyped DEF Forget
<1>7. CASE \E s \in todo : Fail(s)
  BY <1>7, FailTyped
<1>8. CASE \E t \in Instants : Pass(t)
  BY <1>8, PassTyped
<1>9. CASE UNCHANGED vars
  BY <1>9 DEF vars, request, export, Typed, TableTyped, RequestTyped, ExportTyped
<1> QED BY <1>1, <1>2, <1>3, <1>4, <1>5, <1>6, <1>7, <1>8, <1>9 DEF Next, Writing

(* The invariant of every behaviour.                                        *)
LEMMA TypedAlways == Spec => []Typed
<1>1. Init => Typed
  BY TypedStart
<1>2. Typed /\ [Next]_vars => Typed'
  BY TypedStep
<1> QED BY <1>1, <1>2, PTL DEF Spec

(* TypeOK: every variable keeps to its domain whatever requests are served  *)
(* and fail, the pages of an export never run past the rows there are, and  *)
(* only a running request has statements left.                              *)
THEOREM TypesKept == Spec => []TypeOK
<1>1. Typed => TypeOK
  BY ClockRuns, LogAssumption DEF Typed, TableTyped, RequestTyped, ExportTyped, TypeOK, Rows
<1> QED BY <1>1, TypedAlways, PTL

-----------------------------------------------------------------------------
(* The calendar's properties wherever the clock begins.                     *)

(* DaysTile: courtDayBounds gives each instant the one court day it is in,  *)
(* and the next day begins where it ends, over both clock changes.          *)
THEOREM CourtDaysTile == Spec => []DaysTile
<1>1. Typed => DaysTile
  BY ClockRuns, EveryDayTiles DEF Typed, DaysTile
<1> QED BY <1>1, TypedAlways, PTL

(* PeriodsOpenRight: courtPeriodBounds opens every period at a court        *)
(* midnight, on its Sunday or its first of the month.                       *)
THEOREM PeriodsOpen == Spec => []PeriodsOpenRight
<1>1. Typed => PeriodsOpenRight
  BY ClockRuns, EveryPeriodOpens DEF Typed, PeriodsOpenRight
<1> QED BY <1>1, TypedAlways, PTL

(* YearsCompare: previousCourtPeriodBounds takes last year's periods to the *)
(* same local date and hour.                                                *)
THEOREM ComparedLikeForLike == Spec => []YearsCompare
<1>1. Typed => YearsCompare
  BY ClockRuns, EveryYearCompares DEF Typed, YearsCompare
<1> QED BY <1>1, TypedAlways, PTL

-----------------------------------------------------------------------------
(* The breakdown.                                                           *)

(* What a fee was paid, over every fee.                                     *)
Quantities(tally) == SumFunctionOnSet([f \in Fees |-> tally[f].qty], Fees)

(* A breakdown shows every fee with a quantity, so it loses none of them.   *)
LEMMA ShownInFull ==
  ASSUME NEW tally \in Tallies
  PROVE  LET shown == BuildFeeBreakdown(tally) IN
           SumFunction([f \in DOMAIN shown |-> shown[f].qty]) = Quantities(tally)
<1> DEFINE D == ConfiguredFees \cup {g \in Fees : tally[g].qty > 0}
           part == [f \in D |-> tally[f].qty]
           whole == [f \in Fees |-> tally[f].qty]
<1>1. D \subseteq Fees
  <2>1. ConfiguredFees \subseteq Fees
    BY LogAssumption DEF ConfiguredFees, Range
  <2> QED BY <2>1
<1>2. \A f \in Fees : tally[f].qty \in Nat
  BY DEF Tallies
<1>3. \A f \in D : part[f] \in Nat /\ part[f] = whole[f]
  BY <1>1, <1>2
<1>4. \A f \in Fees \ D : whole[f] = 0
  BY <1>2
<1>5. SumFunctionOnSet(part, D) = SumFunctionOnSet(whole, Fees)
  <2> HIDE DEF D, part, whole
  <2> QED BY <1>1, <1>3, <1>4, SumSame, LogAssumption
<1>6. SumFunction(part) = SumFunctionOnSet(part, D)
  <2>1. DOMAIN part = D
    OBVIOUS
  <2> QED BY <2>1 DEF SumFunction
<1> DEFINE shown == BuildFeeBreakdown(tally)
<1>7. DOMAIN shown = D /\ \A f \in D : shown[f].qty = tally[f].qty
  BY DEF BuildFeeBreakdown
<1>8. [f \in DOMAIN shown |-> shown[f].qty] = part
  <2> HIDE DEF shown, D
  <2> QED BY <1>7
<1> QED BY <1>5, <1>6, <1>8 DEF Quantities

(* Of one table, the successful attempts are those paid, fee by fee.        *)
LEMMA OneTable ==
  ASSUME TableTyped, NEW bounds
  PROVE  Counts(Within(bounds))["success"] = Quantities(Tally(Paid(bounds)))
<1> DEFINE S == Paid(bounds)
           kind == [a \in S |-> row[a].fee]
<1>1. Counts(Within(bounds))["success"] = Cardinality(S)
  <2>1. \A a \in Within(bounds) : PaymentStatus(row[a].status) = "success"
                                  <=> row[a].status = "success"
    BY DEF PaymentStatus
  <2>2. {a \in Within(bounds) : PaymentStatus(row[a].status) = "success"} = S
    BY <2>1 DEF Paid
  <2>3. "success" \in Outcomes
    BY DEF Outcomes
  <2> HIDE DEF S
  <2> QED BY <2>2, <2>3 DEF Counts
<1>2. kind \in [S -> Fees]
  BY RowSets DEF TableTyped, Rows
<1>3. IsFiniteSet(S) /\ IsFiniteSet(Fees)
  BY RowSets, LogAssumption
<1>4. SumFunctionOnSet([f \in Fees |-> Cardinality({a \in S : kind[a] = f})], Fees)
        = Cardinality(S)
  <2> HIDE DEF S, kind
  <2> QED BY <1>2, <1>3, CountByKind
<1>5. \A f \in Fees : {a \in S : kind[a] = f} = {a \in S : row[a].fee = f}
  OBVIOUS
<1>6. [f \in Fees |-> Cardinality({a \in S : kind[a] = f})]
        = [f \in Fees |-> Tally(S)[f].qty]
  BY <1>5 DEF Tally
<1> QED BY <1>1, <1>4, <1>6 DEF Quantities

(* Once the counts of a log's first page are read, so is the tally, from    *)
(* the same table.                                                          *)
CountsRead ==
  /\ outcome \in {"running", "200"} /\ query.kind = "log" /\ query.breakdown /\ page = 1
  /\ "counts" \notin todo
  => got.counts["success"] = Quantities(got.tally)

(* A first page always asks for the counts.                                 *)
LEMMA FirstCounts ==
  ASSUME NEW q, q.kind = "log"
  PROVE  "counts" \in Statements(q, 1)
BY DEF Statements, WithCounts

(* Counts and tally come from one statement, so no write comes between.     *)
LEMMA CountsReadStep == ASSUME Typed, CountsRead, [Next]_vars PROVE CountsRead'
<1>0. got \in Answers /\ page \in Nat /\ page >= 1 /\ TableTyped
  BY DEF Typed, RequestTyped
<1>1. CASE Writing
  <2>1. UNCHANGED request
    BY <1>0, <1>1, Writers
  <2> QED BY <2>1 DEF request, CountsRead
<1>2. CASE \E q \in Queries : Ask(q)
  <2>1. PICK q \in Queries : Ask(q)
    BY <1>2
  <2> QED BY <2>1, FirstCounts DEF Ask, Start, CountsRead
<1>3. CASE Run
  <2>0. UNCHANGED <<query, page>> /\ outcome = "running"
    BY <1>3 DEF Run
  <2>1. CASE ReadPage
    BY <1>0, <2>0, <2>1 DEF ReadPage, Failed, Took, Answers, CountsRead
  <2>2. CASE ReadTotal
    BY <1>0, <2>0, <2>2 DEF ReadTotal, Took, Answers, CountsRead
  <2>3. CASE ReadCounts
    <3> DEFINE bounds == TimeframeOf(query, askedAt)
    <3>1. SUFFICES ASSUME query.breakdown
                   PROVE  got'.counts["success"] = Quantities(got'.tally)
      BY <2>0 DEF CountsRead
    <3>2. got' = [got EXCEPT !.counts = Counts(Within(bounds)), !.tally = Tally(Paid(bounds))]
      BY <2>3, <3>1 DEF ReadCounts, Took
    <3>3. got'.counts = Counts(Within(bounds)) /\ got'.tally = Tally(Paid(bounds))
      BY <1>0, <3>2 DEF Answers
    <3> QED BY <1>0, <3>3, OneTable
  <2>4. CASE ReadTotals
    BY <1>0, <2>0, <2>4 DEF ReadTotals, Took, Answers, CountsRead
  <2>5. CASE ReadPrevious
    BY <1>0, <2>0, <2>5 DEF ReadPrevious, Took, Answers, CountsRead
  <2>6. CASE ReadTallies
    BY <2>0, <2>6 DEF ReadTallies, CountsRead
  <2> QED BY <1>3, <2>1, <2>2, <2>3, <2>4, <2>5, <2>6 DEF Run
<1>4. CASE Answer
  BY <1>4 DEF Answer, CountsRead
<1>5. CASE NextPage
  BY <1>0, <1>5 DEF NextPage, Start, CountsRead
<1>6. CASE Forget
  BY <1>6 DEF Forget, Idle, CountsRead
<1>7. CASE \E s \in todo : Fail(s)
  BY <1>7 DEF Fail, Took, Failed, CountsRead
<1>8. CASE \E t \in Instants : Pass(t)
  BY <1>8 DEF Pass, request, CountsRead
<1>9. CASE UNCHANGED vars
  BY <1>9 DEF vars, request, CountsRead
<1> QED BY <1>1, <1>2, <1>3, <1>4, <1>5, <1>6, <1>7, <1>8, <1>9 DEF Next, Writing

(* BreakdownMatchesCounts: countsAndFeeBreakdownInRange reads both from one *)
(* table, and buildFeeBreakdown leaves out no fee that was paid, configured *)
(* or not.                                                                  *)
THEOREM BreakdownsMatch == Spec => []BreakdownMatchesCounts
<1>1. Init => CountsRead
  BY DEF Init, CountsRead
<1>2. Typed /\ CountsRead /\ [Next]_vars => CountsRead'
  BY CountsReadStep
<1>3. Typed /\ CountsRead => BreakdownMatchesCounts
  <2>1. SUFFICES ASSUME Typed, CountsRead, outcome = "200", query.kind = "log",
                        query.breakdown, page = 1
                 PROVE  LET shown == BuildFeeBreakdown(got.tally) IN
                          got.counts["success"] = SumFunction([f \in DOMAIN shown |-> shown[f].qty])
    BY DEF BreakdownMatchesCounts
  <2>2. "counts" \notin todo /\ got.tally \in Tallies
    BY <2>1 DEF Typed, RequestTyped, Answers
  <2> QED BY <2>1, <2>2, ShownInFull DEF CountsRead
<1> QED BY <1>1, <1>2, <1>3, TypedAlways, PTL DEF Spec

-----------------------------------------------------------------------------
(* The totals.                                                              *)

(* Totals of which none is below that of a period inside it.                *)
Nested(total) ==
  /\ total["day"] <= total["week"] /\ total["day"] <= total["month"]
  /\ total["month"] <= total["quarter"] /\ total["quarter"] <= total["fiscalYear"]

(* Which period lies in which.                                              *)
Inside == {<<"day", "week">>, <<"day", "month">>, <<"month", "quarter">>,
           <<"quarter", "fiscalYear">>}

(* All periods to date end now, and the longer one opens no later.          *)
LEMMA PeriodsInside ==
  ASSUME NEW t \in Instants, NEW p \in Inside
  PROVE  LET inner == PeriodsAt[t][p[1]]
             outer == PeriodsAt[t][p[2]]
         IN  /\ inner.start \in Int /\ outer.start \in Int
             /\ outer.start <= inner.start /\ outer.end = inner.end
<1> DEFINE O(name) == OpeningDay(name, t)
           day == LocalDay(t)
<1>1. t \in Int /\ Around(t)
  BY LogAssumption
<1>2. Surrounded(day) /\ day \in Int
  BY <1>1, TodaySurrounded, LocalDayNear
<1>3. /\ p[1] \in PeriodNames /\ p[2] \in PeriodNames
      /\ O(p[2]) <= O(p[1])
      /\ \A name \in PeriodNames : O(name) \in Int /\ day - 400 <= O(name) /\ O(name) <= day
  BY <1>1, <1>2, OpeningsNested DEF Inside, PeriodNames
<1>4. ASSUME NEW name \in PeriodNames PROVE Surrounded(O(name)) /\ StartOfZoneDay(O(name)) \in Int
  <2>1. \A k \in -700 .. 300 : Surrounded(day + k)
    BY <1>1, NearbyDays
  <2>2. O(name) = day + (O(name) - day) /\ O(name) - day \in -700 .. 300
    <3>1. O(name) \in Int /\ day - 400 <= O(name) /\ O(name) <= day
      BY <1>3
    <3> HIDE DEF O, day
    <3> QED BY <1>2, <3>1
  <2>3. Surrounded(O(name)) /\ O(name) \in Int
    <3> HIDE DEF O, day
    <3> QED BY <1>3, <2>1, <2>2
  <2> QED BY <2>3, Midnight
<1>5. StartOfZoneDay(O(p[2])) <= StartOfZoneDay(O(p[1]))
  BY <1>3, <1>4, MidnightsInOrder
<1>6. \A name \in PeriodNames : /\ PeriodsAt[t][name].start = StartOfZoneDay(O(name))
                                /\ PeriodsAt[t][name].end = t
  BY DEF PeriodsAt, CourtPeriodBounds
<1>7. /\ StartOfZoneDay(O(p[1])) \in Int /\ StartOfZoneDay(O(p[2])) \in Int
      /\ PeriodsAt[t][p[1]].start = StartOfZoneDay(O(p[1])) /\ PeriodsAt[t][p[1]].end = t
      /\ PeriodsAt[t][p[2]].start = StartOfZoneDay(O(p[2])) /\ PeriodsAt[t][p[2]].end = t
  BY <1>3, <1>4, <1>6
<1> HIDE DEF O
<1> QED BY <1>5, <1>7

(* What was paid in a period was paid in one around it.                     *)
LEMMA PaidInside ==
  ASSUME TableTyped, NEW inner, NEW outer,
         inner.start \in Int, outer.start \in Int,
         outer.start <= inner.start, outer.end = inner.end
  PROVE  Paid(inner) \subseteq Paid(outer)
<1>1. \A a \in Attempts : row[a].updated \in Int
  BY DEF TableTyped, Rows
<1> QED BY <1>1 DEF Paid, Within, Present

(* More rows bring no less revenue.                                         *)
LEMMA RevenueGrows ==
  ASSUME TableTyped, NEW T \in SUBSET Attempts, NEW S \in SUBSET T
  PROVE  Revenue(S) <= Revenue(T)
<1> DEFINE f == [a \in Attempts |-> Amount[row[a].fee]]
<1>1. \A a \in Attempts : f[a] \in Nat
  BY LogAssumption DEF TableTyped, Rows
<1>2. IsFiniteSet(T)
  BY RowSets
<1> HIDE DEF f
<1>3. SumFunctionOnSet(f, S) <= SumFunctionOnSet(f, T)
  BY <1>1, <1>2, SumGrows
<1> QED BY <1>3 DEF Revenue, f

(* The log's totals to date, summed row by row.                             *)
LEMMA TotalsNested ==
  ASSUME TableTyped, NEW t \in Instants
  PROVE  Nested(TotalsToDate(PeriodsAt[t]))
<1>1. ASSUME NEW p \in Inside
      PROVE  TotalsToDate(PeriodsAt[t])[p[1]] <= TotalsToDate(PeriodsAt[t])[p[2]]
  <2>1. Paid(PeriodsAt[t][p[1]]) \subseteq Paid(PeriodsAt[t][p[2]])
    BY PeriodsInside, PaidInside
  <2>2. Revenue(Paid(PeriodsAt[t][p[1]])) <= Revenue(Paid(PeriodsAt[t][p[2]]))
    BY <2>1, RevenueGrows, RowSets
  <2>3. p[1] \in PeriodNames /\ p[2] \in PeriodNames
    BY DEF Inside, PeriodNames
  <2> QED BY <2>2, <2>3 DEF TotalsToDate
<1> QED BY <1>1 DEF Nested, Inside

(* More of a fee costs no less.                                             *)
LEMMA Dearer ==
  ASSUME NEW k \in Nat, NEW m \in Nat, NEW n \in Nat, m <= n
  PROVE  k * m <= k * n
<1>1. n = m + (n - m) /\ n - m \in Nat
  OBVIOUS
<1>2. \A d \in Nat : k * (m + d) = k * m + k * d
  OBVIOUS
<1>3. k * n = k * m + k * (n - m)
  BY <1>1, <1>2
<1>4. k * m \in Nat /\ k * (n - m) \in Nat
  BY <1>1, Price
<1> QED BY <1>3, <1>4

(* More rows bring no smaller subtotal of a fee.                            *)
LEMMA SubtotalsGrow ==
  ASSUME NEW T \in SUBSET Attempts, NEW S \in SUBSET T, NEW f \in Fees
  PROVE  Tally(S)[f].subtotal <= Tally(T)[f].subtotal
<1> DEFINE in(R) == {a \in R : row[a].fee = f}
<1>1. in(S) \in SUBSET in(T) /\ in(T) \in SUBSET Attempts /\ in(S) \in SUBSET Attempts
  OBVIOUS
<1>2. /\ IsFiniteSet(in(T)) /\ Cardinality(in(T)) \in Nat /\ Cardinality(in(S)) \in Nat
      /\ Cardinality(in(S)) <= Cardinality(in(T))
  <2> HIDE DEF in
  <2> QED BY <1>1, RowSets, FS_Subset
<1>3. Amount[f] \in Nat
  BY LogAssumption
<1>4. Amount[f] * Cardinality(in(S)) <= Amount[f] * Cardinality(in(T))
  <2> HIDE DEF in
  <2> QED BY <1>2, <1>3, Dearer
<1> QED BY <1>4 DEF Tally

(* The summary's totals, summed fee by fee.                                 *)
LEMMA SummaryNested ==
  ASSUME TableTyped, NEW t \in Instants
  PROVE  Nested(SummaryTotals([name \in PeriodNames |-> Tally(Paid(PeriodsAt[t][name]))]))
<1> DEFINE tallies == [name \in PeriodNames |-> Tally(Paid(PeriodsAt[t][name]))]
           subtotals(name) == [f \in Fees |-> tallies[name][f].subtotal]
<1>1. ASSUME NEW p \in Inside
      PROVE  SummaryTotals(tallies)[p[1]] <= SummaryTotals(tallies)[p[2]]
  <2>0. p[1] \in PeriodNames /\ p[2] \in PeriodNames
    BY DEF Inside, PeriodNames
  <2>1. Paid(PeriodsAt[t][p[1]]) \subseteq Paid(PeriodsAt[t][p[2]])
    BY PeriodsInside, PaidInside
  <2>2. ASSUME NEW f \in Fees
        PROVE  /\ subtotals(p[1])[f] <= subtotals(p[2])[f]
               /\ subtotals(p[1])[f] \in Nat /\ subtotals(p[2])[f] \in Nat
    <3>1. Tally(Paid(PeriodsAt[t][p[1]]))[f].subtotal <= Tally(Paid(PeriodsAt[t][p[2]]))[f].subtotal
      BY <2>1, SubtotalsGrow, RowSets
    <3>2. tallies[p[1]] \in Tallies /\ tallies[p[2]] \in Tallies
      BY <2>0, TallyTyped, RowSets
    <3>3. subtotals(p[1])[f] \in Nat /\ subtotals(p[2])[f] \in Nat
      <4> HIDE DEF tallies
      <4> QED BY <3>2 DEF Tallies
    <3> QED BY <2>0, <3>1, <3>3
  <2>3. SumFunctionOnSet(subtotals(p[1]), Fees) <= SumFunctionOnSet(subtotals(p[2]), Fees)
    <3> HIDE DEF subtotals
    <3> QED BY <2>2, LogAssumption, SumGrows
  <2>4. \A name \in PeriodNames : SummaryTotals(tallies)[name] = SumFunctionOnSet(subtotals(name), Fees)
    <3>1. \A name : DOMAIN subtotals(name) = Fees
      OBVIOUS
    <3> QED BY <3>1 DEF SummaryTotals, SumFunction
  <2> HIDE DEF subtotals, tallies
  <2> QED BY <2>0, <2>3, <2>4
<1> HIDE DEF tallies
<1>2. Nested(SummaryTotals(tallies))
  BY <1>1 DEF Nested, Inside
<1> QED BY <1>2 DEF tallies

(* Whatever has been read, the totals are of one table: none, or all five.  *)
TotalsRead == Nested(got.totals)

(* Before they are read the totals are all zero.                            *)
LEMMA NothingNested == Nested(Nothing.totals)
BY DEF Nothing, NoTotals, Nested, PeriodNames

(* The totals are read by one statement.                                    *)
LEMMA TotalsReadStep == ASSUME Typed, TotalsRead, [Next]_vars PROVE TotalsRead'
<1>0. got \in Answers /\ TableTyped
  BY DEF Typed, RequestTyped
<1>1. CASE Writing
  <2>1. UNCHANGED request
    BY <1>0, <1>1, Writers
  <2> QED BY <2>1 DEF request, TotalsRead
<1>2. CASE \E q \in Queries : Ask(q)
  <2>1. PICK q \in Queries : Ask(q)
    BY <1>2
  <2> QED BY <2>1, NothingNested DEF Ask, Start, TotalsRead
<1>3. CASE Run
  <2>0. askedAt \in Instants
    BY <1>3 DEF Run, Typed, RequestTyped
  <2>1. CASE ReadPage
    <3>1. got' = Nothing \/ got'.totals = got.totals
      BY <1>0, <2>1 DEF ReadPage, Failed, Took, Answers
    <3> QED BY <3>1, NothingNested DEF TotalsRead
  <2>2. CASE ReadTotal
    BY <1>0, <2>2 DEF ReadTotal, Took, Answers, TotalsRead
  <2>3. CASE ReadCounts
    BY <1>0, <2>3 DEF ReadCounts, Took, Answers, TotalsRead
  <2>4. CASE ReadTotals
    <3>1. got'.totals = TotalsToDate(PeriodsAt[askedAt])
      BY <1>0, <2>4 DEF ReadTotals, Took, Answers
    <3> QED BY <1>0, <2>0, <3>1, TotalsNested DEF TotalsRead
  <2>5. CASE ReadPrevious
    BY <1>0, <2>5 DEF ReadPrevious, Took, Answers, TotalsRead
  <2>6. CASE ReadTallies
    <3>1. got'.totals = SummaryTotals([name \in PeriodNames |-> Tally(Paid(PeriodsAt[askedAt][name]))])
      BY <1>0, <2>6 DEF ReadTallies, Took, Answers
    <3> QED BY <1>0, <2>0, <3>1, SummaryNested DEF TotalsRead
  <2> QED BY <1>3, <2>1, <2>2, <2>3, <2>4, <2>5, <2>6 DEF Run
<1>4. CASE Answer
  BY <1>4 DEF Answer, TotalsRead
<1>5. CASE NextPage
  BY <1>5, NothingNested DEF NextPage, Start, TotalsRead
<1>6. CASE Forget
  BY <1>6, NothingNested DEF Forget, Idle, TotalsRead
<1>7. CASE \E s \in todo : Fail(s)
  BY <1>7, NothingNested DEF Fail, Took, Failed, TotalsRead
<1>8. CASE \E t \in Instants : Pass(t)
  BY <1>8 DEF Pass, request, TotalsRead
<1>9. CASE UNCHANGED vars
  BY <1>9 DEF vars, request, TotalsRead
<1> QED BY <1>1, <1>2, <1>3, <1>4, <1>5, <1>6, <1>7, <1>8, <1>9 DEF Next, Writing

(* PeriodsNested: totalsToDate, or the summary's feeTalliesByPeriods, reads *)
(* all five periods from one table, so no payment is in a day and not yet   *)
(* in its week.                                                             *)
THEOREM TotalsNest == Spec => []PeriodsNested
<1>1. Init => TotalsRead
  BY NothingNested DEF Init, TotalsRead
<1>2. Typed /\ TotalsRead /\ [Next]_vars => TotalsRead'
  BY TotalsReadStep
<1>3. TotalsRead => PeriodsNested
  BY DEF TotalsRead, Nested, PeriodsNested
<1> QED BY <1>1, <1>2, <1>3, TypedAlways, PTL DEF Spec

-----------------------------------------------------------------------------
(* The export.                                                              *)

(* Between two instants of one timeframe every instant has it.              *)
LEMMA OneTimeframe ==
  ASSUME NEW q, NEW s \in Instants, NEW t \in Instants, NEW u \in Instants,
         s <= t, t <= u, TimeframeOf(q, s) = TimeframeOf(q, u)
  PROVE  TimeframeOf(q, t) = TimeframeOf(q, u)
<1>1. CASE q.days # <<>>
  BY <1>1 DEF TimeframeOf
<1>2. CASE q.days = <<>>
  <2> DEFINE d == LocalDay(s)
  <2>1. /\ s \in Int /\ t \in Int /\ u \in Int /\ Around(s) /\ Around(u)
    BY LogAssumption
  <2>2. CourtDayBounds(s) = CourtDayBounds(u)
    BY <1>2 DEF TimeframeOf, TodayAt
  <2>3. CourtDayBounds(s) = [start |-> StartOfZoneDay(d), end |-> StartOfZoneDay(d + 1)]
    BY DEF CourtDayBounds, CourtDayBoundsForDate
  <2>4. StartOfZoneDay(d) <= s /\ u < StartOfZoneDay(d + 1)
    <3>1. DayTiles(s) /\ DayTiles(u)
      BY <2>1, EveryDayTiles
    <3> HIDE DEF d
    <3> QED BY <2>2, <2>3, <3>1 DEF DayTiles
  <2>5. d \in Int /\ Surrounded(d) /\ Surrounded(d + 1)
    <3>1. d \in Int
      BY <2>1, LocalDayNear
    <3>2. Surrounded(d + 0) /\ Surrounded(d + 1)
      BY <2>1, NearbyDays
    <3> HIDE DEF d
    <3> QED BY <3>1, <3>2
  <2>6. StartOfZoneDay(d) \in Int /\ StartOfZoneDay(d + 1) \in Int
    BY <2>5, Midnight
  <2>7. LocalDay(t) = d
    <3> HIDE DEF d
    <3>1. StartOfZoneDay(d) <= t /\ t < StartOfZoneDay(d + 1)
      BY <2>1, <2>4, <2>6
    <3> QED BY <2>1, <2>5, <3>1, DayOf
  <2>8. CourtDayBounds(t) = CourtDayBounds(s)
    BY <2>7 DEF CourtDayBounds
  <2> QED BY <1>2, <2>2, <2>8 DEF TimeframeOf, TodayAt
<1> QED BY <1>1, <1>2

(* The first k rows of those that match, or all of them if they are fewer.  *)
Upto(S, q, k) ==
  SubSeq(OrderedBy(S, q), 1, IF k <= Cardinality(S) THEN k ELSE Cardinality(S))

(* A page continues where those before it end.                              *)
LEMMA PageContinues ==
  ASSUME TableTyped, NEW S \in SUBSET Attempts, NEW q, q.size \in Nat \ {0},
         page \in Nat \ {0}, (page - 1) * q.size <= Cardinality(S)
  PROVE  Upto(S, q, (page - 1) * q.size) \o Page(S, q) = Upto(S, q, page * q.size)
<1> DEFINE all == OrderedBy(S, q)
           n == Cardinality(S)
           before == (page - 1) * q.size
           after == page * q.size
           last == IF after <= n THEN after ELSE n
<1>1. all \in [1 .. n -> Attempts] /\ n \in Nat
  BY OrderedRows DEF TableTyped
<1>2. Len(all) = n /\ all \in Seq(Attempts)
  <2> HIDE DEF all, n
  <2> QED BY <1>1
<1>3. before \in Nat /\ after \in Nat /\ before <= after /\ before <= n
  <2>1. page - 1 \in Nat /\ page \in Nat /\ q.size \in Nat
    OBVIOUS
  <2>2. before \in Nat /\ after \in Nat
    BY <2>1, Price
  <2>3. q.size * (page - 1) <= q.size * page
    BY <2>1, Dearer
  <2>4. q.size * (page - 1) = before /\ q.size * page = after
    BY <2>1
  <2> HIDE DEF before, after
  <2> QED BY <2>2, <2>3, <2>4 DEF before
<1> HIDE DEF all, n, before, after
<1>4. Page(S, q) = SubSeq(all, before + 1, last)
  <2>1. Page(S, q) = SubSeq(all, before + 1, Min({after, Len(all)}))
    BY DEF Page, all, before, after
  <2>2. Min({after, n}) = last
    BY <1>1, <1>3, Smaller
  <2> QED BY <1>2, <2>1, <2>2
<1>5. last \in before .. Len(all)
  BY <1>1, <1>2, <1>3
<1> HIDE DEF last
<1>6. SubSeq(all, 1, before) \o SubSeq(all, before + 1, last) = SubSeq(all, 1, last)
  <2>1. 1 \in 1 .. Len(all) + 1 /\ before \in 1 - 1 .. Len(all)
    BY <1>1, <1>2, <1>3
  <2> QED BY <1>2, <1>5, <2>1, ConcatAdjacentSubSeq
<1>7. Upto(S, q, before) = SubSeq(all, 1, before) /\ Upto(S, q, after) = SubSeq(all, 1, last)
  BY <1>3 DEF Upto, all, n, last
<1> QED BY <1>4, <1>6, <1>7 DEF before, after

(* The first none are none, and as many as there are are all of them, once. *)
LEMMA UptoEnds ==
  ASSUME TableTyped, NEW S \in SUBSET Attempts, NEW q
  PROVE  /\ Upto(S, q, 0) = <<>>
         /\ \A k \in Nat : k >= Cardinality(S) =>
              /\ Range(Upto(S, q, k)) = S /\ Len(Upto(S, q, k)) = Cardinality(S)
<1> DEFINE all == OrderedBy(S, q)
           n == Cardinality(S)
<1>1. all \in [1 .. n -> Attempts] /\ n \in Nat /\ Range(all) = S
  BY OrderedRows DEF TableTyped
<1>2. Len(all) = n /\ all \in Seq(Attempts)
  <2> HIDE DEF all, n
  <2> QED BY <1>1
<1>3. SubSeq(all, 1, 0) = <<>> /\ SubSeq(all, 1, n) = all
  <2> HIDE DEF all, n
  <2> QED BY <1>1, <1>2, SubSeqEmpty, SubSeqFull
<1>4. Upto(S, q, 0) = SubSeq(all, 1, 0)
  BY <1>1 DEF Upto
<1>5. ASSUME NEW k \in Nat, k >= n PROVE Upto(S, q, k) = all
  <2>1. (IF k <= n THEN k ELSE n) = n
    BY <1>1, <1>5
  <2> QED BY <1>3, <2>1 DEF Upto
<1> HIDE DEF all
<1> QED BY <1>1, <1>2, <1>3, <1>4, <1>5

(* Of an export that nothing was written during and whose pages have one    *)
(* timeframe: the rows so far are the first ones in order, and page 1's     *)
(* total is of them all.                                                    *)
Undisturbed == /\ outcome \in {"running", "200"} /\ query.kind = "log" /\ query.export
               /\ written = 0
               /\ TimeframeOf(query, firstAt) = TimeframeOf(query, askedAt)

(* While a page is read: the rows of the pages before it, and what of its   *)
(* own has been read.                                                       *)
Assembling(S) ==
  /\ (page - 1) * query.size <= Cardinality(S)
  /\ assembled = Upto(S, query, (page - 1) * query.size)
  /\ page # 1 => expected = Cardinality(S)
  /\ "page" \notin todo => got.rows = Page(S, query)
  /\ page = 1 /\ "total" \notin todo => got.total = Cardinality(S)

(* When it is answered: its own rows, too.                                  *)
Assembled(S) == /\ assembled = Upto(S, query, page * query.size)
                /\ expected = Cardinality(S)

(* The invariant behind ExportExact.                                        *)
ExportSoFar ==
  Undisturbed => IF outcome = "running" THEN Assembling(Matching(query, askedAt))
                                        ELSE Assembled(Matching(query, askedAt))

(* Page 1 begins with no row at all.                                        *)
LEMMA ExportBegins ==
  ASSUME Typed, NEW q \in Queries, Ask(q) PROVE ExportSoFar'
<1>1. SUFFICES ASSUME Undisturbed' PROVE ExportSoFar'
  BY DEF ExportSoFar
<1>2. Start(q, 1) /\ assembled' = <<>> /\ UNCHANGED <<now, row, expected>>
  BY <1>1 DEF Ask, Undisturbed
<1>3. /\ query' = q /\ page' = 1 /\ todo' = Statements(q, 1) /\ outcome' = "running"
      /\ q.kind = "log" /\ askedAt' = now
  BY <1>1, <1>2 DEF Start, Undisturbed
<1> DEFINE M == Matching(q, now)
<1>4. Matching(query, askedAt)' = M
  BY <1>2, <1>3 DEF Matching, Within, Present, TimeframeOf
<1>5. M \in SUBSET Attempts /\ Cardinality(M) \in Nat
  <2>1. M \in SUBSET Attempts
    BY DEF Matching, Within, Present
  <2> QED BY <2>1, RowSets
<1>6. q.size \in Nat /\ (1 - 1) * q.size = 0
  BY QueryAssumption
<1>7. Upto(M, q, 0) = <<>>
  BY <1>5, UptoEnds DEF Typed
<1>8. Upto(Matching(query, askedAt), query, (page - 1) * query.size)' = Upto(M, q, (1 - 1) * q.size)
  BY <1>2, <1>3, <1>4 DEF Upto, OrderedBy, Earlier, Before, Tied, Key, Nulls, NameOf, Named, ConfiguredFees
<1> QED BY <1>2, <1>3, <1>4, <1>5, <1>6, <1>7, <1>8
        DEF ExportSoFar, Assembling, Statements, WithCounts, Undisturbed

(* A write ends the claim, and so does whatever ends the request.           *)
LEMMA ExportDisturbed ==
  ASSUME Typed, Writing \/ outcome' \notin {"running", "200"}
  PROVE  ExportSoFar'
<1>1. CASE Writing
  <2>1. /\ UNCHANGED outcome
        /\ IF outcome = "idle" THEN UNCHANGED written
           ELSE written < MaxWrites /\ written' = written + 1
    BY <1>1, Writers DEF Typed, request
  <2>2. written \in Nat
    BY LogAssumption DEF Typed, ExportTyped
  <2> QED BY <2>1, <2>2 DEF ExportSoFar, Undisturbed
<1>2. CASE outcome' \notin {"running", "200"}
  BY <1>2 DEF ExportSoFar, Undisturbed
<1> QED BY <1>1, <1>2

(* Page and total are those of one table: nothing is written in between.    *)
LEMMA ExportReads ==
  ASSUME Typed, ExportSoFar, Run PROVE ExportSoFar'
<1>1. SUFFICES ASSUME Undisturbed' PROVE ExportSoFar'
  BY DEF ExportSoFar
<1>2. /\ UNCHANGED <<now, row, query, askedAt, page, export, written>>
      /\ outcome = "running" /\ got \in Answers
  BY DEF Run, Typed, RequestTyped
<1> DEFINE M == Matching(query, askedAt)
<1>3. Undisturbed /\ Assembling(M)
  BY <1>1, <1>2 DEF ExportSoFar, Undisturbed, export
<1>4. Matching(query, askedAt)' = M
  BY <1>2 DEF Matching, Within, Present, TimeframeOf
<1>5. Upto(Matching(query, askedAt), query, (page - 1) * query.size)'
        = Upto(M, query, (page - 1) * query.size)
  BY <1>2, <1>4
     DEF Upto, OrderedBy, Earlier, Before, Tied, Key, Nulls, NameOf, Named, ConfiguredFees
<1>6. Page(Matching(query, askedAt), query)' = Page(M, query)
  BY <1>2, <1>4
     DEF Page, OrderedBy, Earlier, Before, Tied, Key, Nulls, NameOf, Named, ConfiguredFees
<1> HIDE DEF M
<1>7. ASSUME outcome' = "running",
             "page" \notin todo' => got'.rows = Page(M, query),
             page = 1 /\ "total" \notin todo' => got'.total = Cardinality(M)
      PROVE  ExportSoFar'
  BY <1>2, <1>3, <1>4, <1>5, <1>6, <1>7 DEF ExportSoFar, Assembling, export
<1>8. outcome' = "running"
  BY <1>1, <1>2 DEF Run, Failed, Took, ReadPage, ReadTotal, ReadCounts, ReadTotals, ReadPrevious,
        ReadTallies, Undisturbed
<1>9. ASSUME ReadPage PROVE ExportSoFar'
  <2>1. Took("page", [got EXCEPT !.rows = Page(M, query)])
    BY <1>8, <1>9 DEF ReadPage, Failed, M
  <2>2. got'.rows = Page(M, query) /\ got'.total = got.total /\ todo' = todo \ {"page"}
    BY <1>2, <2>1 DEF Took, Answers
  <2> QED BY <1>3, <1>7, <1>8, <2>2 DEF Assembling
<1>10. ASSUME ReadTotal PROVE ExportSoFar'
  <2>1. got'.rows = got.rows /\ got'.total = Cardinality(M) /\ todo' = todo \ {"total"}
    BY <1>2, <1>10 DEF ReadTotal, Took, Answers, M
  <2> QED BY <1>3, <1>7, <1>8, <2>1 DEF Assembling
<1>11. ASSUME ReadCounts \/ ReadTotals \/ ReadPrevious \/ ReadTallies PROVE ExportSoFar'
  <2>1. /\ got'.rows = got.rows /\ got'.total = got.total
        /\ \E s \in {"counts", "totals", "previous", "tallies"} : todo' = todo \ {s}
    BY <1>2, <1>11 DEF ReadCounts, ReadTotals, ReadPrevious, ReadTallies, Took, Answers
  <2> QED BY <1>3, <1>7, <1>8, <2>1 DEF Assembling
<1> QED BY <1>9, <1>10, <1>11 DEF Run

(* An answer adds its page to those before it.                              *)
LEMMA ExportAnswers ==
  ASSUME Typed, ExportSoFar, Answer PROVE ExportSoFar'
<1>1. SUFFICES ASSUME Undisturbed' PROVE ExportSoFar'
  BY DEF ExportSoFar
<1>2. /\ UNCHANGED <<now, row, query, askedAt, page, todo, got, firstAt, written>>
      /\ outcome = "running" /\ outcome' = "200" /\ todo = {}
      /\ assembled' = assembled \o got.rows
      /\ expected' = IF page = 1 THEN got.total ELSE expected
  BY DEF Answer
<1> DEFINE M == Matching(query, askedAt)
<1>3. Undisturbed /\ Assembling(M)
  BY <1>1, <1>2 DEF ExportSoFar, Undisturbed
<1>4. Matching(query, askedAt)' = M
  BY <1>2 DEF Matching, Within, Present, TimeframeOf
<1>5. Upto(Matching(query, askedAt), query, page * query.size)' = Upto(M, query, page * query.size)
  BY <1>2, <1>4
     DEF Upto, OrderedBy, Earlier, Before, Tied, Key, Nulls, NameOf, Named, ConfiguredFees
<1>6. M \in SUBSET Attempts
  BY DEF Matching, Within, Present
<1> HIDE DEF M
<1>7. assembled' = Upto(M, query, page * query.size)
  <2>1. query.size \in Nat \ {0} /\ page \in Nat \ {0}
    BY QueryAssumption, RowSets DEF Typed, RequestTyped
  <2>2. /\ (page - 1) * query.size <= Cardinality(M) /\ got.rows = Page(M, query)
        /\ assembled = Upto(M, query, (page - 1) * query.size)
    BY <1>2, <1>3 DEF Assembling
  <2>3. Upto(M, query, (page - 1) * query.size) \o Page(M, query)
          = Upto(M, query, page * query.size)
    BY <1>6, <2>1, <2>2, PageContinues DEF Typed
  <2> QED BY <1>2, <2>2, <2>3
<1>8. expected' = Cardinality(M)
  BY <1>2, <1>3 DEF Assembling
<1> QED BY <1>2, <1>4, <1>5, <1>7, <1>8 DEF ExportSoFar, Assembled

(* The next page is asked for of the same rows: its clock is in the         *)
(* timeframe of page 1's.                                                   *)
LEMMA ExportContinues ==
  ASSUME Typed, ExportSoFar, NextPage PROVE ExportSoFar'
<1>1. SUFFICES ASSUME Undisturbed' PROVE ExportSoFar'
  BY DEF ExportSoFar
<1>2. /\ UNCHANGED <<now, row, assembled, expected, firstAt, written, query>> /\ MorePages
      /\ now \in Instants /\ askedAt' = now /\ page' = page + 1 /\ outcome' = "running"
      /\ todo' = Statements(query, page + 1)
  BY DEF NextPage, Start, export
<1> DEFINE M == Matching(query, askedAt)
<1>3. TimeframeOf(query, askedAt) = TimeframeOf(query, now)
  <2>1. /\ askedAt \in Instants /\ firstAt \in Instants /\ firstAt <= askedAt /\ askedAt <= now
    BY <1>2 DEF Typed, RequestTyped, MorePages
  <2>2. TimeframeOf(query, firstAt) = TimeframeOf(query, now)
    BY <1>1, <1>2 DEF Undisturbed, TimeframeOf
  <2> QED BY <1>2, <2>1, <2>2, OneTimeframe
<1>4. Undisturbed
  <2>1. TimeframeOf(query, firstAt) = TimeframeOf(query, now)
    BY <1>1, <1>2 DEF Undisturbed, TimeframeOf
  <2> QED BY <1>1, <1>2, <1>3, <2>1 DEF Undisturbed, MorePages
<1>5. Assembled(M)
  BY <1>2, <1>4 DEF ExportSoFar, MorePages
<1>6. Matching(query, askedAt)' = M
  <2>1. TimeframeOf(query, askedAt)' = TimeframeOf(query, now)
    BY <1>2 DEF TimeframeOf
  <2>2. TimeframeOf(query, askedAt)' = TimeframeOf(query, askedAt)
    BY <1>3, <2>1
  <2> QED BY <1>2, <2>2 DEF Matching, Within, Present
<1> HIDE DEF M
<1>7. (page' - 1) * query'.size = page * query.size
  <2>1. page' - 1 = page
    BY <1>2, RowSets DEF Typed, RequestTyped
  <2> QED BY <1>2, <2>1
<1>8. Upto(Matching(query, askedAt), query, (page - 1) * query.size)'
        = Upto(M, query, page * query.size)
  <2>1. OrderedBy(Matching(query, askedAt), query)' = OrderedBy(M, query)
    BY <1>2, <1>6
       DEF OrderedBy, Earlier, Before, Tied, Key, Nulls, NameOf, Named, ConfiguredFees
  <2>2. Cardinality(Matching(query, askedAt))' = Cardinality(M)
    BY <1>6
  <2> QED BY <1>6, <1>7, <2>1, <2>2, Zenon DEF Upto
<1>9. page * query.size <= Cardinality(M) /\ expected = Cardinality(M)
  <2>1. page * query.size < expected /\ expected \in Nat
    BY <1>2, RowSets DEF MorePages, Typed, ExportTyped
  <2>2. page * query.size \in Nat
    <3>1. query.size \in Nat /\ page \in Nat
      BY QueryAssumption, RowSets DEF Typed, RequestTyped
    <3> QED BY <3>1, Price
  <2> QED BY <1>5, <2>1, <2>2 DEF Assembled
<1>10. /\ "page" \in Statements(query, page + 1) /\ page + 1 # 1
  <2>1. query.kind # "summary" /\ page \in Nat \ {0}
    BY <1>2, RowSets DEF MorePages, Typed, RequestTyped
  <2> QED BY <2>1 DEF Statements
<1> QED BY <1>2, <1>5, <1>6, <1>7, <1>8, <1>9, <1>10 DEF ExportSoFar, Assembling, Assembled

(* A step that leaves table and request alone leaves the claim alone.       *)
LEMMA ExportStands ==
  ASSUME ExportSoFar, UNCHANGED <<row, request, export, written>>
  PROVE  ExportSoFar'
<1>1. UNCHANGED <<row, query, askedAt, page, todo, got, outcome, assembled, expected, firstAt,
                  written>>
  BY DEF request, export
<1> DEFINE M == Matching(query, askedAt)
<1>2. Matching(query, askedAt)' = M
  BY <1>1 DEF Matching, Within, Present, TimeframeOf
<1>3. Undisturbed' => Undisturbed
  BY <1>1 DEF Undisturbed, TimeframeOf
<1>4. /\ Upto(Matching(query, askedAt), query, (page - 1) * query.size)'
           = Upto(M, query, (page - 1) * query.size)
      /\ Upto(Matching(query, askedAt), query, page * query.size)'
           = Upto(M, query, page * query.size)
      /\ Page(Matching(query, askedAt), query)' = Page(M, query)
  BY <1>1, <1>2
     DEF Upto, Page, OrderedBy, Earlier, Before, Tied, Key, Nulls, NameOf, Named, ConfiguredFees
<1> HIDE DEF M
<1>5. Assembling(M) => Assembling(Matching(query, askedAt))'
  BY <1>1, <1>2, <1>4 DEF Assembling
<1>6. Assembled(M) => Assembled(Matching(query, askedAt))'
  BY <1>1, <1>2, <1>4 DEF Assembled
<1> QED BY <1>1, <1>3, <1>5, <1>6 DEF ExportSoFar, M

(* The steps together.                                                      *)
LEMMA ExportStep == ASSUME Typed, ExportSoFar, [Next]_vars PROVE ExportSoFar'
<1>1. CASE Writing
  BY <1>1, ExportDisturbed
<1>2. CASE \E q \in Queries : Ask(q)
  BY <1>2, ExportBegins
<1>3. CASE Run
  BY <1>3, ExportReads
<1>4. CASE Answer
  BY <1>4, ExportAnswers
<1>5. CASE NextPage
  BY <1>5, ExportContinues
<1>6. CASE Forget
  BY <1>6, ExportDisturbed DEF Forget, Idle
<1>7. CASE \E s \in todo : Fail(s)
  <2>1. outcome' = "500" \/ (query.kind = "summary" /\ UNCHANGED query)
    BY <1>7 DEF Fail, Failed
  <2>2. ASSUME query.kind = "summary", UNCHANGED query PROVE ExportSoFar'
    BY <2>2 DEF ExportSoFar, Undisturbed
  <2> QED BY <2>1, <2>2, ExportDisturbed
<1>8. CASE \E t \in Instants : Pass(t)
  BY <1>8, ExportStands DEF Pass
<1>9. CASE UNCHANGED vars
  BY <1>9, ExportStands DEF vars
<1> QED BY <1>1, <1>2, <1>3, <1>4, <1>5, <1>6, <1>7, <1>8, <1>9 DEF Next, Writing

(* ExportExact: when the client has covered page 1's total, the rows it has *)
(* are the first page * size of those that match, which is all of them.     *)
THEOREM ExportsExact == Spec => []ExportExact
<1>1. Init => ExportSoFar
  BY DEF Init, ExportSoFar, Undisturbed
<1>2. Typed /\ ExportSoFar /\ [Next]_vars => ExportSoFar'
  BY ExportStep
<1>3. ASSUME Typed, ExportSoFar PROVE ExportExact
  <2>1. SUFFICES ASSUME Exported, written = 0,
                        TimeframeOf(query, firstAt) = TimeframeOf(query, askedAt)
                 PROVE  /\ Range(assembled) = Matching(query, askedAt)
                        /\ Len(assembled) = expected /\ expected = Cardinality(Range(assembled))
    BY DEF ExportExact
  <2> DEFINE M == Matching(query, askedAt)
  <2>2. Assembled(M)
    BY <1>3, <2>1 DEF ExportSoFar, Undisturbed, Exported
  <2>3. M \in SUBSET Attempts
    BY DEF Matching, Within, Present
  <2> HIDE DEF M
  <2>4. ~(page * query.size < Cardinality(M))
    BY <2>1, <2>2 DEF Exported, MorePages, Assembled
  <2>5. page * query.size \in Nat /\ Cardinality(M) \in Nat
    <3>1. query.size \in Nat /\ page \in Nat
      BY <1>3, QueryAssumption, RowSets DEF Typed, RequestTyped
    <3> QED BY <2>3, <3>1, Price, RowSets
  <2>6. LET all == Upto(M, query, page * query.size) IN
          Range(all) = M /\ Len(all) = Cardinality(M)
    BY <1>3, <2>3, <2>4, <2>5, UptoEnds DEF Typed
  <2> QED BY <2>2, <2>6 DEF Assembled, M
<1> QED BY <1>1, <1>2, <1>3, TypedAlways, PTL DEF Spec

-----------------------------------------------------------------------------
(* Days that are over.                                                      *)

(* No step but a write touches the table.                                   *)
LEMMA Others == ASSUME [Next]_vars, ~Writing PROVE UNCHANGED row
BY DEF Next, Writing, vars, Ask, Run, Answer, NextPage, Forget, Fail, Pass

(* One step cannot add a payment to a day that is over.                     *)
LEMMA DayStep ==
  ASSUME TableTyped, [Next]_vars, NEW day \in CourtDays, day.end <= now
  PROVE Paid(day)' \subseteq Paid(day)
<1>1. now \in Int /\ day.end \in Int
  <2>1. PICK t \in Instants : day = CourtDayBounds(t)
    BY DEF CourtDays
  <2>2. t \in Int /\ Around(t)
    BY LogAssumption
  <2>3. Surrounded(LocalDay(t) + 1) /\ LocalDay(t) \in Int
    BY <2>2, NearbyDays, LocalDayNear
  <2>4. StartOfZoneDay(LocalDay(t) + 1) \in Int
    <3>1. LocalDay(t) + 1 \in Int
      BY <2>3
    <3>2. \A m \in Int, o \in {-4, -5} : m - o \in Int
      OBVIOUS
    <3> QED BY <2>3, <3>1, <3>2, Midnight
  <2>5. day.end = StartOfZoneDay(LocalDay(t) + 1)
    BY <2>1 DEF CourtDayBounds, CourtDayBoundsForDate
  <2> QED BY <2>4, <2>5, ClockRuns
<1>2. CASE Writing
  <2>1. PICK a \in Attempts, new \in Rows :
               /\ row' = [row EXCEPT ![a] = new]
               /\ \/ new.updated = now
                  \/ new.status = "cancelled" /\ new.updated = row[a].updated
    BY <1>2, Writers
  <2>2. SUFFICES ASSUME NEW b \in Paid(day)' PROVE b \in Paid(day)
    OBVIOUS
  <2>3. /\ b \in Attempts /\ row'[b].status = "success"
        /\ day.start <= row'[b].updated /\ row'[b].updated < day.end
    BY <2>2 DEF Paid, Within, Present
  <2>4. b # a
    <3>1. SUFFICES ASSUME b = a PROVE FALSE
      OBVIOUS
    <3>2. row'[b] = new
      BY <2>1, <3>1 DEF TableTyped
    <3>3. new.updated = now /\ now < day.end
      BY <2>1, <2>3, <3>2
    <3> QED BY <1>1, <3>3
  <2>5. row'[b] = row[b]
    BY <2>1, <2>3, <2>4 DEF TableTyped
  <2> QED BY <2>3, <2>5 DEF Paid, Within, Present
<1>3. CASE ~Writing
  BY <1>3, Others DEF Paid, Within, Present
<1> QED BY <1>2, <1>3

(* PastDaysOnlyLose, for any table, instants and requests: the trigger      *)
(* stamps every write but a cancellation with the clock, which is past the  *)
(* day's end.                                                               *)
THEOREM ClosedDays == Spec => PastDaysOnlyLose
<1>1. Typed /\ [Next]_vars
      => [\A day \in CourtDays : day.end <= now => Paid(day)' \subseteq Paid(day)]_vars
  BY DayStep DEF Typed
<1> QED BY <1>1, TypedAlways, PTL DEF Spec, PastDaysOnlyLose
=============================================================================
