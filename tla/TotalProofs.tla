---------------------------- MODULE TotalProofs -----------------------------
(***************************************************************************)
(* What the proofs of the components need to know of Total, and of sets of *)
(* naturals.                                                               *)
(***************************************************************************)
EXTENDS Totals, Functions, FiniteSetTheorems, WellFoundedInduction, TLAPS

(***************************************************************************)
(* A set of naturals has a least member.                                   *)
(***************************************************************************)
LEMMA LeastNatural ==
  ASSUME NEW T, T \subseteq Nat, T # {}
  PROVE  \E m \in T : \A n \in T : m <= n
<1> DEFINE R == {ss \in Nat \X Nat : ss[1] < ss[2]}
<1>1. R = OpToRel(<, Nat)
  BY DEF OpToRel
<1>2. IsWellFoundedOn(R, Nat)
  BY <1>1, NatLessThanWellFounded, Zenon
<1>3. \A m, n \in Nat : n < m => <<n, m>> \in R
  OBVIOUS
<1> HIDE DEF R
<1>4. PICK m \in T : \A n \in T : ~(<<n, m>> \in R)
  BY <1>2, WFMin
<1>5. \A n \in T : m <= n
  <2> SUFFICES ASSUME NEW n \in T PROVE m <= n
    OBVIOUS
  <2>1. m \in Nat /\ n \in Nat /\ ~(n < m)
    BY <1>3, <1>4
  <2> QED
    BY <2>1
<1> QED
  BY <1>5

(***************************************************************************)
(* A holder's units are finitely many: as many as the function says.       *)
(***************************************************************************)
LEMMA UnitsOfOne ==
  ASSUME NEW f, NEW x, f[x] \in Nat
  PROVE  IsFiniteSet(UnitsOf(f, x)) /\ Cardinality(UnitsOf(f, x)) = f[x]
<1>1. IsFiniteSet(1..f[x]) /\ Cardinality(1..f[x]) = f[x]
  BY FS_Interval
<1>2. IsFiniteSet({x}) /\ Cardinality({x}) = 1
  BY FS_Singleton
<1>3. /\ IsFiniteSet({x} \X (1..f[x]))
      /\ Cardinality({x} \X (1..f[x])) = Cardinality({x}) * Cardinality(1..f[x])
  BY <1>1, <1>2, FS_Product
<1> QED
  BY <1>1, <1>2, <1>3 DEF UnitsOf

(***************************************************************************)
(* The units of finitely many holders are finitely many.                   *)
(***************************************************************************)
LEMMA UnitsFinite ==
  ASSUME NEW S, IsFiniteSet(S), NEW f, \A x \in S : f[x] \in Nat
  PROVE  IsFiniteSet(Units(f, S))
<1> DEFINE g == [x \in S |-> UnitsOf(f, x)]
           I == {UnitsOf(f, x) : x \in S}
<1>1. g \in Surjection(S, I)
  BY DEF Surjection
<1>2. IsFiniteSet(I)
  <2> HIDE DEF g, I
  <2> QED  BY <1>1, FS_Surjection
<1>3. \A T \in I : IsFiniteSet(T)
  BY UnitsOfOne
<1> QED
  BY <1>2, <1>3, FS_UNION DEF Units

(***************************************************************************)
(* A total over finitely many holders is a natural number.                 *)
(***************************************************************************)
LEMMA TotalType ==
  ASSUME NEW S, IsFiniteSet(S), NEW f, \A x \in S : f[x] \in Nat
  PROVE  Total(f, S) \in Nat
BY UnitsFinite, FS_CardinalityType DEF Total

(***************************************************************************)
(* Nobody holds nothing.                                                   *)
(***************************************************************************)
LEMMA TotalEmpty ==
  ASSUME NEW f
  PROVE  Total(f, {}) = 0
<1>1. Units(f, {}) = {}
  BY DEF Units
<1> QED
  BY <1>1, FS_EmptySet DEF Total

(***************************************************************************)
(* The total with a holder is the total without it plus what it holds.     *)
(***************************************************************************)
LEMMA TotalSplit ==
  ASSUME NEW S, IsFiniteSet(S), NEW f, \A y \in S : f[y] \in Nat, NEW x \in S
  PROVE  Total(f, S) = Total(f, S \ {x}) + f[x]
<1> DEFINE A == Units(f, S \ {x})
           B == UnitsOf(f, x)
<1>1. IsFiniteSet(S \ {x})
  BY FS_RemoveElement
<1>2. IsFiniteSet(A) /\ Cardinality(A) \in Nat
  BY <1>1, UnitsFinite, FS_CardinalityType
<1>3. IsFiniteSet(B) /\ Cardinality(B) = f[x]
  BY UnitsOfOne
<1>4. A \cap B = {}
  BY DEF Units, UnitsOf
<1>5. Units(f, S) = A \cup B
  BY DEF Units
<1>6. Cardinality(A \cup B) = Cardinality(A) + Cardinality(B) - Cardinality(A \cap B)
  <2> HIDE DEF A, B
  <2> QED  BY <1>2, <1>3, FS_Union
<1>7. Cardinality(A \cap B) = 0
  BY <1>4, FS_EmptySet
<1> QED
  BY <1>2, <1>3, <1>5, <1>6, <1>7 DEF Total

(***************************************************************************)
(* Two functions that agree on the holders have the same total.            *)
(***************************************************************************)
LEMMA TotalSame ==
  ASSUME NEW S, NEW f, NEW g, \A x \in S : f[x] = g[x]
  PROVE  Total(f, S) = Total(g, S)
<1>1. Units(f, S) = Units(g, S)
  BY DEF Units, UnitsOf
<1> QED
  BY <1>1 DEF Total

(***************************************************************************)
(* A change of one holder's share changes the total by as much.            *)
(***************************************************************************)
LEMMA TotalUpdate ==
  ASSUME NEW S, IsFiniteSet(S), NEW f, NEW g, NEW x \in S,
         \A y \in S : f[y] \in Nat /\ g[y] \in Nat,
         \A y \in S \ {x} : g[y] = f[y]
  PROVE  Total(g, S) = Total(f, S) + g[x] - f[x]
<1>1. Total(f, S) = Total(f, S \ {x}) + f[x]
  BY TotalSplit
<1>2. Total(g, S) = Total(g, S \ {x}) + g[x]
  BY TotalSplit
<1>3. Total(g, S \ {x}) = Total(f, S \ {x})
  BY TotalSame
<1>4. IsFiniteSet(S \ {x})
  BY FS_RemoveElement
<1>5. Total(f, S \ {x}) \in Nat
  BY <1>4, TotalType
<1> QED
  BY <1>1, <1>2, <1>3, <1>5

(***************************************************************************)
(* The same of a change by d, for a total that may or may not include the  *)
(* holder.                                                                 *)
(***************************************************************************)
LEMMA TotalChange ==
  ASSUME NEW S, IsFiniteSet(S), NEW f, NEW g, NEW x, NEW d \in Int,
         \A y \in S : f[y] \in Nat /\ g[y] \in Nat,
         \A y \in S \ {x} : g[y] = f[y],
         g[x] = f[x] + d
  PROVE  /\ x \in S => Total(g, S) = Total(f, S) + d
         /\ x \notin S => Total(g, S) = Total(f, S)
<1>1. Total(f, S) \in Nat
  BY TotalType
<1>2. ASSUME x \in S PROVE Total(g, S) = Total(f, S) + d
  <2>1. Total(f, S) = Total(f, S \ {x}) + f[x]
    BY <1>2, TotalSplit
  <2>2. Total(g, S) = Total(g, S \ {x}) + g[x]
    BY <1>2, TotalSplit
  <2>3. Total(g, S \ {x}) = Total(f, S \ {x})
    BY TotalSame
  <2>4. IsFiniteSet(S \ {x})
    BY FS_RemoveElement
  <2>5. Total(f, S \ {x}) \in Nat
    BY <2>4, TotalType
  <2> QED
    BY <1>2, <2>1, <2>2, <2>3, <2>5
<1>3. ASSUME x \notin S PROVE Total(g, S) = Total(f, S)
  <2>1. \A y \in S : f[y] = g[y]
    BY <1>3
  <2>2. Total(f, S) = Total(g, S)
    BY <2>1, TotalSame
  <2> QED
    BY <2>2
<1> QED
  BY <1>2, <1>3

(***************************************************************************)
(* What changes hands between two holders leaves the total alone.          *)
(***************************************************************************)
LEMMA TotalMove ==
  ASSUME NEW S, IsFiniteSet(S), NEW f, NEW g, NEW x \in S, NEW y \in S, x # y,
         \A z \in S : f[z] \in Nat /\ g[z] \in Nat,
         \A z \in S \ {x, y} : g[z] = f[z],
         g[x] + g[y] = f[x] + f[y]
  PROVE  Total(g, S) = Total(f, S)
<1> DEFINE R == S \ {x}
<1>1. IsFiniteSet(R)
  BY FS_RemoveElement
<1>2. Total(g, R) = Total(f, R) + g[y] - f[y]
  <2> y \in R  OBVIOUS
  <2>1. \A z \in R : f[z] \in Nat /\ g[z] \in Nat
    OBVIOUS
  <2>2. \A z \in R \ {y} : g[z] = f[z]
    OBVIOUS
  <2> HIDE DEF R
  <2> QED  BY <1>1, <2>1, <2>2, TotalUpdate
<1>3. Total(f, S) = Total(f, R) + f[x] /\ Total(g, S) = Total(g, R) + g[x]
  BY TotalSplit
<1>4. Total(f, R) \in Nat
  BY <1>1, TotalType
<1> QED
  BY <1>2, <1>3, <1>4

(***************************************************************************)
(* No holder has more than the total.                                      *)
(***************************************************************************)
LEMMA TotalBounds ==
  ASSUME NEW S, IsFiniteSet(S), NEW f, \A y \in S : f[y] \in Nat, NEW x \in S
  PROVE  f[x] <= Total(f, S)
<1>1. IsFiniteSet(S \ {x})
  BY FS_RemoveElement
<1>2. Total(f, S \ {x}) \in Nat
  BY <1>1, TotalType
<1> QED
  BY <1>2, TotalSplit

(***************************************************************************)
(* The total of a function that is zero everywhere is zero.                *)
(***************************************************************************)
LEMMA TotalZero ==
  ASSUME NEW S, NEW f, \A x \in S : f[x] = 0
  PROVE  Total(f, S) = 0
<1>1. \A x \in S : UnitsOf(f, x) = {}
  BY DEF UnitsOf
<1>2. Units(f, S) = {}
  BY <1>1 DEF Units
<1> QED
  BY <1>2, FS_EmptySet DEF Total
=============================================================================
