---------------------------- MODULE AdviceProofs ----------------------------
(***************************************************************************)
(* Theorems about Advice and the rules of Strategy it decides by, for every *)
(* value of the constants: any market and book, whatever a model says, any *)
(* number of endpoints, formats, permits, rounds and cycles.               *)
(*                                                                         *)
(* First the rules, which are pure: what lists in an order and sums are,   *)
(* that the cohort keeps the holdings, and that what is bought has         *)
(* confidence and fits the budgets.  Then the cycle: which decision an     *)
(* answer is, who holds which permit.                                      *)
(***************************************************************************)
EXTENDS Advice, FiniteSetTheorems, SequenceTheorems, TLAPS

-----------------------------------------------------------------------------
(* Orders: what InOrder lists. *)

\* A strict total order of S.
IsOrder(S, before) ==
  /\ \A s \in S : <<s, s>> \notin before
  /\ \A s, t \in S : s # t => <<s, t>> \in before \/ <<t, s>> \in before
  /\ \A s, t, u \in S : <<s, t>> \in before /\ <<t, u>> \in before => <<s, u>> \in before

Behind(S, before, s) == {t \in S : <<t, s>> \in before}

\* Of two elements the one that comes first has fewer before it.
LEMMA FewerBefore ==
  ASSUME NEW S, NEW before, IsFiniteSet(S), IsOrder(S, before), NEW s \in S, NEW t \in S
  PROVE  /\ Cardinality(Behind(S, before, s)) \in 0 .. Cardinality(S) - 1
         /\ <<s, t>> \in before =>
              Cardinality(Behind(S, before, s)) < Cardinality(Behind(S, before, t))
<1>. DEFINE a == Behind(S, before, s)
            b == Behind(S, before, t)
<1>1. a \subseteq S \ {s} /\ b \subseteq S
  BY DEF Behind, IsOrder
<1>2. IsFiniteSet(S \ {s}) /\ Cardinality(S \ {s}) = Cardinality(S) - 1 /\ Cardinality(S) \in Nat
  BY FS_RemoveElement, FS_CardinalityType
<1>3. /\ IsFiniteSet(a) /\ IsFiniteSet(b) /\ Cardinality(a) \in Nat /\ Cardinality(b) \in Nat
      /\ Cardinality(a) <= Cardinality(S) - 1
  BY <1>1, <1>2, FS_Subset, FS_CardinalityType
<1>4. <<s, t>> \in before => a \subseteq b /\ s \in b /\ s \notin a
  BY DEF Behind, IsOrder
<1>. HIDE DEF a, b
<1>5. <<s, t>> \in before => Cardinality(a) < Cardinality(b)
  <2>1. <<s, t>> \in before => Cardinality(a) <= Cardinality(b) /\ Cardinality(a) # Cardinality(b)
    BY <1>3, <1>4, FS_Subset
  <2>. QED  BY <1>3, <2>1
<1>. QED  BY <1>2, <1>3, <1>5 DEF a, b

\* InOrder lists every element once, at the place the order gives it.
LEMMA Listed ==
  ASSUME NEW S, NEW before, IsFiniteSet(S), IsOrder(S, before)
  PROVE  /\ Cardinality(S) \in Nat
         /\ InOrder(S, before) \in [1 .. Cardinality(S) -> S]
         /\ \A n \in 1 .. Cardinality(S) :
              Cardinality(Behind(S, before, InOrder(S, before)[n])) = n - 1
         /\ \A s \in S : /\ Cardinality(Behind(S, before, s)) + 1 \in 1 .. Cardinality(S)
                         /\ InOrder(S, before)[Cardinality(Behind(S, before, s)) + 1] = s
<1>. DEFINE card == Cardinality(S)
            rank == [s \in S |-> Cardinality(Behind(S, before, s)) + 1]
<1>1. card \in Nat
  BY FS_CardinalityType
<1>2. \A s \in S : Cardinality(Behind(S, before, s)) \in 0 .. card - 1
  BY FewerBefore
<1>3. \A s \in S : rank[s] = Cardinality(Behind(S, before, s)) + 1
  OBVIOUS
<1>4. rank \in [S -> 1 .. card]
  <2>1. \A s \in S : Cardinality(Behind(S, before, s)) + 1 \in 1 .. card
    BY <1>1, <1>2
  <2>. QED  BY <2>1
<1>5. \A s, t \in S : rank[s] = rank[t] => s = t
  <2>1. SUFFICES ASSUME NEW s \in S, NEW t \in S, rank[s] = rank[t], s # t PROVE FALSE
    OBVIOUS
  <2>2. <<s, t>> \in before \/ <<t, s>> \in before
    BY <2>1 DEF IsOrder
  <2>3. PICK a \in Int : a = Cardinality(Behind(S, before, s))
    BY <1>1, <1>2
  <2>4. PICK b \in Int : b = Cardinality(Behind(S, before, t))
    BY <1>1, <1>2
  <2>5. a = b
    BY <1>3, <2>1, <2>3, <2>4
  <2>6. ~(a < b) /\ ~(b < a)
    BY <2>5
  <2>. QED  BY <2>2, <2>3, <2>4, <2>6, FewerBefore
<1>6. rank \in Injection(S, 1 .. card)
  BY <1>4, <1>5 DEF Injection, IsInjective
<1>7. IsFiniteSet(1 .. card) /\ Cardinality(1 .. card) = card
  BY <1>1, FS_Interval
<1>. HIDE DEF rank, card
<1>8. rank \in Surjection(S, 1 .. card)
  <2>1. Cardinality(S) = Cardinality(1 .. card)
    BY <1>7 DEF card
  <2>. QED  BY <1>6, <1>7, <2>1, FS_Injection
<1>9. \A n \in 1 .. card : \E s \in S : rank[s] = n
  BY <1>8 DEF Surjection
<1>10. \A s \in S : Cardinality(Behind(S, before, s)) + 1 = rank[s]
                   /\ Cardinality(Behind(S, before, s)) \in Int
  BY <1>1, <1>2, <1>3
<1>11. \A n \in 1 .. card : InOrder(S, before)[n] \in S /\ rank[InOrder(S, before)[n]] = n
  <2>1. TAKE n \in 1 .. card
  <2>2. InOrder(S, before)[n] = CHOOSE s \in S : Cardinality(Behind(S, before, s)) = n - 1
    BY DEF InOrder, Behind, card
  <2>3. \E s \in S : Cardinality(Behind(S, before, s)) = n - 1
    <3>1. PICK s \in S : rank[s] = n
      BY <1>9
    <3>2. PICK b \in Int : b = Cardinality(Behind(S, before, s))
      BY <1>10
    <3>3. b = n - 1
      BY <1>10, <3>1, <3>2
    <3>. QED  BY <3>2, <3>3
  <2>4. /\ InOrder(S, before)[n] \in S
        /\ Cardinality(Behind(S, before, InOrder(S, before)[n])) = n - 1
    BY <2>2, <2>3
  <2>. QED  BY <1>1, <1>10, <2>4
<1>12. InOrder(S, before) \in [1 .. card -> S]
  BY <1>11 DEF InOrder, card
<1>13. \A s \in S : rank[s] \in 1 .. card /\ InOrder(S, before)[rank[s]] = s
  BY <1>4, <1>5, <1>11
<1>14. \A n \in 1 .. card : Cardinality(Behind(S, before, InOrder(S, before)[n])) = n - 1
  BY <1>1, <1>10, <1>11
<1>. QED  BY <1>1, <1>10, <1>12, <1>13, <1>14 DEF card

\* A finite set of integers that is not empty has a least and a greatest element.
LEMMA Extremes ==
  ASSUME NEW T \in SUBSET Int, IsFiniteSet(T), T # {}
  PROVE  /\ \E m \in T : \A k \in T : m <= k
         /\ \E m \in T : \A k \in T : k <= m
<1>. DEFINE up == {p \in T \X T : p[1] < p[2]}
            down == {p \in T \X T : p[1] > p[2]}
<1>1. \A s, t \in T : (<<s, t>> \in up <=> s < t) /\ (<<s, t>> \in down <=> s > t)
  OBVIOUS
<1>. HIDE DEF up, down
<1>2. IsOrder(T, up) /\ IsOrder(T, down)
  BY <1>1 DEF IsOrder
<1>3. 1 \in 1 .. Cardinality(T)
  BY FS_EmptySet, FS_CardinalityType
<1>4. ASSUME NEW before, IsOrder(T, before)
      PROVE  \E m \in T : Behind(T, before, m) = {}
  <2>1. /\ InOrder(T, before)[1] \in T
        /\ Cardinality(Behind(T, before, InOrder(T, before)[1])) = 1 - 1
    <3>1. /\ InOrder(T, before) \in [1 .. Cardinality(T) -> T]
          /\ \A n \in 1 .. Cardinality(T) :
               Cardinality(Behind(T, before, InOrder(T, before)[n])) = n - 1
      BY <1>4, Listed
    <3>. QED  BY <1>3, <3>1
  <2>2. PICK m \in T : Cardinality(Behind(T, before, m)) = 0
    <3>1. 1 - 1 = 0
      OBVIOUS
    <3>. QED  BY <2>1, <3>1
  <2>3. IsFiniteSet(Behind(T, before, m))
    BY FS_Subset DEF Behind
  <2>. QED  BY <2>2, <2>3, FS_EmptySet
<1>5. PICK m \in T : Behind(T, up, m) = {}
  BY <1>2, <1>4
<1>6. PICK n \in T : Behind(T, down, n) = {}
  BY <1>2, <1>4
<1>7. \A k \in T : <<k, m>> \notin up /\ <<k, n>> \notin down
  BY <1>5, <1>6 DEF Behind
<1>8. ASSUME NEW k \in T PROVE m <= k /\ k <= n
  <2>1. k \in Int /\ m \in Int /\ n \in Int
    OBVIOUS
  <2>2. ~(k < m) /\ ~(k > n)
    BY <1>1, <1>7
  <2>. QED  BY <2>1, <2>2
<1>. QED  BY <1>8

-----------------------------------------------------------------------------
(* Sums. *)

\* The units SumOf counts.
Units(w, S) == UNION {{n} \X (1 .. w[n]) : n \in S}

\* Membership in the units.
LEMMA UnitsMembers ==
  ASSUME NEW w, NEW S, NEW x
  PROVE  x \in Units(w, S) <=> \E n \in S : \E v \in 1 .. w[n] : x = <<n, v>>
BY DEF Units

\* The units of one amount.
LEMMA UnitsOfOne ==
  ASSUME NEW n, NEW a \in Nat
  PROVE  IsFiniteSet({n} \X (1 .. a)) /\ Cardinality({n} \X (1 .. a)) = a
<1>1. IsFiniteSet(1 .. a) /\ Cardinality(1 .. a) = a
  BY FS_Interval
<1>2. IsFiniteSet({n}) /\ Cardinality({n}) = 1
  BY FS_Singleton
<1>3. /\ IsFiniteSet({n} \X (1 .. a))
      /\ Cardinality({n} \X (1 .. a)) = Cardinality({n}) * Cardinality(1 .. a)
  BY <1>1, <1>2, FS_Product
<1>. QED  BY <1>1, <1>2, <1>3

\* A sum of finitely many amounts is a number.
LEMMA SumIsNat ==
  ASSUME NEW S, IsFiniteSet(S), NEW w, \A n \in S : w[n] \in Nat
  PROVE  IsFiniteSet(Units(w, S)) /\ SumOf(w, S) = Cardinality(Units(w, S)) /\ SumOf(w, S) \in Nat
<1>. DEFINE f == [n \in S |-> {n} \X (1 .. w[n])]
            R == {f[n] : n \in S}
<1>1. f \in Surjection(S, R)
  BY DEF Surjection
<1>2. \A n \in S : IsFiniteSet(f[n])
  BY UnitsOfOne
<1>3. UNION R = Units(w, S)
  BY DEF Units
<1>. HIDE DEF f, R
<1>4. IsFiniteSet(R)
  BY <1>1, FS_Surjection
<1>5. IsFiniteSet(Units(w, S))
  <2>1. \A T \in R : IsFiniteSet(T)
    BY <1>2 DEF R
  <2>. QED  BY <1>3, <1>4, <2>1, FS_UNION
<1>6. SumOf(w, S) = Cardinality(Units(w, S))
  BY DEF SumOf, Units
<1>. QED  BY <1>5, <1>6, FS_CardinalityType

\* The sum of nothing.
LEMMA SumOfNone ==
  ASSUME NEW w
  PROVE  SumOf(w, {}) = 0
<1>1. UNION {{n} \X (1 .. w[n]) : n \in {}} = {}
  OBVIOUS
<1>. QED  BY <1>1, FS_EmptySet DEF SumOf

\* One amount more.
LEMMA SumWithOne ==
  ASSUME NEW S, IsFiniteSet(S), NEW x, x \notin S, NEW w, \A n \in S \cup {x} : w[n] \in Nat
  PROVE  SumOf(w, S \cup {x}) = SumOf(w, S) + w[x]
<1>. DEFINE A == Units(w, S)
            B == {x} \X (1 .. w[x])
<1>1. w[x] \in Nat
  OBVIOUS
<1>2. IsFiniteSet(S \cup {x})
  BY FS_AddElement
<1>3. /\ IsFiniteSet(A) /\ SumOf(w, S) = Cardinality(A) /\ SumOf(w, S) \in Nat
      /\ SumOf(w, S \cup {x}) = Cardinality(Units(w, S \cup {x}))
  BY <1>2, SumIsNat
<1>4. IsFiniteSet(B) /\ Cardinality(B) = w[x]
  BY <1>1, UnitsOfOne
<1>5. \A y : y \in Units(w, S \cup {x}) <=> y \in A \/ y \in B
  BY UnitsMembers
<1>6. \A y : ~(y \in A /\ y \in B)
  BY UnitsMembers
<1>. HIDE DEF A, B
<1>7. Units(w, S \cup {x}) = A \cup B /\ A \cap B = {}
  BY <1>5, <1>6
<1>8. Cardinality(A \cup B) = Cardinality(A) + Cardinality(B) - Cardinality(A \cap B)
  BY <1>3, <1>4, FS_Union
<1>9. Cardinality(A \cap B) = 0
  BY <1>7, FS_EmptySet
<1>10. PICK a \in Nat : a = Cardinality(A) /\ a = SumOf(w, S)
  BY <1>3
<1>11. Cardinality(A \cup B) = a + w[x] - 0
  BY <1>4, <1>8, <1>9, <1>10
<1>12. SumOf(w, S \cup {x}) = a + w[x] - 0
  BY <1>3, <1>7, <1>11
<1>. QED  BY <1>1, <1>10, <1>12

\* Fewer and smaller amounts have no larger sum.
LEMMA SumIsMonotone ==
  ASSUME NEW S, IsFiniteSet(S), NEW T \in SUBSET S, NEW u, NEW w,
         \A n \in S : w[n] \in Nat, \A n \in T : u[n] \in Nat /\ u[n] <= w[n]
  PROVE  SumOf(u, T) <= SumOf(w, S)
<1>1. IsFiniteSet(T)
  BY FS_Subset
<1>2. /\ IsFiniteSet(Units(w, S)) /\ SumOf(w, S) = Cardinality(Units(w, S))
      /\ SumOf(u, T) = Cardinality(Units(u, T))
  BY <1>1, SumIsNat
<1>3. \A n \in T : \A v \in 1 .. u[n] : v \in 1 .. w[n]
  OBVIOUS
<1>4. Units(u, T) \subseteq Units(w, S)
  BY <1>3, UnitsMembers
<1>. QED  BY <1>2, <1>4, FS_Subset

\* A sum does not depend on how the amounts are numbered.
LEMMA SumRenumbered ==
  ASSUME NEW D, IsFiniteSet(D), NEW T, NEW f \in [D -> T],
         \A a, b \in D : f[a] = f[b] => a = b, \A t \in T : \E a \in D : f[a] = t,
         NEW u, NEW w, \A a \in D : u[a] \in Nat /\ u[a] = w[f[a]]
  PROVE  SumOf(u, D) = SumOf(w, T)
<1>. DEFINE A == Units(u, D)
            B == Units(w, T)
            g == [y \in A |-> <<f[y[1]], y[2]>>]
<1>1. f \in Surjection(D, T)
  BY DEF Surjection
<1>2. IsFiniteSet(T)
  BY <1>1, FS_Surjection
<1>3. \A t \in T : w[t] \in Nat
  OBVIOUS
<1>4. IsFiniteSet(A) /\ SumOf(u, D) = Cardinality(A) /\ SumOf(w, T) = Cardinality(B)
  BY <1>2, <1>3, SumIsNat
<1>5. \A a, v : <<a, v>> \in A <=> a \in D /\ v \in 1 .. u[a]
  BY UnitsMembers
<1>6. \A t, v : <<t, v>> \in B <=> t \in T /\ v \in 1 .. w[t]
  BY UnitsMembers
<1>7. \A y \in A : \E a \in D : \E v \in 1 .. u[a] : y = <<a, v>>
  BY UnitsMembers
<1>8. \A y \in B : \E t \in T : \E v \in 1 .. w[t] : y = <<t, v>>
  BY UnitsMembers
<1>9. \A a \in D : \A v \in 1 .. u[a] : <<a, v>> \in A /\ g[<<a, v>>] = <<f[a], v>>
  BY <1>5
<1>10. g \in [A -> B]
  BY <1>6, <1>7, <1>9
<1>11. \A y, z \in A : g[y] = g[z] => y = z
  <2>1. SUFFICES ASSUME NEW y \in A, NEW z \in A, g[y] = g[z] PROVE y = z
    OBVIOUS
  <2>2. PICK a \in D : \E v \in 1 .. u[a] : y = <<a, v>>
    BY <1>7
  <2>3. PICK v \in 1 .. u[a] : y = <<a, v>>
    BY <2>2
  <2>4. PICK b \in D : \E x \in 1 .. u[b] : z = <<b, x>>
    BY <1>7
  <2>5. PICK x \in 1 .. u[b] : z = <<b, x>>
    BY <2>4
  <2>6. <<f[a], v>> = <<f[b], x>>
    BY <1>9, <2>1, <2>3, <2>5
  <2>7. f[a] = f[b] /\ v = x
    BY <2>6
  <2>. QED  BY <2>3, <2>5, <2>7
<1>12. \A z \in B : \E y \in A : g[y] = z
  <2>1. SUFFICES ASSUME NEW z \in B PROVE \E y \in A : g[y] = z
    OBVIOUS
  <2>2. PICK t \in T : \E v \in 1 .. w[t] : z = <<t, v>>
    BY <1>8
  <2>3. PICK v \in 1 .. w[t] : z = <<t, v>>
    BY <2>2
  <2>4. PICK a \in D : f[a] = t
    OBVIOUS
  <2>5. v \in 1 .. u[a]
    BY <2>4
  <2>6. <<a, v>> \in A /\ g[<<a, v>>] = z
    BY <1>9, <2>3, <2>4, <2>5
  <2>. QED  BY <2>6
<1>. HIDE DEF A, B, g
<1>13. g \in Bijection(A, B)
  BY <1>10, <1>11, <1>12 DEF Bijection, Injection, Surjection, IsInjective
<1>14. ExistsBijection(A, B)
  BY <1>13 DEF ExistsBijection
<1>15. Cardinality(A) = Cardinality(B)
  BY <1>4, <1>14, FS_Bijection
<1>. QED  BY <1>4, <1>15

-----------------------------------------------------------------------------
(* The instruments that are looked at. *)

\* The smaller of two numbers.
LEMMA MinOfTwo ==
  ASSUME NEW a \in Int, NEW b \in Int
  PROVE  Min({a, b}) = IF a <= b THEN a ELSE b
BY DEF Min

\* The cohort is a list of known symbols, and what is held or always wanted comes first in it:
\* as long as all of it fits, none of it is missing (universe.resolve).
LEMMA CohortHoldsTheBook ==
  ASSUME NEW sc \in Scenes
  PROVE  /\ Cohort(sc) \in Seq(Symbols)
         /\ Cardinality(Pinned(sc)) <= MaxSymbols => Pinned(sc) \subseteq Range(Cohort(sc))
<1>. DEFINE held == Held(sc)
            pinned == Pinned(sc)
            kept == {s \in sc.tracked \cup Always \cup held : s \notin Never \/ s \in held}
            before == Before(kept, Always \cup held)
            order == InOrder(kept, before)
            size == Min({Cardinality(kept), MaxSymbols})
<1>1. /\ held \subseteq Symbols /\ sc.tracked \subseteq Symbols /\ MaxSymbols \in Nat
      /\ IsFiniteSet(Symbols) /\ Symbols \subseteq Nat /\ Always \subseteq Symbols
  BY AdviceAssumption, StrategyAssumption DEF Held
<1>2. Cohort(sc) = SubSeq(order, 1, size)
  BY DEF Cohort, Resolved
<1>3. /\ IsFiniteSet(kept) /\ IsFiniteSet(pinned) /\ kept \subseteq Nat /\ pinned \subseteq kept
      /\ kept \subseteq Symbols /\ \A s \in kept : s \in pinned <=> s \in Always \cup held
  <2>1. /\ kept \subseteq Symbols /\ pinned \subseteq kept
        /\ \A s \in kept : s \in pinned <=> s \in Always \cup held
    BY <1>1 DEF Pinned
  <2>2. pinned \subseteq Symbols
    BY <2>1
  <2>3. IsFiniteSet(kept) /\ IsFiniteSet(pinned)
    BY <1>1, <2>1, <2>2, FS_Subset
  <2>. QED  BY <1>1, <2>1, <2>3
<1>. HIDE DEF kept, held, pinned
<1>4. \A s, t \in kept : <<s, t>> \in before <=> \/ s \in pinned /\ t \notin pinned
                                                 \/ (s \in pinned <=> t \in pinned) /\ s < t
  BY <1>3 DEF Before
<1>. HIDE DEF before
<1>5. IsOrder(kept, before)
  <2>1. \A s \in kept : <<s, s>> \notin before
    BY <1>3, <1>4
  <2>2. \A s, t \in kept : s # t => <<s, t>> \in before \/ <<t, s>> \in before
    BY <1>3, <1>4
  <2>3. \A s, t, u \in kept : <<s, t>> \in before /\ <<t, u>> \in before => <<s, u>> \in before
    BY <1>3, <1>4
  <2>. QED  BY <2>1, <2>2, <2>3 DEF IsOrder
<1>6. /\ Cardinality(kept) \in Nat /\ order \in [1 .. Cardinality(kept) -> kept]
      /\ \A s \in kept : /\ Cardinality(Behind(kept, before, s)) + 1 \in 1 .. Cardinality(kept)
                         /\ order[Cardinality(Behind(kept, before, s)) + 1] = s
  BY <1>3, <1>5, Listed
<1>7. size \in Nat /\ size <= Cardinality(kept) /\ size \in {Cardinality(kept), MaxSymbols}
  BY <1>1, <1>6, MinOfTwo
<1>. HIDE DEF order, size
<1>8. \A i \in 1 .. size : order[i] \in Symbols
  <2>1. \A i \in 1 .. size : i \in 1 .. Cardinality(kept)
    BY <1>6, <1>7
  <2>. QED  BY <1>3, <1>6, <2>1
<1>9. /\ SubSeq(order, 1, size) \in Seq(Symbols)
      /\ Len(SubSeq(order, 1, size)) = size
      /\ \A i \in 1 .. size : SubSeq(order, 1, size)[i] = order[i]
  <2>1. /\ SubSeq(order, 1, size) \in Seq(Symbols)
        /\ Len(SubSeq(order, 1, size)) = IF 1 <= size THEN size - 1 + 1 ELSE 0
        /\ \A i \in 1 .. size - 1 + 1 : SubSeq(order, 1, size)[i] = order[1 + i - 1]
    BY <1>7, <1>8, SubSeqProperties
  <2>. QED  BY <1>7, <2>1
<1>10. ASSUME Cardinality(pinned) <= MaxSymbols, NEW s \in pinned
       PROVE  s \in Range(Cohort(sc))
  <2>1. PICK n \in Nat : n = Cardinality(Behind(kept, before, s))
    <3>1. IsFiniteSet(Behind(kept, before, s))
      BY <1>3, FS_Subset DEF Behind
    <3>. QED  BY <3>1, FS_CardinalityType
  <2>2. Behind(kept, before, s) \subseteq pinned \ {s}
    <3>1. s \in kept /\ <<s, s>> \notin before
      BY <1>3, <1>5, <1>10 DEF IsOrder
    <3>2. \A t \in kept : <<t, s>> \in before => t \in pinned
      BY <1>4, <1>10, <3>1
    <3>. QED  BY <3>1, <3>2 DEF Behind
  <2>3. /\ IsFiniteSet(pinned \ {s}) /\ Cardinality(pinned \ {s}) = Cardinality(pinned) - 1
        /\ Cardinality(pinned) \in Nat /\ Cardinality(pinned) <= Cardinality(kept)
    BY <1>3, <1>10, FS_RemoveElement, FS_CardinalityType, FS_Subset
  <2>4. n <= Cardinality(pinned) - 1
    BY <2>1, <2>2, <2>3, FS_Subset
  <2>5. n + 1 \in 1 .. size
    BY <1>1, <1>6, <1>7, <1>10, <2>3, <2>4
  <2>6. SubSeq(order, 1, size)[n + 1] = s
    BY <1>3, <1>6, <1>9, <1>10, <2>1, <2>5
  <2>7. n + 1 \in DOMAIN SubSeq(order, 1, size)
    BY <1>9, <2>5, LenProperties
  <2>. QED  BY <1>2, <2>6, <2>7 DEF Range
<1>. QED  BY <1>2, <1>9, <1>10 DEF pinned

-----------------------------------------------------------------------------
(* Stops. *)

\* A holding at or under its stop is sold whole, whatever confidence is asked for.
LEMMA StopsSell ==
  ASSUME NEW sc \in Scenes, NEW confidence, Cardinality(Pinned(sc)) <= MaxSymbols,
         NEW s \in Held(sc), sc.market[s].close <= sc.book.held[s].stop
  PROVE  /\ s \in DOMAIN Decide(sc, confidence).exits
         /\ Decide(sc, confidence).exits[s] = "full"
<1>. DEFINE cohort == Cohort(sc)
            managed == DOMAIN sc.book.held \cap Range(cohort)
            exits == [t \in managed |-> Exit(sc.book.held[t], sc.market[t], sc.panic)]
<1>1. s \in managed
  BY CohortHoldsTheBook DEF Held, Pinned
<1>2. Exit(sc.book.held[s], sc.market[s], sc.panic) = "full"
  <2>1. sc.market[s].close \in Nat /\ sc.book.held[s].stop \in Nat
    BY AdviceAssumption DEF Held, Market, Holding
  <2>. QED  BY <2>1 DEF Exit
<1>3. Decide(sc, confidence).exits = [t \in {u \in managed : exits[u] # "none"} |-> exits[t]]
  BY DEF Decide, Decision
<1>. HIDE DEF managed
<1>. QED  BY <1>1, <1>2, <1>3

-----------------------------------------------------------------------------
(* What is bought. *)

\* f numbers the elements of T.
Numbers(f, T) ==
  /\ f \in [1 .. Cardinality(T) -> T]
  /\ \A a, b \in 1 .. Cardinality(T) : f[a] = f[b] => a = b
  /\ \A t \in T : \E a \in 1 .. Cardinality(T) : f[a] = t

\* AtPositions lists what is at each of the positions, once.
LEMMA PickedOnce ==
  ASSUME NEW seq, NEW T \in SUBSET Int, IsFiniteSet(T)
  PROVE  /\ Cardinality(T) \in Nat
         /\ \E f : /\ Numbers(f, T)
                   /\ AtPositions(seq, T) = [n \in 1 .. Cardinality(T) |-> seq[f[n]]]
<1>. DEFINE up == {p \in T \X T : p[1] < p[2]}
            f == InOrder(T, up)
            card == Cardinality(T)
<1>1. \A s, t \in T : <<s, t>> \in up <=> s < t
  OBVIOUS
<1>2. AtPositions(seq, T) = [n \in DOMAIN f |-> seq[f[n]]]
  BY DEF AtPositions
<1>. HIDE DEF up
<1>3. IsOrder(T, up)
  BY <1>1 DEF IsOrder
<1>4. /\ card \in Nat /\ f \in [1 .. card -> T]
      /\ \A n \in 1 .. card : Cardinality(Behind(T, up, f[n])) = n - 1
      /\ \A s \in T : /\ Cardinality(Behind(T, up, s)) + 1 \in 1 .. card
                      /\ f[Cardinality(Behind(T, up, s)) + 1] = s
  BY <1>3, Listed
<1>. HIDE DEF f, card
<1>5. \A a, b \in 1 .. card : f[a] = f[b] => a = b
  <2>1. SUFFICES ASSUME NEW a \in 1 .. card, NEW b \in 1 .. card, f[a] = f[b] PROVE a = b
    OBVIOUS
  <2>2. a - 1 = b - 1
    BY <1>4, <2>1
  <2>3. a \in Int /\ b \in Int
    OBVIOUS
  <2>. QED  BY <2>2, <2>3
<1>6. \A t \in T : \E a \in 1 .. card : f[a] = t
  BY <1>4
<1>7. DOMAIN f = 1 .. card
  BY <1>4
<1>8. Numbers(f, T)
  BY <1>4, <1>5, <1>6 DEF Numbers, card
<1>9. AtPositions(seq, T) = [n \in 1 .. Cardinality(T) |-> seq[f[n]]]
  BY <1>2, <1>7 DEF card
<1>. QED  BY <1>4, <1>8, <1>9 DEF card

\* The pass over the month's turnover takes exactly what fits behind what it took before.
LEMMA TakesSomething ==
  ASSUME NEW N \in Nat, NEW traded \in [1 .. N -> Nat], NEW left
  PROVE  \E taken \in SUBSET (1 .. N) : Takes(traded, left, taken)
<1>. DEFINE Fits(taken, n) == traded[n] + SumOf(traded, {k \in taken : k < n}) <= left
            G == {m \in 0 .. N : \E taken \in SUBSET (1 .. m) :
                                   \A n \in 1 .. m : n \in taken <=> Fits(taken, n)}
            B == (0 .. N) \ G
<1>1. 0 \in G
  <2>1. {} \in SUBSET (1 .. 0) /\ \A n \in 1 .. 0 : n \in {} <=> Fits({}, n)
    OBVIOUS
  <2>2. 0 \in 0 .. N
    OBVIOUS
  <2>. QED  BY <2>1, <2>2
<1>2. ASSUME NEW m \in 1 .. N, m - 1 \in G PROVE m \in G
  <2>1. PICK taken \in SUBSET (1 .. m - 1) :
          \A n \in 1 .. m - 1 : n \in taken <=> Fits(taken, n)
    BY <1>2
  <2>. DEFINE more == IF Fits(taken, m) THEN taken \cup {m} ELSE taken
  <2>2. more \in SUBSET (1 .. m)
    OBVIOUS
  <2>3. \A n \in 1 .. m : {k \in more : k < n} = {k \in taken : k < n}
    OBVIOUS
  <2>4. \A n \in 1 .. m : Fits(more, n) <=> Fits(taken, n)
    BY <2>3
  <2>5. m \in more <=> Fits(taken, m)
    OBVIOUS
  <2>6. \A n \in 1 .. m - 1 : n \in more <=> n \in taken
    OBVIOUS
  <2>. HIDE DEF more, Fits
  <2>7. \A n \in 1 .. m : n = m \/ n \in 1 .. m - 1
    OBVIOUS
  <2>8. \A n \in 1 .. m : n \in more <=> Fits(more, n)
    BY <2>1, <2>4, <2>5, <2>6, <2>7
  <2>9. m \in 0 .. N
    OBVIOUS
  <2>. QED  BY <2>2, <2>8, <2>9
<1>. HIDE DEF G
<1>3. B = {}
  <2>1. SUFFICES ASSUME B # {} PROVE FALSE
    OBVIOUS
  <2>2. IsFiniteSet(0 .. N)
    BY FS_Interval
  <2>3. IsFiniteSet(B) /\ B \in SUBSET Int
    BY <2>2, FS_Subset
  <2>4. PICK m \in B : \A k \in B : m <= k
    BY <2>1, <2>3, Extremes
  <2>5. m \in 1 .. N /\ m - 1 \in 0 .. N /\ m - 1 \notin B
    BY <1>1, <2>4
  <2>. QED  BY <1>2, <2>4, <2>5
<1>4. N \in G
  BY <1>3
<1>5. DOMAIN traded = 1 .. N
  OBVIOUS
<1>. QED  BY <1>4, <1>5 DEF G, Takes

\* What it takes fits altogether.
LEMMA TakenFits ==
  ASSUME NEW N \in Nat, NEW traded \in [1 .. N -> Nat], NEW left \in Nat,
         NEW taken \in SUBSET (1 .. N), Takes(traded, left, taken)
  PROVE  IsFiniteSet(taken) /\ SumOf(traded, taken) <= left
<1>1. IsFiniteSet(taken)
  <2>1. IsFiniteSet(1 .. N)
    BY FS_Interval
  <2>. QED  BY <2>1, FS_Subset
<1>2. CASE taken = {}
  BY <1>1, <1>2, SumOfNone
<1>3. CASE taken # {}
  <2>1. taken \in SUBSET Int
    OBVIOUS
  <2>2. PICK m \in taken : \A k \in taken : k <= m
    BY <1>1, <1>3, <2>1, Extremes
  <2>. DEFINE rest == {k \in taken : k < m}
  <2>3. IsFiniteSet(rest) /\ m \notin rest /\ taken = rest \cup {m}
    <3>1. \A k \in taken : k < m \/ k = m
      BY <2>1, <2>2
    <3>2. rest \in SUBSET taken /\ m \notin rest
      BY <2>1
    <3>3. IsFiniteSet(rest)
      BY <1>1, <3>2, FS_Subset
    <3>. QED  BY <3>1, <3>2, <3>3
  <2>4. traded[m] + SumOf(traded, rest) <= left
    BY DEF Takes
  <2>. HIDE DEF rest
  <2>5. \A n \in rest \cup {m} : traded[n] \in Nat
    BY <2>3
  <2>6. SumOf(traded, rest \cup {m}) = SumOf(traded, rest) + traded[m]
    BY <2>3, <2>5, SumWithOne
  <2>7. SumOf(traded, rest) \in Nat /\ traded[m] \in Nat
    BY <2>3, <2>5, SumIsNat
  <2>8. SumOf(traded, taken) = SumOf(traded, rest) + traded[m]
    BY <2>3, <2>6
  <2>. QED  BY <1>1, <2>4, <2>7, <2>8
<1>. QED  BY <1>2, <1>3

Orders == [s : Symbols, weight : Nat]

\* What fits the budget is a list of what was sized, none larger, that fits the room there is.
LEMMA BudgetFits ==
  ASSUME NEW sized \in Seq(Orders), NEW room \in Int
  PROVE  LET fitted == FitToBudget(sized, room)
             weights == [n \in DOMAIN fitted |-> fitted[n].weight]
         IN  /\ fitted \in Seq(Orders)
             /\ \A n \in DOMAIN fitted : n \in DOMAIN sized /\ fitted[n].s = sized[n].s
             /\ SumOf(weights, DOMAIN fitted) <= Plus(room)
<1>. DEFINE all == Min({MaxGross, Plus(room)})
            weights == [n \in DOMAIN sized |-> sized[n].weight]
            most == Min({Len(sized), MaxPositions})
            prefixes == {k \in 0 .. most : SumOf(weights, 1 .. k) <= all}
            whole == Max(prefixes)
            left == all - SumOf(weights, 1 .. whole)
            cut == << [s |-> sized[whole + 1].s, weight |-> left] >>
            head == SubSeq(sized, 1, whole)
            tail == IF whole < most /\ left >= MinWeight THEN cut ELSE << >>
            fitted == FitToBudget(sized, room)
            got == [n \in DOMAIN fitted |-> fitted[n].weight]
<1>1. /\ MaxGross \in Nat /\ MaxPositions \in Nat /\ MinWeight \in Nat
      /\ Plus(room) \in Nat /\ Len(sized) \in Nat
  BY StrategyAssumption, LenProperties DEF Plus
<1>2. all \in Nat /\ all <= Plus(room) /\ most \in 0 .. Len(sized)
  BY <1>1, MinOfTwo
<1>3. fitted = head \o tail
  BY DEF FitToBudget
<1>4. DOMAIN sized = 1 .. Len(sized) /\ \A n \in 1 .. Len(sized) : sized[n] \in Orders
  BY LenProperties
<1>5. \A n \in 1 .. Len(sized) : weights[n] \in Nat /\ weights[n] = sized[n].weight
  BY <1>4 DEF Orders
<1>. HIDE DEF weights, all, most, fitted
<1>6. whole \in 0 .. most /\ SumOf(weights, 1 .. whole) <= all
  <2>1. 0 \in prefixes
    <3>1. SumOf(weights, 1 .. 0) = 0
      <4>1. 1 .. 0 = {}
        OBVIOUS
      <4>. QED  BY <4>1, SumOfNone
    <3>. QED  BY <1>2, <3>1
  <2>2. prefixes \in SUBSET (0 .. most) /\ IsFiniteSet(0 .. most)
    BY <1>2, FS_Interval
  <2>. HIDE DEF prefixes
  <2>3. IsFiniteSet(prefixes) /\ prefixes \in SUBSET Int
    <3>1. IsFiniteSet(prefixes)
      BY <2>2, FS_Subset
    <3>2. 0 .. most \subseteq Int
      BY <1>2
    <3>. QED  BY <2>2, <3>1, <3>2
  <2>4. \E m \in prefixes : \A k \in prefixes : k <= m
    BY <2>1, <2>3, Extremes
  <2>5. whole \in prefixes
    BY <2>4 DEF Max
  <2>. QED  BY <2>5 DEF prefixes
<1>. HIDE DEF whole
<1>7. whole \in Nat /\ whole <= Len(sized)
  BY <1>2, <1>6
<1>8. /\ IsFiniteSet(1 .. whole) /\ SumOf(weights, 1 .. whole) \in Nat
      /\ left \in Nat
  <2>1. IsFiniteSet(1 .. whole)
    BY <1>7, FS_Interval
  <2>2. SumOf(weights, 1 .. whole) \in Nat
    BY <1>5, <1>7, <2>1, SumIsNat
  <2>. QED  BY <1>2, <1>6, <2>1, <2>2
<1>. HIDE DEF left
<1>9. /\ head \in Seq(Orders) /\ Len(head) = whole
      /\ \A n \in 1 .. whole : head[n] = sized[n]
  <2>1. \A n \in 1 .. whole : sized[n] \in Orders
    BY <1>4, <1>7
  <2>2. /\ head \in Seq(Orders) /\ Len(head) = IF 1 <= whole THEN whole - 1 + 1 ELSE 0
        /\ \A n \in 1 .. whole - 1 + 1 : head[n] = sized[1 + n - 1]
    BY <1>7, <2>1, SubSeqProperties
  <2>. QED  BY <1>7, <2>2
<1>. HIDE DEF head
<1>10. ASSUME NEW m \in whole .. Len(sized), DOMAIN fitted = 1 .. m,
              \A n \in 1 .. whole : fitted[n] = sized[n]
       PROVE  SumOf(got, 1 .. whole) \in Nat /\ SumOf(got, 1 .. whole) <= SumOf(weights, 1 .. whole)
  <2>1. \A n \in 1 .. whole : weights[n] \in Nat /\ got[n] = weights[n]
    BY <1>5, <1>7, <1>10
  <2>. HIDE DEF got
  <2>2. \A n \in 1 .. whole : got[n] \in Nat /\ got[n] <= weights[n]
    BY <2>1
  <2>. QED  BY <1>8, <2>1, <2>2, SumIsMonotone, SumIsNat
<1>11. CASE ~(whole < most /\ left >= MinWeight)
  <2>1. fitted = head
    BY <1>3, <1>9, <1>11, ConcatEmptySeq
  <2>2. DOMAIN fitted = 1 .. whole
    BY <1>9, <2>1, LenProperties
  <2>3. \A n \in DOMAIN fitted : n \in DOMAIN sized /\ fitted[n].s = sized[n].s
    BY <1>4, <1>7, <1>9, <2>1, <2>2
  <2>4. SumOf(got, 1 .. whole) \in Nat /\ SumOf(got, 1 .. whole) <= SumOf(weights, 1 .. whole)
    BY <1>7, <1>9, <1>10, <2>1, <2>2
  <2>. HIDE DEF got
  <2>5. SumOf(got, DOMAIN fitted) <= Plus(room)
    BY <1>1, <1>2, <1>6, <1>8, <2>2, <2>4
  <2>. QED  BY <1>9, <2>1, <2>3, <2>5 DEF got, fitted
<1>12. CASE whole < most /\ left >= MinWeight
  <2>1. whole + 1 \in 1 .. Len(sized)
    BY <1>2, <1>7, <1>12
  <2>2. cut \in Seq(Orders) /\ Len(cut) = 1 /\ cut[1] = [s |-> sized[whole + 1].s, weight |-> left]
    BY <1>4, <1>8, <2>1 DEF Orders
  <2>3. fitted = head \o cut
    BY <1>3, <1>12
  <2>. HIDE DEF cut
  <2>4. /\ fitted \in Seq(Orders) /\ Len(fitted) = whole + 1
        /\ \A n \in 1 .. whole + 1 : fitted[n] = IF n <= whole THEN head[n] ELSE cut[n - whole]
    <3>1. /\ head \o cut \in Seq(Orders) /\ Len(head \o cut) = Len(head) + Len(cut)
          /\ \A i \in 1 .. Len(head) + Len(cut) :
               (head \o cut)[i] = IF i <= Len(head) THEN head[i] ELSE cut[i - Len(head)]
      BY <1>9, <2>2, ConcatProperties
    <3>2. Len(head) = whole /\ Len(cut) = 1
      BY <1>9, <2>2
    <3>. HIDE DEF fitted
    <3>. QED  BY <2>3, <3>1, <3>2
  <2>5. DOMAIN fitted = 1 .. whole + 1
    BY <2>4, LenProperties
  <2>6. \A n \in 1 .. whole : fitted[n] = sized[n]
    BY <1>7, <1>9, <2>4
  <2>7. fitted[whole + 1] = [s |-> sized[whole + 1].s, weight |-> left]
    BY <1>7, <2>2, <2>4
  <2>8. \A n \in DOMAIN fitted : n \in DOMAIN sized /\ fitted[n].s = sized[n].s
    <3>1. \A n \in 1 .. whole + 1 : n \in 1 .. whole \/ n = whole + 1
      BY <1>7
    <3>. QED  BY <1>4, <1>7, <2>1, <2>5, <2>6, <2>7, <3>1
  <2>9. SumOf(got, 1 .. whole) \in Nat /\ SumOf(got, 1 .. whole) <= SumOf(weights, 1 .. whole)
    BY <1>7, <1>10, <2>1, <2>5, <2>6
  <2>10. \A n \in 1 .. whole + 1 : got[n] \in Nat
    <3>1. \A n \in 1 .. whole + 1 : fitted[n] \in Orders
      BY <2>4, LenProperties
    <3>. QED  BY <2>5, <3>1 DEF Orders
  <2>11. got[whole + 1] = left
    BY <1>7, <2>5, <2>7
  <2>. HIDE DEF got
  <2>12. /\ (1 .. whole) \cup {whole + 1} = 1 .. whole + 1
         /\ whole + 1 \notin 1 .. whole
    BY <1>7
  <2>13. SumOf(got, 1 .. whole + 1) = SumOf(got, 1 .. whole) + left
    <3>1. \A n \in (1 .. whole) \cup {whole + 1} : got[n] \in Nat
      BY <2>10, <2>12
    <3>2. SumOf(got, (1 .. whole) \cup {whole + 1}) = SumOf(got, 1 .. whole) + got[whole + 1]
      BY <1>8, <2>12, <3>1, SumWithOne
    <3>. QED  BY <2>11, <2>12, <3>2
  <2>14. PICK a \in Nat, b \in Nat : a = SumOf(got, 1 .. whole) /\ b = SumOf(weights, 1 .. whole)
    BY <1>8, <2>9
  <2>15. left = all - b
    BY <2>14 DEF left
  <2>16. SumOf(got, DOMAIN fitted) <= Plus(room)
    BY <1>1, <1>2, <2>5, <2>9, <2>13, <2>14, <2>15
  <2>. QED  BY <2>4, <2>8, <2>16 DEF got, fitted
<1>. QED  BY <1>11, <1>12

\* A book's weights and what it has invested are numbers.
LEMMA BookIsTyped ==
  ASSUME NEW sc \in Scenes
  PROVE  /\ \A s : Weight(sc.book, s) \in Nat
         /\ Invested(sc.book) \in Nat /\ sc.book.turnover \in Nat
<1>. DEFINE w == [s \in DOMAIN sc.book.held |-> sc.book.held[s].weight]
<1>1. /\ sc.book.held \in [DOMAIN sc.book.held -> Holding] /\ sc.book.turnover \in Nat
      /\ DOMAIN sc.book.held \subseteq Symbols /\ IsFiniteSet(Symbols)
  BY AdviceAssumption, StrategyAssumption
<1>2. \A s \in DOMAIN sc.book.held : sc.book.held[s].weight \in Nat
  BY <1>1 DEF Holding
<1>3. IsFiniteSet(DOMAIN sc.book.held)
  BY <1>1, FS_Subset
<1>4. \A s \in DOMAIN sc.book.held : w[s] \in Nat
  BY <1>2
<1>. HIDE DEF w
<1>5. SumOf(w, DOMAIN sc.book.held) \in Nat
  BY <1>3, <1>4, SumIsNat
<1>. QED  BY <1>1, <1>2, <1>5 DEF Weight, Invested, w

\* Sizes are weights; no confidence is no size.
LEMMA SizeIsNat ==
  ASSUME NEW m \in Market, NEW exposure \in Nat, NEW confidence \in Int
  PROVE  /\ Size(m, exposure, confidence) \in Nat
         /\ confidence = 0 => Size(m, exposure, confidence) = 0
<1>1. m.cap \in Nat /\ Full \in Nat \ {0} /\ Calm \in Nat \ {0} /\ MinWeight \in Nat
  BY StrategyAssumption DEF Market
<1>2. Plus(confidence) \in Nat /\ (confidence = 0 => Plus(confidence) = 0)
  BY DEF Plus
<1>3. PICK c \in Nat : c = Min({Full, Plus(confidence)}) /\ (confidence = 0 => c = 0)
  BY <1>1, <1>2, MinOfTwo
<1>4. PICK d \in Nat \ {0} : d = Calm * Full
  BY <1>1
<1>5. PICK a \in Nat : a = m.cap * exposure
  BY <1>1
<1>6. PICK b \in Nat : b = a * c /\ (c = 0 => b = 0)
  <2>1. a * c \in Nat /\ (c = 0 => a * c = 0)
    OBVIOUS
  <2>. QED  BY <2>1
<1>7. b \div d \in Nat /\ (b = 0 => b \div d = 0)
  OBVIOUS
<1>8. Size(m, exposure, confidence) = IF b \div d < MinWeight THEN 0 ELSE b \div d
  BY <1>3, <1>4, <1>5, <1>6 DEF Size
<1>. QED  BY <1>3, <1>6, <1>7, <1>8

\* Confidences that decide: a number for each symbol somebody spoke of.
Confident(confidence) == \A s \in DOMAIN confidence : confidence[s] \in Int

\* Whoever is bought has confidence, if it was asked for; what is bought fits the room beside
\* the book, and what is traded for it the rest of the month (_pick_entries, fit_to_budget).
LEMMA EntriesAreSound ==
  ASSUME NEW sc \in Scenes, NEW confidence, Confident(confidence)
  PROVE  LET bought == Decide(sc, confidence).entries
             book == sc.book
             at == [n \in DOMAIN bought |-> Weight(book, bought[n].s)]
             added == [n \in DOMAIN bought |-> Plus(bought[n].weight - at[n])]
             traded == [n \in DOMAIN bought |-> Distance(bought[n].weight, at[n])]
         IN  /\ bought \in Seq(Orders)
             /\ \A n \in DOMAIN bought :
                  bought[n].s \in DOMAIN confidence => confidence[bought[n].s] # 0
             /\ SumOf(added, DOMAIN bought) <= Plus(MaxGross - Invested(book))
             /\ SumOf(traded, DOMAIN bought) <= Plus(TurnoverCap - book.turnover)
<1>. DEFINE book == sc.book
            cohort == Cohort(sc)
            market == sc.market
            screened == Screened(cohort, market, DOMAIN book.held)
            exposure == IF sc.panic THEN Panic ELSE Calm
            managed == DOMAIN book.held \cap Range(cohort)
            exits == [s \in managed |-> Exit(book.held[s], market[s], sc.panic)]
            exiting == {s \in managed : exits[s] = "full"}
            target == [s \in Range(cohort) |-> Sized(s, market, book, exposure, confidence, exiting)]
            score == [n \in DOMAIN cohort |-> market[cohort[n]].score]
            scored == {n \in screened : target[cohort[n]] > 0}
            before == {p \in scored \X scored : \/ score[p[1]] > score[p[2]]
                                                \/ score[p[1]] = score[p[2]] /\ p[1] < p[2]}
            ranked == InOrder(scored, before)
            sized == [n \in DOMAIN ranked |-> [s |-> cohort[ranked[n]], weight |-> target[cohort[ranked[n]]]]]
            room == MaxGross - Invested(book)
            fitted == FitToBudget(sized, room)
            bought == Decide(sc, confidence).entries
<1>1. bought = WithinTurnover(fitted, book)
  BY DEF Decide, Decision, Entries
<1>2. /\ cohort \in Seq(Symbols) /\ DOMAIN cohort = 1 .. Len(cohort) /\ Len(cohort) \in Nat
      /\ \A n \in DOMAIN cohort : cohort[n] \in Symbols /\ cohort[n] \in Range(cohort)
  BY CohortHoldsTheBook, LenProperties DEF Range
<1>3. \A s \in Symbols : market[s] \in Market
  BY AdviceAssumption
<1>4. exposure \in Nat
  BY StrategyAssumption
<1>. HIDE DEF cohort, exposure, exiting
<1>5. ASSUME NEW s \in Range(cohort)
      PROVE  /\ target[s] \in Nat
             /\ s \in DOMAIN confidence /\ confidence[s] = 0 => target[s] = 0
  <2>1. s \in Symbols
    BY <1>2 DEF Range
  <2>. DEFINE c == IF s \in DOMAIN confidence THEN confidence[s] ELSE Full
              size == Size(market[s], exposure, c)
  <2>2. c \in Int
    BY StrategyAssumption DEF Confident
  <2>3. size \in Nat /\ (c = 0 => size = 0)
    BY <1>3, <1>4, <2>1, <2>2, SizeIsNat
  <2>4. target[s] \in {0, size}
    BY DEF Sized
  <2>5. s \in DOMAIN confidence /\ confidence[s] = 0 => c = 0
    OBVIOUS
  <2>. HIDE DEF c, size, target
  <2>. QED  BY <2>3, <2>4, <2>5
<1>. HIDE DEF target
<1>6. /\ scored \subseteq DOMAIN cohort /\ IsFiniteSet(scored) /\ scored \in SUBSET Int
      /\ \A n \in scored : score[n] \in Nat
  <2>1. scored \subseteq DOMAIN cohort
    BY DEF Screened
  <2>2. IsFiniteSet(DOMAIN cohort)
    BY <1>2, FS_Interval
  <2>3. \A n \in DOMAIN cohort : score[n] \in Nat
    BY <1>2, <1>3 DEF Market
  <2>. HIDE DEF scored, score
  <2>. QED  BY <1>2, <2>1, <2>2, <2>3, FS_Subset
<1>7. \A n \in scored : target[cohort[n]] > 0
  OBVIOUS
<1>. HIDE DEF scored, score
<1>8. IsOrder(scored, before)
  <2>1. \A s, t \in scored : <<s, t>> \in before <=> \/ score[s] > score[t]
                                                     \/ score[s] = score[t] /\ s < t
    OBVIOUS
  <2>. HIDE DEF before
  <2>2. \A s \in scored : <<s, s>> \notin before
    BY <1>6, <2>1
  <2>3. \A s, t \in scored : s # t => <<s, t>> \in before \/ <<t, s>> \in before
    BY <1>6, <2>1
  <2>4. \A s, t, u \in scored : <<s, t>> \in before /\ <<t, u>> \in before => <<s, u>> \in before
    BY <1>6, <2>1
  <2>. QED  BY <2>2, <2>3, <2>4 DEF IsOrder
<1>. HIDE DEF before
<1>9. Cardinality(scored) \in Nat /\ ranked \in [1 .. Cardinality(scored) -> scored]
  BY <1>6, <1>8, Listed
<1>. HIDE DEF ranked
<1>10. \A n \in DOMAIN ranked : /\ sized[n] = [s |-> cohort[ranked[n]], weight |-> target[cohort[ranked[n]]]]
                                /\ ranked[n] \in scored /\ sized[n] \in Orders
                                /\ sized[n].s \in DOMAIN confidence => confidence[sized[n].s] # 0
  <2>. TAKE n \in DOMAIN ranked
  <2>1. PICK s : s = cohort[ranked[n]]
    OBVIOUS
  <2>2. ranked[n] \in scored
    BY <1>9
  <2>3. s \in Symbols /\ s \in Range(cohort) /\ target[s] > 0
    BY <1>2, <1>6, <1>7, <2>1, <2>2
  <2>4. target[s] \in Nat /\ (s \in DOMAIN confidence /\ confidence[s] = 0 => target[s] = 0)
    BY <1>5, <2>3
  <2>5. sized[n] = [s |-> s, weight |-> target[s]]
    BY <2>1
  <2>6. s \in DOMAIN confidence => confidence[s] # 0
    BY <2>3, <2>4
  <2>. QED  BY <2>1, <2>2, <2>3, <2>4, <2>5, <2>6 DEF Orders
<1>11. sized \in Seq(Orders) /\ DOMAIN sized = DOMAIN ranked
  <2>1. sized \in [1 .. Cardinality(scored) -> Orders]
    BY <1>9, <1>10
  <2>2. DOMAIN sized = DOMAIN ranked
    OBVIOUS
  <2>. HIDE DEF sized
  <2>. QED  BY <1>9, <2>1, <2>2, SeqDef
<1>. HIDE DEF sized
<1>12. /\ book.turnover \in Nat /\ room \in Int /\ \A s : Weight(book, s) \in Nat
       /\ TurnoverCap - book.turnover \in Int
  <2>1. Invested(book) \in Nat /\ MaxGross \in Nat /\ TurnoverCap \in Nat /\ book.turnover \in Nat
    BY StrategyAssumption, BookIsTyped
  <2>. QED  BY <2>1, BookIsTyped
<1>. HIDE DEF room
<1>. DEFINE weights == [n \in DOMAIN fitted |-> fitted[n].weight]
            moved == [n \in DOMAIN fitted |-> Distance(fitted[n].weight, Weight(book, fitted[n].s))]
            quota == Plus(TurnoverCap - book.turnover)
            taken == CHOOSE t \in SUBSET DOMAIN fitted : Takes(moved, quota, t)
            N == Len(fitted)
<1>13. /\ fitted \in Seq(Orders)
       /\ \A n \in DOMAIN fitted : n \in DOMAIN sized /\ fitted[n].s = sized[n].s
       /\ SumOf(weights, DOMAIN fitted) <= Plus(room)
  BY <1>11, <1>12, BudgetFits
<1>14. bought = AtPositions(fitted, taken)
  BY <1>1 DEF WithinTurnover
<1>. HIDE DEF fitted, bought, book
<1>15. /\ N \in Nat /\ DOMAIN fitted = 1 .. N
       /\ \A n \in 1 .. N : fitted[n] \in Orders /\ fitted[n].s \in Symbols /\ fitted[n].weight \in Nat
  <2>1. N \in Nat /\ DOMAIN fitted = 1 .. N /\ fitted \in [1 .. N -> Orders]
    BY <1>13, LenProperties
  <2>. QED  BY <2>1 DEF Orders
<1>16. \A a, b \in Nat : Distance(a, b) \in Nat
  BY DEF Distance
<1>17. \A a, b \in Nat : Plus(a - b) \in Nat /\ Plus(a - b) <= a
  BY DEF Plus
<1>18. moved \in [1 .. N -> Nat] /\ quota \in Nat
  <2>1. \A n \in 1 .. N : moved[n] \in Nat
    BY <1>12, <1>15, <1>16
  <2>2. quota \in Nat
    BY <1>12 DEF Plus
  <2>. QED  BY <1>15, <2>1, <2>2
<1>. HIDE DEF quota, N
<1>19. taken \in SUBSET (1 .. N) /\ Takes(moved, quota, taken)
  <2>1. \E t \in SUBSET (1 .. N) : Takes(moved, quota, t)
    BY <1>15, <1>18, TakesSomething
  <2>. QED  BY <1>15, <2>1
<1>. HIDE DEF taken
<1>20. IsFiniteSet(taken) /\ SumOf(moved, taken) <= quota
  BY <1>15, <1>18, <1>19, TakenFits
<1>. DEFINE card == Cardinality(taken)
<1>21. /\ card \in Nat
       /\ \E f : /\ Numbers(f, taken)
                 /\ AtPositions(fitted, taken) = [n \in 1 .. card |-> fitted[f[n]]]
  <2>1. taken \in SUBSET Int
    BY <1>15, <1>19
  <2>. QED  BY <1>20, <2>1, PickedOnce
<1>. HIDE DEF card
<1>22. PICK f : Numbers(f, taken) /\ AtPositions(fitted, taken) = [n \in 1 .. card |-> fitted[f[n]]]
  BY <1>21
<1>. DEFINE D == 1 .. card
<1>23. /\ f \in [D -> taken]
       /\ \A a, b \in D : f[a] = f[b] => a = b
       /\ \A t \in taken : \E a \in D : f[a] = t
  BY <1>22 DEF Numbers, card
<1>24. /\ DOMAIN bought = D
       /\ \A n \in D : bought[n] = fitted[f[n]] /\ f[n] \in 1 .. N
  BY <1>14, <1>19, <1>22, <1>23
<1>25. bought \in Seq(Orders)
  <2>1. bought \in [1 .. card -> Orders]
    BY <1>14, <1>15, <1>22, <1>24
  <2>. QED  BY <1>21, <2>1, SeqDef
<1>26. \A n \in DOMAIN bought : bought[n].s \in DOMAIN confidence => confidence[bought[n].s] # 0
  BY <1>10, <1>11, <1>13, <1>15, <1>24
<1>27. IsFiniteSet(D) /\ IsFiniteSet(1 .. N)
  <2>1. IsFiniteSet(1 .. card)
    BY <1>21, FS_Interval
  <2>2. IsFiniteSet(1 .. N)
    BY <1>15, FS_Interval
  <2>. QED  BY <2>1, <2>2
<1>. DEFINE at == [n \in DOMAIN bought |-> Weight(book, bought[n].s)]
            added == [n \in DOMAIN bought |-> Plus(bought[n].weight - at[n])]
            traded == [n \in DOMAIN bought |-> Distance(bought[n].weight, at[n])]
            own == [n \in DOMAIN bought |-> bought[n].weight]
<1>28. \A n \in D : /\ own[n] \in Nat /\ own[n] = weights[f[n]]
                             /\ traded[n] \in Nat /\ traded[n] = moved[f[n]]
                             /\ added[n] \in Nat /\ added[n] <= own[n]
  BY <1>12, <1>15, <1>16, <1>17, <1>24
<1>29. \A n \in 1 .. N : weights[n] \in Nat /\ weights[n] <= weights[n]
  BY <1>15
<1>. HIDE DEF D, at, added, traded, own, moved, weights
<1>30. SumOf(traded, D) = SumOf(moved, taken)
  <2>1. \A a \in D : traded[a] \in Nat /\ traded[a] = moved[f[a]]
    BY <1>28
  <2>. QED  BY <1>23, <1>27, <2>1, SumRenumbered
<1>31. SumOf(own, D) = SumOf(weights, taken)
  <2>1. \A a \in D : own[a] \in Nat /\ own[a] = weights[f[a]]
    BY <1>28
  <2>. QED  BY <1>23, <1>27, <2>1, SumRenumbered
<1>32. SumOf(added, D) <= SumOf(own, D)
  BY <1>27, <1>28, SumIsMonotone
<1>33. SumOf(weights, taken) <= SumOf(weights, 1 .. N)
  BY <1>19, <1>27, <1>29, SumIsMonotone
<1>34. /\ SumOf(added, D) \in Nat /\ SumOf(own, D) \in Nat
       /\ SumOf(weights, 1 .. N) \in Nat
  BY <1>27, <1>28, <1>29, SumIsNat
<1>35. Plus(room) \in Nat
  BY <1>12 DEF Plus
<1>36. SumOf(added, DOMAIN bought) <= Plus(room)
  <2>1. PICK a \in Nat : a = SumOf(added, D)
    BY <1>34
  <2>2. PICK b \in Nat : b = SumOf(own, D)
    BY <1>34
  <2>3. PICK c \in Nat : c = SumOf(weights, 1 .. N)
    BY <1>34
  <2>4. a <= b /\ b <= c /\ c <= Plus(room)
    BY <1>13, <1>15, <1>31, <1>32, <1>33, <2>1, <2>2, <2>3
  <2>. QED  BY <1>24, <1>35, <2>1, <2>4
<1>37. SumOf(traded, DOMAIN bought) <= quota
  BY <1>20, <1>24, <1>30
<1>. QED  BY <1>25, <1>26, <1>36, <1>37 DEF at, added, traded, bought, book, room, quota

-----------------------------------------------------------------------------
(* What the model's answer leaves of a candidate. *)

\* The verdict that counts is the first one on a symbol.
LEMMA FirstVerdict ==
  ASSUME NEW verdicts \in Lists, NEW s \in {v.s : v \in Range(verdicts)}
  PROVE  \E n \in DOMAIN verdicts : /\ First(verdicts, s) = verdicts[n] /\ verdicts[n].s = s
                                    /\ verdicts[n] \in Said
                                    /\ \A k \in 1 .. n - 1 : verdicts[k].s # s
<1>. DEFINE on == {n \in DOMAIN verdicts : verdicts[n].s = s}
<1>1. PICK N \in Nat : verdicts \in [1 .. N -> Said]
  BY AdviceAssumption DEF Lists
<1>2. on # {} /\ on \in SUBSET Int
  BY <1>1 DEF Range
<1>3. IsFiniteSet(on)
  <2>1. IsFiniteSet(1 .. N)
    BY FS_Interval
  <2>2. on \subseteq 1 .. N
    BY <1>1
  <2>. HIDE DEF on
  <2>. QED  BY <2>1, <2>2, FS_Subset
<1>4. PICK m \in on : \A k \in on : m <= k
  BY <1>2, <1>3, Extremes
<1>5. m \in DOMAIN verdicts /\ verdicts[m].s = s /\ m \in 1 .. N
  BY <1>1
<1>6. \A k \in 1 .. m - 1 : verdicts[k].s # s
  BY <1>1, <1>4, <1>5
<1>7. \E n \in DOMAIN verdicts : verdicts[n].s = s /\ \A k \in 1 .. n - 1 : verdicts[k].s # s
  BY <1>5, <1>6
<1>8. PICK n \in DOMAIN verdicts : /\ First(verdicts, s) = verdicts[n] /\ verdicts[n].s = s
                                   /\ \A k \in 1 .. n - 1 : verdicts[k].s # s
  BY <1>7 DEF First
<1>. QED  BY <1>1, <1>8

\* A confidence is between none and full.
LEMMA ConfidenceBounded ==
  ASSUME NEW v \in Said
  PROVE  Confidence(v) \in 0 .. Full /\ (~v.take => Confidence(v) = 0)
<1>1. v.raw \in Int /\ Full \in Nat
  BY AdviceAssumption, StrategyAssumption
<1>2. Plus(v.raw) \in Nat
  BY <1>1 DEF Plus
<1>3. Min({Full, Plus(v.raw)}) \in 0 .. Full
  BY <1>1, <1>2, MinOfTwo
<1>. QED  BY <1>1, <1>3 DEF Confidence

\* What is weighed is no more than it was.
LEMMA WeighedBounded ==
  ASSUME NEW c \in 0 .. Full, NEW earned \in 0 .. Full
  PROVE  (c * earned) \div Full \in 0 .. Full /\ (c = 0 => (c * earned) \div Full = 0)
<1>1. Full \in Nat \ {0}
  BY StrategyAssumption
<1>2. PICK b \in Nat : b = c * earned /\ (c = 0 => b = 0) /\ b <= Full * Full
  <2>1. c * earned \in Nat /\ (c = 0 => c * earned = 0)
    BY <1>1
  <2>2. c * earned <= Full * earned /\ Full * earned <= Full * Full
    BY <1>1
  <2>3. Full * earned \in Nat /\ Full * Full \in Nat
    BY <1>1
  <2>. QED  BY <2>1, <2>2, <2>3
<1>3. b \div Full \in Nat /\ b \div Full <= Full /\ (b = 0 => b \div Full = 0)
  BY <1>1, <1>2
<1>. QED  BY <1>1, <1>2, <1>3

\* The guardrails answer for every candidate, and with zero for one the model did not endorse
\* (guardrails.apply, _confidence).
LEMMA GuardrailsHold ==
  ASSUME NEW sc \in Scenes, NEW verdicts \in Lists, NEW d, NEW earned \in 0 .. Full
  PROVE  LET conf == Deweighted(Guarded(verdicts, sc, d), earned)
         IN  /\ conf \in [Candidates(d) -> 0 .. Full]
             /\ \A s \in Candidates(d) :
                  ~(\E n \in DOMAIN verdicts :
                      /\ verdicts[n].s = s /\ verdicts[n].take
                      /\ \A k \in 1 .. n - 1 : verdicts[k].s # s)
                  => conf[s] = 0
<1>. DEFINE clamped == Clamped(verdicts, sc, d)
            guarded == Guarded(verdicts, sc, d)
            conf == Deweighted(guarded, earned)
            Endorses(s) == \E n \in DOMAIN verdicts :
                             /\ verdicts[n].s = s /\ verdicts[n].take
                             /\ \A k \in 1 .. n - 1 : verdicts[k].s # s
<1>1. 0 \in 0 .. Full
  BY StrategyAssumption
<1>2. DOMAIN clamped = ({v.s : v \in Range(verdicts)} \cap Candidates(d)) \ DOMAIN d.exits
  BY DEF Clamped
<1>3. ASSUME NEW s \in DOMAIN clamped
      PROVE  clamped[s] \in 0 .. Full /\ (~Endorses(s) => clamped[s] = 0)
  <2>1. s \in {v.s : v \in Range(verdicts)}
    BY <1>2
  <2>2. PICK n \in DOMAIN verdicts : /\ First(verdicts, s) = verdicts[n] /\ verdicts[n].s = s
                                     /\ verdicts[n] \in Said
                                     /\ \A k \in 1 .. n - 1 : verdicts[k].s # s
    BY <2>1, FirstVerdict
  <2>3. clamped[s] \in {0, Confidence(verdicts[n])}
    BY <2>2 DEF Clamped
  <2>4. Confidence(verdicts[n]) \in 0 .. Full /\ (~verdicts[n].take => Confidence(verdicts[n]) = 0)
    BY <2>2, ConfidenceBounded
  <2>5. ~Endorses(s) => ~verdicts[n].take
    BY <2>2
  <2>. HIDE DEF clamped, Endorses
  <2>. QED  BY <1>1, <2>3, <2>4, <2>5
<1>4. Candidates(d) \cup DOMAIN clamped = Candidates(d)
  BY <1>2
<1>5. guarded = [s \in Candidates(d) |->
                   IF sc.book.cashLow \/ s \notin DOMAIN clamped THEN 0 ELSE clamped[s]]
  BY <1>4 DEF Guarded
<1>. HIDE DEF clamped, Endorses
<1>6. \A s \in Candidates(d) : guarded[s] \in 0 .. Full /\ (~Endorses(s) => guarded[s] = 0)
  BY <1>1, <1>3, <1>5
<1>7. DOMAIN guarded = Candidates(d)
  BY <1>5
<1>. HIDE DEF guarded
<1>8. conf = [s \in Candidates(d) |-> (guarded[s] * earned) \div Full]
  BY <1>7 DEF Deweighted
<1>9. \A s \in Candidates(d) : (guarded[s] * earned) \div Full \in 0 .. Full
                               /\ (guarded[s] = 0 => (guarded[s] * earned) \div Full = 0)
  BY <1>6, WeighedBounded
<1>. QED  BY <1>6, <1>8, <1>9 DEF Endorses, guarded

-----------------------------------------------------------------------------
(* The invariant. *)

Asked == Symbols \X Kinds \X (1 .. LastDay)
CallRecords == [by : Nat, tier : {"quick", "deep"}, what : Asked \cup {<< >>},
                at : {"queued", "waiting", "posted"}, ep : Nat, rung : 1 .. Rungs]

\* What the variables hold, apart from the calls.
StateTyped ==
  /\ scene \in Scenes /\ day \in 1 .. LastDay /\ notes \subseteq Asked
  /\ cycle \in [n : 0 .. MaxCycles, at : Stages, proposal : {NoProposal, Proposed(scene)},
                round : Nat, said : Lists]
  /\ IF cycle.at = "idle" THEN cycle.n = 0
     ELSE cycle.n > 0 /\ cycle.proposal = Proposed(scene)
  /\ outcome \in [used : BOOLEAN, said : Lists, confidence : Confidences]

\* Every call is of a cycle that has begun; one to the deep model is of the cycle that waits for
\* it, and then that cycle waits for nobody else.
CallsTyped ==
  /\ calls \subseteq CallRecords
  /\ \A c \in calls : /\ c.by \in 1 .. cycle.n /\ c.ep \in DOMAIN Tier(c)
                      /\ c.tier = "quick" => c.what \in Asked
                      /\ c.tier = "deep" => c.what = << >> /\ Mine(c) /\ cycle.at = "deep"
                      /\ Mine(c) /\ cycle.at = "deep" => c.tier = "deep"

\* Nothing is asked twice by the same cycle at a time.
AskedOnce ==
  \A c, d \in calls : c.by = d.by /\ c.tier = d.tier /\ c.what = d.what => c = d

\* A permit is free, held by a call that is out, or lost.
Posted(cs, e) == {c \in cs : c.at = "posted" /\ Endpoint(c) = e}
PermitsCounted ==
  /\ permits \in [Endpoints -> Nat] /\ leaked \in [Endpoints -> Nat]
  /\ \A e \in Endpoints :
       /\ IsFiniteSet(Posted(calls, e))
       /\ permits[e] + leaked[e] + Cardinality(Posted(calls, e)) = Permits[e]

\* The confidence that decided is what the guardrails left of what was said (_decide).
AdviceIsGuarded ==
  outcome.used =>
    /\ cycle.at # "idle"
    /\ \E earned \in 0 .. Full :
         outcome.confidence = Deweighted(Guarded(outcome.said, scene, cycle.proposal), earned)

CallsInv == CallsTyped /\ AskedOnce
AdviceInv == StateTyped /\ CallsInv /\ PermitsCounted /\ AdviceIsGuarded

-----------------------------------------------------------------------------
(* Steps. *)

\* A call's endpoint is one of those there are.
LEMMA EndpointOf ==
  ASSUME CallsTyped, NEW c \in calls
  PROVE  Endpoint(c) \in Endpoints /\ c \in CallRecords
<1>1. c \in CallRecords /\ c.ep \in DOMAIN Tier(c) /\ Tier(c) \in {Quick, Deep}
  BY DEF CallsTyped, Tier
<1>2. Tier(c)[c.ep] \in Range(Quick) \cup Range(Deep)
  BY <1>1 DEF Range
<1>. QED  BY <1>1, <1>2 DEF Endpoint, Endpoints

\* A call that ends, alone or with its cycle.
LEMMA CallEnds ==
  ASSUME CallsInv, NEW c \in calls, calls' = calls \ {c}, cycle'.n = cycle.n,
         cycle'.at = cycle.at \/ c.tier = "deep" \/ (Mine(c) /\ cycle'.at # "deep")
  PROVE  CallsInv'
<1>1. \A d \in calls' : d \in calls /\ d # c
  OBVIOUS
<1>2. AskedOnce'
  BY <1>1 DEF CallsInv, AskedOnce
<1>3. ASSUME NEW d \in calls'
      PROVE  /\ d \in CallRecords /\ d.by \in 1 .. cycle'.n /\ d.ep \in DOMAIN Tier(d)
             /\ d.tier = "quick" => d.what \in Asked
             /\ d.tier = "deep" => d.what = << >> /\ d.by = cycle'.n /\ cycle'.at = "deep"
             /\ d.by = cycle'.n /\ cycle'.at = "deep" => d.tier = "deep"
  <2>. USE DEF CallsInv, CallsTyped, Mine
  <2>1. /\ d \in CallRecords /\ d.by \in 1 .. cycle'.n /\ d.ep \in DOMAIN Tier(d)
        /\ d.tier = "quick" => d.what \in Asked
    BY <1>1, <1>3
  <2>2. CASE cycle'.at = cycle.at
    BY <1>1, <1>3, <2>1, <2>2
  <2>3. CASE c.tier = "deep"
    <3>1. d.tier # "deep"
      BY <1>1, <1>3, <2>3 DEF AskedOnce
    <3>2. d.by # cycle.n
      BY <1>1, <1>3, <2>3, <3>1
    <3>. QED  BY <2>1, <3>1, <3>2
  <2>4. CASE c.tier # "deep" /\ Mine(c) /\ cycle'.at # "deep"
    <3>1. cycle.at # "deep"
      BY <2>4
    <3>. QED  BY <1>1, <1>3, <2>1, <2>4, <3>1
  <2>5. c.tier \in {"quick", "deep"}
    BY DEF CallRecords
  <2>. QED  BY <2>2, <2>3, <2>4, <2>5
<1>. QED  BY <1>2, <1>3 DEF CallsInv, CallsTyped, Mine, Tier

\* A call that goes on, for the same question.
LEMMA CallGoesOn ==
  ASSUME CallsInv, NEW c \in calls, NEW d \in CallRecords, calls' = (calls \ {c}) \cup {d},
         cycle'.n = cycle.n, cycle'.at = cycle.at,
         d.by = c.by, d.tier = c.tier, d.what = c.what, d.ep \in DOMAIN Tier(d)
  PROVE  CallsInv' /\ d \notin calls \ {c}
<1>. USE DEF CallsInv
<1>1. d \notin calls \ {c}
  BY DEF AskedOnce
<1>2. AskedOnce'
  BY DEF AskedOnce
<1>3. CallsTyped'
  BY DEF CallsTyped, Mine, Tier
<1>. QED  BY <1>1, <1>2, <1>3

\* A call that is out comes back: its permit is free again, or lost.
LEMMA PermitComesBack ==
  ASSUME PermitsCounted, CallsTyped, NEW c \in calls, c.at = "posted",
         calls \ {c} \subseteq calls', \A d \in calls' \ (calls \ {c}) : d.at # "posted",
         \/ permits' = [permits EXCEPT ![Endpoint(c)] = @ + 1] /\ UNCHANGED leaked
         \/ leaked' = [leaked EXCEPT ![Endpoint(c)] = @ + 1] /\ UNCHANGED permits
  PROVE  PermitsCounted'
<1>1. Endpoint(c) \in Endpoints
  BY EndpointOf
<1>2. permits' \in [Endpoints -> Nat] /\ leaked' \in [Endpoints -> Nat]
  BY <1>1 DEF PermitsCounted
<1>3. ASSUME NEW e \in Endpoints
      PROVE  /\ IsFiniteSet(Posted(calls', e))
             /\ permits'[e] + leaked'[e] + Cardinality(Posted(calls', e)) = Permits[e]
  <2>1. Posted(calls', e) = Posted(calls, e) \ {c}
    BY DEF Posted
  <2>2. c \in Posted(calls, e) <=> e = Endpoint(c)
    BY DEF Posted
  <2>3. /\ IsFiniteSet(Posted(calls, e)) /\ Cardinality(Posted(calls, e)) \in Nat
        /\ permits[e] + leaked[e] + Cardinality(Posted(calls, e)) = Permits[e]
    BY FS_CardinalityType DEF PermitsCounted
  <2>4. /\ IsFiniteSet(Posted(calls', e))
        /\ Cardinality(Posted(calls', e)) = Cardinality(Posted(calls, e)) - (IF e = Endpoint(c) THEN 1 ELSE 0)
    <3>1. /\ IsFiniteSet(Posted(calls, e) \ {c})
          /\ Cardinality(Posted(calls, e) \ {c}) = IF c \in Posted(calls, e)
                                                   THEN Cardinality(Posted(calls, e)) - 1
                                                   ELSE Cardinality(Posted(calls, e))
      BY <2>3, FS_RemoveElement
    <3>2. IsFiniteSet(Posted(calls', e))
      BY <2>1, <3>1
    <3>3. CASE e = Endpoint(c)
      <4>1. Cardinality(Posted(calls', e)) = Cardinality(Posted(calls, e)) - 1
        BY <2>1, <2>2, <3>1, <3>3
      <4>. QED  BY <3>2, <3>3, <4>1
    <3>4. CASE e # Endpoint(c)
      <4>1. Cardinality(Posted(calls', e)) = Cardinality(Posted(calls, e))
        BY <2>1, <2>2, <3>1, <3>4
      <4>. QED  BY <2>3, <3>2, <3>4, <4>1
    <3>. QED  BY <3>3, <3>4
  <2>5. permits'[e] + leaked'[e] = permits[e] + leaked[e] + (IF e = Endpoint(c) THEN 1 ELSE 0)
    BY <1>1 DEF PermitsCounted
  <2>6. PICK a \in Nat : a = Cardinality(Posted(calls, e))
    BY <2>3
  <2>7. /\ permits[e] \in Nat /\ leaked[e] \in Nat /\ permits'[e] \in Nat /\ leaked'[e] \in Nat
        /\ Permits[e] \in Nat
    BY <1>2, AdviceAssumption DEF PermitsCounted
  <2>. QED  BY <2>3, <2>4, <2>5, <2>6, <2>7
<1>4. \A e \in Endpoints : Posted(calls, e)' = Posted(calls', e)
  BY DEF Posted, Endpoint, Tier
<1>. QED  BY <1>2, <1>3, <1>4 DEF PermitsCounted

\* Calls that are not out come and go, and no permit moves.
LEMMA PermitsStay ==
  ASSUME PermitsCounted, UNCHANGED <<permits, leaked>>,
         \A c \in calls : c.at = "posted" => c \in calls',
         \A c \in calls' : c.at = "posted" => c \in calls
  PROVE  PermitsCounted'
<1>1. \A e \in Endpoints : Posted(calls, e)' = Posted(calls, e)
  BY DEF Posted, Endpoint, Tier
<1>. QED  BY <1>1 DEF PermitsCounted

\* Nothing said, nothing decided.
LEMMA NothingSaid ==
  << >> \in Lists /\ NoConfidence \in Confidences /\ Confident(NoConfidence)
<1>1. << >> \in [1 .. 0 -> Said] /\ 0 \in 0 .. MaxSaid
  BY AdviceAssumption
<1>2. NoConfidence \in [{} -> 0 .. Full] /\ {} \in SUBSET Symbols
  BY DEF NoConfidence
<1>. QED  BY <1>1, <1>2 DEF Lists, Confidences, Confident

\* The invariant holds at the beginning.
LEMMA InitAdvice ==
  ASSUME Init
  PROVE  AdviceInv
<1>. USE DEF Init
<1>1. /\ Full \in Nat /\ LastDay \in Nat \ {0} /\ MaxCycles \in Nat
      /\ Permits \in [Endpoints -> Nat \ {0}]
  BY AdviceAssumption, StrategyAssumption
<1>2. << >> \in Lists
  BY NothingSaid
<1>3. NoConfidence \in Confidences
  BY NothingSaid
<1>4. StateTyped
  BY <1>1, <1>2, <1>3 DEF StateTyped, Stages, Ended, NoOutcome
<1>5. CallsInv
  BY DEF CallsInv, CallsTyped, AskedOnce
<1>6. PermitsCounted
  <2>1. \A e \in Endpoints : Posted(calls, e) = {}
    BY DEF Posted
  <2>2. \A e \in Endpoints : Permits[e] \in Nat
    BY <1>1
  <2>3. \A e \in Endpoints : IsFiniteSet(Posted(calls, e)) /\ Cardinality(Posted(calls, e)) = 0
    BY <2>1, FS_EmptySet
  <2>4. \A e \in Endpoints : permits[e] + leaked[e] + 0 = Permits[e]
    BY <2>2
  <2>5. permits \in [Endpoints -> Nat] /\ leaked \in [Endpoints -> Nat]
    BY <1>1
  <2>. QED  BY <2>3, <2>4, <2>5 DEF PermitsCounted
<1>7. AdviceIsGuarded
  BY DEF AdviceIsGuarded, NoOutcome
<1>. QED  BY <1>4, <1>5, <1>6, <1>7 DEF AdviceInv

\* The candidates of a decision are known symbols.
LEMMA CandidatesKnown ==
  ASSUME NEW sc \in Scenes, NEW confidence, Confident(confidence)
  PROVE  Candidates(Decide(sc, confidence)) \subseteq Symbols
<1>1. PICK bought : bought = Decide(sc, confidence).entries
  OBVIOUS
<1>2. bought \in Seq(Orders)
  BY <1>1, EntriesAreSound
<1>3. \A n \in DOMAIN bought : bought[n].s \in Symbols
  <2>1. bought \in [1 .. Len(bought) -> Orders]
    BY <1>2, LenProperties
  <2>. QED  BY <2>1 DEF Orders
<1>. QED  BY <1>1, <1>3 DEF Candidates, Range

\* A new cycle asks about the candidates the rules propose.
LEMMA StartStep ==
  ASSUME AdviceInv, Start
  PROVE  AdviceInv'
<1>. DEFINE begun == [n |-> cycle.n + 1, at |-> "analysts", proposal |-> Proposed(scene),
                      round |-> 0, said |-> << >>]
            judged == Candidates(begun.proposal)
            new == {Call(begun.n, "quick", key) :
                      key \in {<<s, k, day>> : s \in judged, k \in Kinds} \ notes}
<1>. USE DEF AdviceInv
<1>1. /\ ~Running /\ cycle.n < MaxCycles /\ outcome' = NoOutcome
      /\ cycle' = IF judged = {} THEN [begun EXCEPT !.at = "done"] ELSE begun
      /\ calls' \subseteq calls \cup new /\ calls \subseteq calls'
      /\ UNCHANGED <<scene, day, permits, leaked, notes>>
  BY DEF Start
<1>2. /\ scene \in Scenes /\ cycle.n \in 0 .. MaxCycles /\ MaxCycles \in Nat /\ day \in 1 .. LastDay
      /\ Full \in Nat /\ Rungs \in Nat \ {0}
  BY AdviceAssumption, StrategyAssumption DEF StateTyped
<1>3. judged \subseteq Symbols
  BY <1>2, NothingSaid, CandidatesKnown DEF Proposed
<1>4. << >> \in Lists /\ NoConfidence \in Confidences
  BY NothingSaid
<1>. HIDE DEF judged
<1>5. /\ cycle'.n = cycle.n + 1 /\ cycle'.at \in {"analysts", "done"}
      /\ cycle'.proposal = Proposed(scene)
      /\ cycle' \in [n : 0 .. MaxCycles, at : Stages, proposal : {NoProposal, Proposed(scene)},
                     round : Nat, said : Lists]
  BY <1>1, <1>2, <1>4 DEF Stages, Ended
<1>6. StateTyped'
  BY <1>1, <1>2, <1>4, <1>5 DEF StateTyped, NoOutcome, Proposed, Decide, Cohort, Held, Asked
<1>7. ASSUME NEW c \in new
      PROVE  /\ c \in CallRecords /\ c.by = cycle.n + 1 /\ c.tier = "quick" /\ c.at = "queued"
             /\ c.what \in Asked /\ c.ep = 1 /\ c = Call(cycle.n + 1, "quick", c.what)
  <2>1. PICK key \in {<<s, k, day>> : s \in judged, k \in Kinds} : c = Call(cycle.n + 1, "quick", key)
    OBVIOUS
  <2>2. key \in Asked
    BY <1>2, <1>3, <2>1 DEF Asked
  <2>. QED  BY <1>2, <2>1, <2>2 DEF Call, CallRecords
<1>. HIDE DEF new
<1>8. cycle.at # "deep"
  BY <1>1 DEF Running, Ended
<1>9. \A c \in calls' : c \in calls \/ c \in new
  BY <1>1
<1>10. AskedOnce'
  <2>1. \A c \in calls : c.by <= cycle.n /\ c.by \in Nat
    BY <1>2 DEF CallsInv, CallsTyped
  <2>2. \A c \in calls, d \in new : c.by # d.by
    BY <1>2, <1>7, <2>1
  <2>3. \A c, d \in new : c.what = d.what => c = d
    BY <1>7
  <2>. QED  BY <1>9, <2>2, <2>3 DEF CallsInv, AskedOnce
<1>11. 1 \in DOMAIN Quick
  <2>1. Quick \in Seq(Endpoints) /\ Quick # << >>
    BY AdviceAssumption
  <2>. QED  BY <2>1, LenProperties, EmptySeq
<1>12. ASSUME NEW c \in calls'
       PROVE  /\ c \in CallRecords /\ c.by \in 1 .. cycle'.n /\ c.ep \in DOMAIN Tier(c)
              /\ c.tier = "quick" /\ c.what \in Asked
  <2>1. CASE c \in calls
    <3>1. c.tier # "deep" /\ c.tier \in {"quick", "deep"}
      BY <1>8, <2>1 DEF CallsInv, CallsTyped, CallRecords
    <3>. QED  BY <1>2, <1>5, <2>1, <3>1 DEF CallsInv, CallsTyped
  <2>2. CASE c \in new
    BY <1>2, <1>5, <1>7, <1>11, <2>2 DEF Tier
  <2>. QED  BY <1>9, <2>1, <2>2
<1>13. CallsTyped'
  <2>1. cycle'.at # "deep"
    BY <1>5
  <2>. QED  BY <1>12, <2>1 DEF CallsTyped, Tier, Mine
<1>14. PermitsCounted'
  <2>1. \A c \in calls' : c.at = "posted" => c \in calls
    BY <1>7, <1>9
  <2>. QED  BY <1>1, <2>1, PermitsStay
<1>15. AdviceIsGuarded'
  BY <1>1 DEF AdviceIsGuarded, NoOutcome
<1>. QED  BY <1>6, <1>10, <1>13, <1>14, <1>15 DEF CallsInv

\* As long as neither changes, the outcome is what was decided of the proposal.
LEMMA GuardKept ==
  ASSUME AdviceIsGuarded, UNCHANGED <<scene, outcome>>, cycle'.proposal = cycle.proposal,
         cycle.at # "idle" => cycle'.at # "idle"
  PROVE  AdviceIsGuarded'
<1>1. ASSUME NEW earned
      PROVE  Deweighted(Guarded(outcome.said, scene, cycle.proposal), earned)'
               = Deweighted(Guarded(outcome.said, scene, cycle.proposal), earned)
  BY DEF Deweighted, Guarded, Clamped, Candidates, Held
<1>. QED  BY <1>1 DEF AdviceIsGuarded

\* A cycle that has begun and goes on keeps its number and the rules' proposal.
LEMMA CycleKeeps ==
  ASSUME StateTyped, AdviceIsGuarded, cycle.at # "idle", UNCHANGED <<scene, day>>,
         notes' \subseteq Asked,
         cycle' \in [n : 0 .. MaxCycles, at : Stages, proposal : {NoProposal, Proposed(scene)},
                     round : Nat, said : Lists],
         cycle'.n = cycle.n, cycle'.proposal = cycle.proposal, cycle'.at # "idle",
         outcome' = outcome \/ outcome' = NoOutcome
  PROVE  StateTyped' /\ AdviceIsGuarded'
<1>1. << >> \in Lists /\ NoConfidence \in Confidences
  BY NothingSaid
<1>2. StateTyped'
  <2>1. Proposed(scene)' = Proposed(scene)
    BY DEF Proposed, Decide, Cohort, Held
  <2>2. outcome' \in [used : BOOLEAN, said : Lists, confidence : Confidences]
    <3>1. NoOutcome \in [used : BOOLEAN, said : Lists, confidence : Confidences]
      BY <1>1 DEF NoOutcome
    <3>. QED  BY <3>1 DEF StateTyped
  <2>. QED  BY <2>1, <2>2 DEF StateTyped
<1>3. CASE outcome' = NoOutcome
  BY <1>2, <1>3 DEF AdviceIsGuarded, NoOutcome
<1>4. CASE outcome' = outcome
  BY <1>2, <1>4, GuardKept
<1>. QED  BY <1>2, <1>3, <1>4

\* The question to the deep model is the only one of its cycle.
LEMMA AskDeepStep ==
  ASSUME AdviceInv, AskDeep
  PROVE  AdviceInv'
<1>. USE DEF AdviceInv
<1>. DEFINE d == DeepCall(cycle.n)
<1>1. /\ cycle.at = "analysts" /\ \A c \in calls : ~Mine(c)
      /\ cycle' = [cycle EXCEPT !.at = "deep", !.round = 1] /\ calls' = calls \cup {d}
      /\ UNCHANGED <<scene, day, permits, leaked, notes, outcome>>
  BY DEF AskDeep
<1>2. StateTyped'
  BY <1>1 DEF StateTyped, Stages, Ended, Proposed, Decide, Cohort, Held
<1>3. cycle'.n = cycle.n /\ cycle'.at = "deep" /\ cycle'.proposal = cycle.proposal
  BY <1>1 DEF StateTyped
<1>4. /\ d = [by |-> cycle.n, tier |-> "deep", what |-> << >>, at |-> "waiting", ep |-> 1, rung |-> 1]
      /\ d \in CallRecords /\ 1 \in DOMAIN Deep
  <2>1. Deep \in Seq(Endpoints) /\ Deep # << >> /\ Rungs \in Nat \ {0} /\ cycle.n \in Nat
    BY AdviceAssumption DEF StateTyped
  <2>2. d = [by |-> cycle.n, tier |-> "deep", what |-> << >>, at |-> "waiting", ep |-> 1, rung |-> 1]
    BY DEF DeepCall, Call
  <2>. QED  BY <2>1, <2>2, LenProperties, EmptySeq DEF CallRecords
<1>. HIDE DEF d
<1>5. cycle.n \in 1 .. cycle.n
  BY <1>1 DEF StateTyped
<1>6. \A c \in calls : c.tier # "deep" /\ c.by # cycle.n
  BY <1>1 DEF CallsInv, CallsTyped, Mine
<1>7. CallsTyped'
  BY <1>1, <1>3, <1>4, <1>5, <1>6 DEF CallsInv, CallsTyped, Mine, Tier
<1>8. AskedOnce'
  BY <1>1, <1>4, <1>6 DEF CallsInv, AskedOnce
<1>9. PermitsCounted'
  <2>1. \A c \in calls' : c.at = "posted" => c \in calls
    BY <1>1, <1>4
  <2>. QED  BY <1>1, <2>1, PermitsStay
<1>10. AdviceIsGuarded'
  BY <1>1, <1>3, GuardKept
<1>. QED  BY <1>2, <1>7, <1>8, <1>9, <1>10 DEF CallsInv

\* What decides again is what was said, clamped and weighed.
LEMMA RedecideStep ==
  ASSUME AdviceInv, Redecide
  PROVE  AdviceInv'
<1>. USE DEF AdviceInv
<1>1. PICK earned \in 0 .. Full :
        Finish(TRUE, cycle.said, Deweighted(Guarded(cycle.said, scene, cycle.proposal), earned))
  BY DEF Redecide
<1>. DEFINE conf == Deweighted(Guarded(cycle.said, scene, cycle.proposal), earned)
<1>2. /\ cycle.at = "judged" /\ cycle' = [cycle EXCEPT !.at = "done", !.said = << >>]
      /\ outcome' = [used |-> TRUE, said |-> cycle.said, confidence |-> conf]
      /\ UNCHANGED <<scene, day, calls, permits, leaked, notes>>
  BY <1>1 DEF Redecide, Finish
<1>3. scene \in Scenes /\ cycle.said \in Lists /\ cycle.proposal = Proposed(scene) /\ << >> \in Lists
  BY <1>2, NothingSaid DEF StateTyped
<1>4. conf \in [Candidates(cycle.proposal) -> 0 .. Full]
  BY <1>3, GuardrailsHold
<1>5. Candidates(cycle.proposal) \in SUBSET Symbols
  BY <1>3, NothingSaid, CandidatesKnown DEF Proposed
<1>. HIDE DEF conf
<1>6. conf \in Confidences
  BY <1>4, <1>5 DEF Confidences
<1>7. StateTyped'
  BY <1>2, <1>3, <1>6 DEF StateTyped, Stages, Ended, Proposed, Decide, Cohort, Held
<1>8. cycle'.n = cycle.n /\ cycle'.at = "done" /\ cycle'.proposal = cycle.proposal
  BY <1>2 DEF StateTyped
<1>9. CallsTyped'
  BY <1>2, <1>8 DEF CallsInv, CallsTyped, Mine, Tier
<1>10. AskedOnce'
  BY <1>2 DEF CallsInv, AskedOnce
<1>11. PermitsCounted'
  BY <1>2, PermitsStay
<1>12. AdviceIsGuarded'
  <2>1. outcome'.said = cycle.said /\ outcome'.confidence = conf
    BY <1>2
  <2>2. Deweighted(Guarded(outcome.said, scene, cycle.proposal), earned)' = conf
    BY <1>2, <1>8, <2>1 DEF conf, Deweighted, Guarded, Clamped, Candidates, Held
  <2>. QED  BY <1>8, <2>1, <2>2 DEF AdviceIsGuarded
<1>. QED  BY <1>7, <1>9, <1>10, <1>11, <1>12 DEF CallsInv

\* Midnight changes nothing but the date.
LEMMA NextDayStep ==
  ASSUME AdviceInv, NextDay
  PROVE  AdviceInv'
<1>. USE DEF AdviceInv
<1>1. /\ day' \in 1 .. LastDay /\ UNCHANGED <<scene, cycle, calls, permits, leaked, notes, outcome>>
  BY AdviceAssumption DEF NextDay, StateTyped
<1>2. StateTyped'
  BY <1>1 DEF StateTyped, Proposed, Decide, Cohort, Held
<1>3. CallsInv'
  BY <1>1 DEF CallsInv, CallsTyped, AskedOnce, Mine, Tier
<1>4. PermitsCounted'
  BY <1>1, PermitsStay
<1>5. AdviceIsGuarded'
  BY <1>1, GuardKept
<1>. QED  BY <1>2, <1>3, <1>4, <1>5

\* A cycle that is asking has begun.
LEMMA HasBegun ==
  ASSUME StateTyped, CallsTyped, NEW c \in calls
  PROVE  /\ cycle.at # "idle" /\ cycle.n \in Nat /\ c \in CallRecords
         /\ c.tier = "deep" => cycle.at = "deep" /\ Mine(c)
         /\ c.tier # "deep" => c.tier = "quick" /\ c.what \in Asked
BY DEF StateTyped, CallsTyped, CallRecords

\* Entering the pool or going out changes the call alone.
LEMMA ProgressStep ==
  ASSUME AdviceInv, NEW c \in calls, Progress(c)
  PROVE  AdviceInv'
<1>. USE DEF AdviceInv
<1>1. /\ CallsTyped /\ cycle.at # "idle" /\ c \in CallRecords /\ c.ep \in DOMAIN Tier(c)
      /\ Endpoint(c) \in Endpoints
  BY HasBegun, EndpointOf DEF CallsInv, CallsTyped
<1>2. UNCHANGED <<scene, day, cycle, leaked, notes, outcome>>
  BY DEF Progress, Enter, Post
<1>3. StateTyped' /\ AdviceIsGuarded'
  BY <1>1, <1>2, CycleKeeps DEF StateTyped
<1>4. CASE Enter(c)
  <2>. DEFINE w == [c EXCEPT !.at = "waiting"]
  <2>1. /\ c.at = "queued" /\ calls' = (calls \ {c}) \cup {w} /\ UNCHANGED permits
    BY <1>4 DEF Enter, Replace
  <2>2. /\ w \in CallRecords /\ w.at = "waiting" /\ w.by = c.by /\ w.tier = c.tier /\ w.what = c.what
        /\ w.ep = c.ep /\ w.ep \in DOMAIN Tier(w)
    BY <1>1 DEF CallRecords, Tier
  <2>. HIDE DEF w
  <2>3. CallsInv'
    BY <1>2, <2>1, <2>2, CallGoesOn
  <2>4. PermitsCounted'
    <3>1. \A b \in calls' : b.at = "posted" => b \in calls
      BY <2>1, <2>2
    <3>2. \A b \in calls : b.at = "posted" => b \in calls'
      BY <2>1
    <3>. QED  BY <1>2, <2>1, <3>1, <3>2, PermitsStay
  <2>. QED  BY <1>3, <2>3, <2>4
<1>5. CASE Post(c)
  <2>. DEFINE w == [c EXCEPT !.at = "posted"]
            e0 == Endpoint(c)
  <2>1. /\ c.at = "waiting" /\ calls' = (calls \ {c}) \cup {w} /\ permits[e0] > 0
        /\ permits' = [permits EXCEPT ![e0] = @ - 1]
    BY <1>5 DEF Post, Replace
  <2>2. /\ w \in CallRecords /\ w.at = "posted" /\ w.by = c.by /\ w.tier = c.tier /\ w.what = c.what
        /\ w.ep = c.ep /\ w.ep \in DOMAIN Tier(w) /\ Endpoint(w) = e0
    BY <1>1 DEF CallRecords, Tier, Endpoint
  <2>. HIDE DEF w, e0
  <2>3. CallsInv' /\ w \notin calls \ {c}
    BY <1>2, <2>1, <2>2, CallGoesOn
  <2>4. ASSUME NEW e \in Endpoints
        PROVE  /\ permits'[e] \in Nat /\ IsFiniteSet(Posted(calls', e))
               /\ permits'[e] + leaked[e] + Cardinality(Posted(calls', e)) = Permits[e]
    <3>1. /\ IsFiniteSet(Posted(calls, e)) /\ permits[e] \in Nat /\ leaked[e] \in Nat
          /\ permits[e] + leaked[e] + Cardinality(Posted(calls, e)) = Permits[e]
      BY DEF PermitsCounted
    <3>2. PICK a \in Nat : a = Cardinality(Posted(calls, e))
      BY <3>1, FS_CardinalityType
    <3>3. CASE e = e0
      <4>1. Posted(calls', e) = Posted(calls, e) \cup {w} /\ w \notin Posted(calls, e)
        BY <2>1, <2>2, <2>3, <3>3 DEF Posted
      <4>2. IsFiniteSet(Posted(calls', e)) /\ Cardinality(Posted(calls', e)) = a + 1
        BY <3>1, <3>2, <4>1, FS_AddElement
      <4>3. permits'[e] = permits[e] - 1 /\ permits[e] > 0
        BY <2>1, <3>3 DEF PermitsCounted
      <4>. QED  BY <3>1, <3>2, <4>2, <4>3
    <3>4. CASE e # e0
      <4>1. Posted(calls', e) = Posted(calls, e)
        BY <2>1, <2>2, <3>4 DEF Posted
      <4>2. permits'[e] = permits[e]
        BY <2>1, <3>4 DEF PermitsCounted
      <4>. QED  BY <3>1, <4>1, <4>2
    <3>. QED  BY <3>3, <3>4
  <2>5. PermitsCounted'
    <3>1. \A e \in Endpoints : Posted(calls, e)' = Posted(calls', e)
      BY DEF Posted, Endpoint, Tier
    <3>2. permits' \in [Endpoints -> Nat] /\ leaked' \in [Endpoints -> Nat]
      BY <1>2, <2>1, <2>4 DEF PermitsCounted
    <3>. QED  BY <1>2, <2>4, <3>1, <3>2 DEF PermitsCounted
  <2>. QED  BY <1>3, <2>3, <2>5
<1>. QED  BY <1>4, <1>5 DEF Progress

\* Raising fails the cycle or, of a cycle that failed before, changes nothing.
LEMMA RaiseKeeps ==
  ASSUME AdviceInv, NEW c \in calls, Raise(c), Drop(c), UNCHANGED <<scene, day, notes>>
  PROVE  StateTyped' /\ AdviceIsGuarded' /\ CallsInv'
<1>. USE DEF AdviceInv
<1>1. CallsTyped /\ cycle.at # "idle" /\ calls' = calls \ {c}
  BY HasBegun DEF CallsInv, Drop
<1>2. CASE Mine(c)
  <2>1. cycle' = [cycle EXCEPT !.at = "failed", !.said = << >>] /\ outcome' = NoOutcome
    BY <1>2 DEF Raise
  <2>2. /\ cycle' \in [n : 0 .. MaxCycles, at : Stages, proposal : {NoProposal, Proposed(scene)},
                       round : Nat, said : Lists]
        /\ cycle'.n = cycle.n /\ cycle'.proposal = cycle.proposal /\ cycle'.at = "failed"
    BY <2>1, NothingSaid DEF StateTyped, Stages, Ended
  <2>3. StateTyped' /\ AdviceIsGuarded'
    BY <1>1, <2>1, <2>2, CycleKeeps DEF StateTyped
  <2>. QED  BY <1>1, <1>2, <2>2, <2>3, CallEnds
<1>3. CASE ~Mine(c)
  <2>1. UNCHANGED <<cycle, outcome>>
    BY <1>3 DEF Raise
  <2>2. StateTyped' /\ AdviceIsGuarded'
    BY <1>1, <2>1, CycleKeeps DEF StateTyped
  <2>. QED  BY <1>1, <2>1, <2>2, CallEnds
<1>. QED  BY <1>2, <1>3

\* A prompt that will never fit ends the call before it went out.
LEMMA OversizedStep ==
  ASSUME AdviceInv, NEW c \in calls, Oversized(c)
  PROVE  AdviceInv'
<1>. USE DEF AdviceInv
<1>1. c.at = "waiting" /\ Drop(c) /\ Raise(c) /\ UNCHANGED <<scene, day, permits, leaked, notes>>
  BY DEF Oversized
<1>2. StateTyped' /\ AdviceIsGuarded' /\ CallsInv'
  BY <1>1, RaiseKeeps
<1>3. calls' = calls \ {c}
  BY <1>1 DEF Drop
<1>4. PermitsCounted'
  <2>1. \A b \in calls : b.at = "posted" => b \in calls'
    BY <1>1, <1>3
  <2>2. \A b \in calls' : b.at = "posted" => b \in calls
    BY <1>3
  <2>. QED  BY <1>1, <2>1, <2>2, PermitsStay
<1>. QED  BY <1>2, <1>4

\* What came back gave back its permit.
LEMMA ReleaseKeeps ==
  ASSUME AdviceInv, NEW c \in calls, c.at = "posted", Release(c),
         calls \ {c} \subseteq calls', \A d \in calls' \ (calls \ {c}) : d.at # "posted"
  PROVE  PermitsCounted'
BY PermitComesBack DEF AdviceInv, CallsInv, Release

\* A call that is asked again, in another way or of another endpoint.
LEMMA RetriedStep ==
  ASSUME AdviceInv, NEW c \in calls, Rejected(c) \/ NextEndpoint(c)
  PROVE  AdviceInv'
<1>. USE DEF AdviceInv
<1>1. /\ CallsTyped /\ cycle.at # "idle" /\ c \in CallRecords /\ c.ep \in DOMAIN Tier(c)
      /\ Quick \in Seq(Endpoints) /\ Deep \in Seq(Endpoints) /\ Rungs \in Nat \ {0}
  BY HasBegun, AdviceAssumption DEF CallsInv, CallsTyped
<1>2. c.at = "posted" /\ Release(c) /\ UNCHANGED <<scene, day, cycle, notes, outcome>>
  BY DEF Rejected, NextEndpoint
<1>3. PICK d : /\ calls' = (calls \ {c}) \cup {d} /\ d \in CallRecords /\ d.at = "waiting"
               /\ d.by = c.by /\ d.tier = c.tier /\ d.what = c.what /\ d.ep \in DOMAIN Tier(d)
  <2>1. CASE Rejected(c)
    <3>. DEFINE d == [c EXCEPT !.at = "waiting", !.rung = @ + 1]
    <3>1. calls' = (calls \ {c}) \cup {d} /\ c.rung < Rungs
      BY <2>1 DEF Rejected, Replace
    <3>2. c.rung + 1 \in 1 .. Rungs
      BY <1>1, <3>1 DEF CallRecords
    <3>3. /\ d \in CallRecords /\ d.at = "waiting" /\ d.by = c.by /\ d.tier = c.tier
          /\ d.what = c.what /\ d.ep = c.ep
      BY <1>1, <3>2 DEF CallRecords
    <3>. QED  BY <1>1, <3>1, <3>3 DEF Tier
  <2>2. CASE NextEndpoint(c)
    <3>. DEFINE d == [c EXCEPT !.at = "waiting", !.ep = @ + 1, !.rung = 1]
    <3>1. calls' = (calls \ {c}) \cup {d} /\ c.ep < Len(Tier(c))
      BY <2>2 DEF NextEndpoint, Replace
    <3>2. c.ep + 1 \in DOMAIN Tier(c) /\ 1 \in 1 .. Rungs
      <4>1. Tier(c) \in Seq(Endpoints) /\ c.ep \in Nat
        BY <1>1 DEF Tier, CallRecords
      <4>2. DOMAIN Tier(c) = 1 .. Len(Tier(c)) /\ Len(Tier(c)) \in Nat
        BY <4>1, LenProperties
      <4>. QED  BY <1>1, <3>1, <4>1, <4>2
    <3>3. c.ep + 1 \in Nat
      BY <1>1 DEF CallRecords
    <3>4. /\ d \in CallRecords /\ d.at = "waiting" /\ d.by = c.by /\ d.tier = c.tier
          /\ d.what = c.what /\ d.ep = c.ep + 1
      BY <1>1, <3>2, <3>3 DEF CallRecords
    <3>. QED  BY <3>1, <3>2, <3>4 DEF Tier
  <2>. QED  BY <2>1, <2>2
<1>4. CallsInv'
  BY <1>2, <1>3, CallGoesOn
<1>5. PermitsCounted'
  BY <1>2, <1>3, ReleaseKeeps
<1>6. StateTyped' /\ AdviceIsGuarded'
  BY <1>1, <1>2, CycleKeeps DEF StateTyped
<1>. QED  BY <1>4, <1>5, <1>6

\* A call that raises, with its permit or without.
LEMMA RaisedStep ==
  ASSUME AdviceInv, NEW c \in calls, Unreadable(c) \/ Broken(c)
  PROVE  AdviceInv'
<1>. USE DEF AdviceInv
<1>1. /\ c.at = "posted" /\ Drop(c) /\ Raise(c) /\ UNCHANGED <<scene, day, notes>>
      /\ \/ permits' = [permits EXCEPT ![Endpoint(c)] = @ + 1] /\ UNCHANGED leaked
         \/ leaked' = [leaked EXCEPT ![Endpoint(c)] = @ + 1] /\ UNCHANGED permits
  BY DEF Unreadable, Broken, Release
<1>2. StateTyped' /\ AdviceIsGuarded' /\ CallsInv'
  BY <1>1, RaiseKeeps
<1>3. calls' = calls \ {c}
  BY <1>1 DEF Drop
<1>4. PermitsCounted'
  BY <1>1, <1>3, PermitComesBack DEF CallsInv
<1>. QED  BY <1>2, <1>4

\* An analyst's answer.
LEMMA NotedStep ==
  ASSUME AdviceInv, NEW c \in calls, Noted(c)
  PROVE  AdviceInv'
<1>. USE DEF AdviceInv
<1>1. /\ c.at = "posted" /\ c.tier = "quick" /\ Release(c) /\ calls' = calls \ {c}
      /\ notes' \in {notes, notes \cup {c.what}} /\ UNCHANGED <<scene, day, cycle, outcome>>
  BY DEF Noted, Drop
<1>2. CallsTyped /\ cycle.at # "idle" /\ c.what \in Asked /\ notes \subseteq Asked
  BY <1>1, HasBegun DEF CallsInv, CallsTyped, StateTyped
<1>3. StateTyped' /\ AdviceIsGuarded'
  BY <1>1, <1>2, CycleKeeps DEF StateTyped
<1>4. CallsInv'
  BY <1>1, CallEnds
<1>5. PermitsCounted'
  BY <1>1, ReleaseKeeps
<1>. QED  BY <1>3, <1>4, <1>5

\* The deep model's last answer, or none.
LEMMA ConcludedStep ==
  ASSUME AdviceInv, NEW c \in calls, Unadvised(c) \/ Advised(c)
  PROVE  AdviceInv'
<1>. USE DEF AdviceInv
<1>1. /\ c.at = "posted" /\ c.tier = "deep" /\ Release(c) /\ calls' = calls \ {c}
      /\ UNCHANGED <<scene, day, notes>>
  BY DEF Unadvised, Advised, Drop
<1>2. CallsTyped /\ cycle.at = "deep" /\ Mine(c)
  BY <1>1, HasBegun DEF CallsInv
<1>3. PICK at \in {"done", "judged"}, said \in Lists :
        /\ cycle' = [cycle EXCEPT !.at = at, !.said = said]
        /\ outcome' = outcome \/ outcome' = NoOutcome
  <2>1. CASE Unadvised(c)
    BY <2>1, NothingSaid DEF Unadvised, Finish, NoOutcome
  <2>2. CASE Advised(c)
    <3>1. PICK said \in Lists :
            cycle' = [cycle EXCEPT !.at = "judged",
                                   !.said = IF cycle.round > 1 /\ said = << >> THEN @ ELSE said]
      BY <2>2 DEF Advised
    <3>2. outcome' = outcome /\ cycle.said \in Lists
      BY <2>2 DEF Advised, StateTyped
    <3>3. CASE cycle.round > 1 /\ said = << >>
      <4>1. cycle' = [cycle EXCEPT !.at = "judged", !.said = cycle.said]
        BY <3>1, <3>3
      <4>. QED  BY <3>2, <4>1
    <3>4. CASE ~(cycle.round > 1 /\ said = << >>)
      <4>1. cycle' = [cycle EXCEPT !.at = "judged", !.said = said]
        BY <3>1, <3>4
      <4>. QED  BY <3>2, <4>1
    <3>. QED  BY <3>3, <3>4
  <2>. QED  BY <2>1, <2>2
<1>4. /\ cycle' \in [n : 0 .. MaxCycles, at : Stages, proposal : {NoProposal, Proposed(scene)},
                     round : Nat, said : Lists]
      /\ cycle'.n = cycle.n /\ cycle'.proposal = cycle.proposal /\ cycle'.at \in {"done", "judged"}
  BY <1>3 DEF StateTyped, Stages, Ended
<1>5. StateTyped' /\ AdviceIsGuarded'
  BY <1>1, <1>2, <1>3, <1>4, CycleKeeps DEF StateTyped
<1>6. CallsInv'
  BY <1>1, <1>4, CallEnds
<1>7. PermitsCounted'
  BY <1>1, ReleaseKeeps
<1>. QED  BY <1>5, <1>6, <1>7

\* Another round of a debate.
LEMMA RebuttedStep ==
  ASSUME AdviceInv, NEW c \in calls, Rebutted(c)
  PROVE  AdviceInv'
<1>. USE DEF AdviceInv
<1>. DEFINE d == DeepCall(cycle.n)
<1>1. /\ c.at = "posted" /\ c.tier = "deep" /\ Release(c) /\ calls' = (calls \ {c}) \cup {d}
      /\ UNCHANGED <<scene, day, notes, outcome>>
  BY DEF Rebutted, Replace
<1>2. CallsTyped /\ cycle.at = "deep" /\ Mine(c) /\ c.what = << >> /\ cycle.n \in Nat
  BY <1>1, HasBegun DEF CallsInv, CallsTyped
<1>3. PICK said \in Lists : cycle' = [cycle EXCEPT !.round = @ + 1, !.said = said]
  BY DEF Rebutted
<1>4. /\ cycle' \in [n : 0 .. MaxCycles, at : Stages, proposal : {NoProposal, Proposed(scene)},
                     round : Nat, said : Lists]
      /\ cycle'.n = cycle.n /\ cycle'.proposal = cycle.proposal /\ cycle'.at = cycle.at
  <2>1. cycle.round + 1 \in Nat
    BY DEF StateTyped
  <2>. QED  BY <1>3, <2>1 DEF StateTyped
<1>5. StateTyped' /\ AdviceIsGuarded'
  BY <1>1, <1>2, <1>4, CycleKeeps DEF StateTyped
<1>6. /\ d \in CallRecords /\ d.at = "waiting" /\ d.by = c.by /\ d.tier = c.tier
      /\ d.what = c.what /\ d.ep \in DOMAIN Tier(d)
  <2>1. d = [by |-> cycle.n, tier |-> "deep", what |-> << >>, at |-> "waiting", ep |-> 1, rung |-> 1]
    BY DEF DeepCall, Call
  <2>2. Deep \in Seq(Endpoints) /\ Deep # << >> /\ Rungs \in Nat \ {0}
    BY AdviceAssumption
  <2>3. 1 \in DOMAIN Deep
    BY <2>2, LenProperties, EmptySeq
  <2>. HIDE DEF d
  <2>. QED  BY <1>1, <1>2, <2>1, <2>2, <2>3 DEF CallRecords, Mine, Tier
<1>. HIDE DEF d
<1>7. CallsInv'
  BY <1>1, <1>4, <1>6, CallGoesOn
<1>8. PermitsCounted'
  BY <1>1, <1>6, ReleaseKeeps
<1>. QED  BY <1>5, <1>7, <1>8

\* A step that changes nothing.
LEMMA NoStep ==
  ASSUME AdviceInv, UNCHANGED vars
  PROVE  AdviceInv'
<1>. USE DEF AdviceInv, vars
<1>1. StateTyped'
  BY DEF StateTyped, Proposed, Decide, Cohort, Held
<1>2. CallsInv'
  BY DEF CallsInv, CallsTyped, AskedOnce, Mine, Tier
<1>3. PermitsCounted'
  BY PermitsStay
<1>4. AdviceIsGuarded'
  BY GuardKept
<1>. QED  BY <1>1, <1>2, <1>3, <1>4

\* From every cycle's start to its end, with every way a call can fail, the types, the calls, the
\* permits and the outcome are as AdviceInv says (AIPipeline.run, AIClient._call, AnalystPool.run).
THEOREM AdviceInvHolds == Spec => []AdviceInv
<1>1. Init => AdviceInv
  BY InitAdvice
<1>2. ASSUME AdviceInv, [Next]_vars PROVE AdviceInv'
  <2>1. CASE Start
    BY <1>2, <2>1, StartStep
  <2>2. CASE AskDeep
    BY <1>2, <2>2, AskDeepStep
  <2>3. CASE Redecide
    BY <1>2, <2>3, RedecideStep
  <2>4. CASE NextDay
    BY <1>2, <2>4, NextDayStep
  <2>5. ASSUME NEW c \in calls, Progress(c) \/ Oversized(c) \/ Answer(c) PROVE AdviceInv'
    <3>1. CASE Progress(c)
      BY <1>2, <3>1, ProgressStep
    <3>2. CASE Oversized(c)
      BY <1>2, <3>2, OversizedStep
    <3>3. CASE Rejected(c) \/ NextEndpoint(c)
      BY <1>2, <3>3, RetriedStep
    <3>4. CASE Unreadable(c) \/ Broken(c)
      BY <1>2, <3>4, RaisedStep
    <3>5. CASE Noted(c)
      BY <1>2, <3>5, NotedStep
    <3>6. CASE Unadvised(c) \/ Advised(c)
      BY <1>2, <3>6, ConcludedStep
    <3>7. CASE Rebutted(c)
      BY <1>2, <3>7, RebuttedStep
    <3>. QED  BY <2>5, <3>1, <3>2, <3>3, <3>4, <3>5, <3>6, <3>7 DEF Answer
  <2>6. CASE UNCHANGED vars
    BY <1>2, <2>6, NoStep
  <2>. QED  BY <1>2, <2>1, <2>2, <2>3, <2>4, <2>5, <2>6 DEF Next
<1>. QED  BY <1>1, <1>2, PTL DEF Spec

-----------------------------------------------------------------------------
(* What follows. *)

\* What a cycle that is done answers is a decision with some confidence.
LEMMA AnsweredDecides ==
  ASSUME AdviceInv, cycle.at # "idle"
  PROVE  /\ scene \in Scenes
         /\ \E confidence : /\ Confident(confidence) /\ Answered = Decide(scene, confidence)
                            /\ outcome.used => confidence = outcome.confidence
<1>1. scene \in Scenes /\ cycle.proposal = Proposed(scene) /\ outcome.confidence \in Confidences
  BY DEF AdviceInv, StateTyped
<1>2. Confident(outcome.confidence)
  BY <1>1 DEF Confident, Confidences
<1>3. CASE outcome.used
  BY <1>1, <1>2, <1>3 DEF Answered
<1>4. CASE ~outcome.used
  BY <1>1, <1>4, NothingSaid DEF Answered, Proposed
<1>. QED  BY <1>1, <1>3, <1>4

\* Calls, permits, notes and confidences are what they seem to be: no permit is given back
\* twice or lost other than by a request that could not be built (AIClient._call), and whatever
\* a model says, a confidence is between none and full (guardrails.apply).
THEOREM AdviceTyped == Spec => []TypeOK
<1>1. AdviceInv => TypeOK
  <2>. SUFFICES ASSUME AdviceInv PROVE TypeOK
    OBVIOUS
  <2>. USE DEF AdviceInv
  <2>1. /\ scene \in Scenes /\ day \in 1 .. LastDay
        /\ cycle.n \in 0 .. MaxCycles /\ cycle.at \in Stages /\ cycle.said \in Lists
        /\ notes \subseteq Symbols \X Kinds \X (1 .. LastDay)
        /\ outcome.confidence \in Confidences
    BY DEF StateTyped, Asked
  <2>2. \A c \in calls : /\ c.by \in 1 .. cycle.n /\ c.tier \in {"quick", "deep"}
                         /\ c.at \in {"queued", "waiting", "posted"}
                         /\ c.ep \in DOMAIN Tier(c) /\ c.rung \in 1 .. Rungs
    BY DEF CallsInv, CallsTyped, CallRecords
  <2>3. ASSUME NEW e \in Endpoints
        PROVE  permits[e] \in 0 .. Permits[e] /\ leaked[e] \in 0 .. Permits[e]
    <3>1. PICK a \in Nat : a = Cardinality(Posted(calls, e))
      BY FS_CardinalityType DEF PermitsCounted
    <3>2. /\ permits[e] \in Nat /\ leaked[e] \in Nat /\ Permits[e] \in Nat
          /\ permits[e] + leaked[e] + a = Permits[e]
      BY <3>1, AdviceAssumption DEF PermitsCounted
    <3>. QED  BY <3>2
  <2>. QED  BY <2>1, <2>2, <2>3 DEF TypeOK
<1>. QED  BY <1>1, AdviceInvHolds, PTL

\* No veto is overridden: a candidate of the rules the model did not endorse is not bought,
\* whatever else the model says and however the second decision uses the room that leaves
\* (guardrails.apply, DecisionCycle._decide).
THEOREM VetoesHold == Spec => []VetoHolds
<1>1. AdviceInv => VetoHolds
  <2>. SUFFICES ASSUME AdviceInv, outcome.used,
                       NEW s \in Candidates(cycle.proposal), ~Endorsed(s)
                PROVE  s \notin Candidates(Answered)
    BY DEF VetoHolds
  <2>. USE DEF AdviceInv
  <2>1. cycle.at # "idle" /\ outcome.said \in Lists
    BY DEF AdviceIsGuarded, StateTyped
  <2>2. /\ scene \in Scenes
        /\ Confident(outcome.confidence) /\ Answered = Decide(scene, outcome.confidence)
    BY <2>1, AnsweredDecides
  <2>3. PICK earned \in 0 .. Full :
          outcome.confidence = Deweighted(Guarded(outcome.said, scene, cycle.proposal), earned)
    BY DEF AdviceIsGuarded
  <2>4. s \in DOMAIN outcome.confidence /\ outcome.confidence[s] = 0
    <3>1. /\ outcome.confidence \in [Candidates(cycle.proposal) -> 0 .. Full]
          /\ \A t \in Candidates(cycle.proposal) :
               ~(\E n \in DOMAIN outcome.said :
                   /\ outcome.said[n].s = t /\ outcome.said[n].take
                   /\ \A k \in 1 .. n - 1 : outcome.said[k].s # t)
               => outcome.confidence[t] = 0
      BY <2>1, <2>2, <2>3, GuardrailsHold
    <3>. QED  BY <3>1 DEF Endorsed
  <2>5. PICK bought : bought = Answered.entries
    OBVIOUS
  <2>6. \A n \in DOMAIN bought :
          bought[n].s \in DOMAIN outcome.confidence => outcome.confidence[bought[n].s] # 0
    BY <2>2, <2>5, EntriesAreSound
  <2>. QED  BY <2>4, <2>5, <2>6 DEF Candidates, Range
<1>. QED  BY <1>1, AdviceInvHolds, PTL

\* With advice or without, what is bought fits the exposure beside the book and the turnover of
\* the month (fit_to_budget, TurnoverBudget in _pick_entries).
THEOREM EntriesAlwaysFit == Spec => []EntriesFitTheBook
<1>1. AdviceInv => EntriesFitTheBook
  <2>. SUFFICES ASSUME AdviceInv, cycle.at = "done" PROVE EntriesFitTheBook
    BY DEF EntriesFitTheBook
  <2>1. PICK confidence : /\ scene \in Scenes /\ Confident(confidence)
                          /\ Answered = Decide(scene, confidence)
    BY AnsweredDecides
  <2>. QED  BY <2>1, EntriesAreSound DEF EntriesFitTheBook
<1>. QED  BY <1>1, AdviceInvHolds, PTL

\* As long as what is held and always wanted fits the universe, a holding at or under its stop is
\* sold whole by every cycle that ends, whatever the screen thinks of it and the model says
\* (universe.resolve, screen, evaluate_exit).
THEOREM StopsAlwaysHonoured == Spec => []StopsAreHonoured
<1>1. AdviceInv => StopsAreHonoured
  <2>. SUFFICES ASSUME AdviceInv, cycle.at = "done", Cardinality(Pinned(scene)) <= MaxSymbols,
                       NEW s \in Held(scene), scene.market[s].close <= scene.book.held[s].stop
                PROVE  s \in DOMAIN Answered.exits /\ Answered.exits[s] = "full"
    BY DEF StopsAreHonoured
  <2>1. PICK confidence : scene \in Scenes /\ Answered = Decide(scene, confidence)
    BY AnsweredDecides
  <2>. QED  BY <2>1, StopsSell
<1>. QED  BY <1>1, AdviceInvHolds, PTL

=============================================================================
