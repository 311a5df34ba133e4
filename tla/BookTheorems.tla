---------------------------- MODULE BookTheorems ----------------------------
(***************************************************************************)
(* What the operators of Fees, Lots, Account and Orderbook return: what    *)
(* rounding can and cannot do to fees, rebates and converted amounts, the  *)
(* types of accounts and books, what their operations leave alone, which   *)
(* orders a new order fills and leaves behind, and how amounts sum up.     *)
(***************************************************************************)
EXTENDS Account, Orderbook, FiniteSetTheorems, Functions, TLAPS
-----------------------------------------------------------------------------
(* Facts about SumFunctionOnSet, the sum of the values of a function over  *)
(* a finite set, with which the totals of the exchange are written.  The   *)
(* library defines it by a fold; its values are pinned down here with the  *)
(* minimum of a set of counterexample sizes in place of an induction.      *)

(* A nonempty set of naturals has a least element.                         *)
LEMMA NatMinimum ==
  ASSUME NEW T \in SUBSET Nat, T # {}
  PROVE  \E n \in T : \A k \in T : n <= k
PROOF
  <1>1. PICK n \in T : \A k \in T : ~ (<<k, n>> \in OpToRel(<, Nat))
        BY NatLessThanWellFounded, WFMin
  <1>2. \A k \in T : ~ (k < n)
        BY <1>1 DEF OpToRel
  <1>. QED  BY <1>2

(* The element the fold takes out of s first.                              *)
Picked(s) == CHOOSE x \in s : TRUE

(* g is a sum of f, one picked element after the other, on the sets in D.  *)
Unfolds(g, f, D) ==
  \A s \in D : g[s] = IF s = {} THEN 0 ELSE f[Picked(s)] + g[s \ {Picked(s)}]

(* The subsets of S of at most n elements.                                 *)
Small(S, n) == {s \in SUBSET S : Cardinality(s) <= n}

(* Subsets of a finite set are finite, and picking shrinks them by one.    *)
LEMMA SubsetFacts ==
  ASSUME NEW S, IsFiniteSet(S)
  PROVE  \A s \in SUBSET S :
           /\ IsFiniteSet(s)
           /\ Cardinality(s) \in Nat
           /\ Cardinality(s) = 0 <=> s = {}
           /\ s # {} => /\ Picked(s) \in s
                        /\ Cardinality(s \ {Picked(s)}) = Cardinality(s) - 1
PROOF
  <1>1. \A s \in SUBSET S : IsFiniteSet(s) /\ Cardinality(s) \in Nat
        BY FS_Subset, FS_CardinalityType
  <1>2. \A s \in SUBSET S : Cardinality(s) = 0 <=> s = {}
        BY <1>1, FS_EmptySet
  <1>3. \A s \in SUBSET S : s # {} => Picked(s) \in s
        BY DEF Picked
  <1>4. \A s \in SUBSET S : s # {} => Cardinality(s \ {Picked(s)}) = Cardinality(s) - 1
        BY <1>1, <1>3, FS_RemoveElement
  <1>. QED  BY <1>1, <1>2, <1>3, <1>4

(* A recursive sum exists on the subsets of any size.                      *)
LEMMA UnfoldingOfSmall ==
  ASSUME NEW S, IsFiniteSet(S), NEW f, \A x \in S : f[x] \in Int
  PROVE  \A n \in Nat : \E g \in [Small(S, n) -> Int] : Unfolds(g, f, Small(S, n))
PROOF
  <1> DEFINE Bad == {n \in Nat : ~ \E g \in [Small(S, n) -> Int] : Unfolds(g, f, Small(S, n))}
  <1>0. \A s \in SUBSET S : Cardinality(s) \in Nat /\ (Cardinality(s) = 0 <=> s = {})
        BY SubsetFacts
  <1>p. \A s \in SUBSET S : s # {} => /\ Picked(s) \in s
                                      /\ Cardinality(s \ {Picked(s)}) = Cardinality(s) - 1
        BY SubsetFacts
  <1>1. SUFFICES ASSUME Bad # {} PROVE FALSE
        OBVIOUS
  <1>2. PICK n \in Bad : \A k \in Bad : n <= k
        BY <1>1, NatMinimum
  <1>3. CASE n = 0
    <2> DEFINE g == [s \in Small(S, 0) |-> 0]
    <2>1. \A s \in Small(S, 0) : s = {}
          BY <1>0 DEF Small
    <2>2. g \in [Small(S, 0) -> Int] /\ Unfolds(g, f, Small(S, 0))
          BY <2>1 DEF Unfolds
    <2>. QED  BY <1>3, <2>2
  <1>4. CASE n # 0
    <2>1. n \in Nat /\ n - 1 \in Nat /\ n - 1 \notin Bad
          BY <1>2, <1>4
    <2>2. PICK h \in [Small(S, n - 1) -> Int] : Unfolds(h, f, Small(S, n - 1))
          BY <2>1
    <2> DEFINE g == [s \in Small(S, n) |->
                       IF Cardinality(s) <= n - 1 THEN h[s]
                       ELSE f[Picked(s)] + h[s \ {Picked(s)}]]
    <2>3. \A s \in Small(S, n) : s # {} => s \ {Picked(s)} \in Small(S, n - 1)
          BY <2>1, <1>0, <1>p DEF Small
    <2>4. \A t \in Small(S, n - 1) : t \in Small(S, n) /\ g[t] = h[t]
          BY <2>1, <1>0 DEF Small
    <2>5. \A s \in Small(S, n) : ~ (Cardinality(s) <= n - 1) => s # {} /\ Picked(s) \in S
          BY <2>1, <1>0, <1>p DEF Small
    <2>6. ASSUME NEW s \in Small(S, n)
          PROVE  /\ g[s] \in Int
                 /\ g[s] = IF s = {} THEN 0 ELSE f[Picked(s)] + g[s \ {Picked(s)}]
      <3>1. CASE Cardinality(s) <= n - 1
        <4>1. s \in Small(S, n - 1)
              BY <3>1 DEF Small
        <4> HIDE DEF g
        <4>. QED  BY <4>1, <2>2, <2>3, <2>4 DEF Unfolds
      <3>2. CASE ~ (Cardinality(s) <= n - 1)
        <4>1. s # {} /\ f[Picked(s)] \in Int
              BY <2>5, <3>2
        <4>2. g[s \ {Picked(s)}] = h[s \ {Picked(s)}] /\ h[s \ {Picked(s)}] \in Int
              BY <4>1, <2>2, <2>3, <2>4
        <4>3. g[s] = f[Picked(s)] + h[s \ {Picked(s)}]
              BY <3>2
        <4>. QED  BY <4>1, <4>2, <4>3
      <3>. QED  BY <3>1, <3>2
    <2>7. g \in [Small(S, n) -> Int]
          BY <2>6
    <2> HIDE DEF g
    <2>8. Unfolds(g, f, Small(S, n))
          BY <2>6 DEF Unfolds
    <2>. QED  BY <2>7, <2>8, <1>2
  <1>. QED  BY <1>3, <1>4

(* Two recursive sums of the same function agree.                          *)
LEMMA UnfoldingIsUnique ==
  ASSUME NEW T, IsFiniteSet(T), NEW f
  PROVE  \A g, h : Unfolds(g, f, SUBSET T) /\ Unfolds(h, f, SUBSET T)
                     => \A s \in SUBSET T : g[s] = h[s]
PROOF
  <1> TAKE g, h
  <1> HAVE Unfolds(g, f, SUBSET T) /\ Unfolds(h, f, SUBSET T)
  <1> DEFINE Bad == {n \in Nat : \E s \in SUBSET T : Cardinality(s) = n /\ g[s] # h[s]}
  <1>1. SUFFICES ASSUME NEW s0 \in SUBSET T, g[s0] # h[s0] PROVE FALSE
        OBVIOUS
  <1>2. Cardinality(s0) \in Bad
        BY <1>1, SubsetFacts
  <1>3. PICK n \in Bad : \A k \in Bad : n <= k
        BY <1>2, NatMinimum
  <1>4. PICK s \in SUBSET T : Cardinality(s) = n /\ g[s] # h[s]
        BY <1>3
  <1>5. CASE s = {}
        BY <1>4, <1>5 DEF Unfolds
  <1>6. CASE s # {}
    <2>1. s \ {Picked(s)} \in SUBSET T /\ Cardinality(s \ {Picked(s)}) = n - 1 /\ n - 1 \in Nat
          BY <1>4, <1>6, SubsetFacts
    <2>2. g[s \ {Picked(s)}] = h[s \ {Picked(s)}]
          BY <2>1, <1>3
    <2>. QED  BY <2>1, <2>2, <1>4, <1>6 DEF Unfolds
  <1>. QED  BY <1>5, <1>6

(* SumFunctionOnSet is such a recursive sum: the CHOOSE in the library's   *)
(* definition finds one.                                                   *)
LEMMA SumUnfolding ==
  ASSUME NEW f, NEW S, IsFiniteSet(S), \A x \in S : f[x] \in Int
  PROVE  \E g : /\ Unfolds(g, f, SUBSET S)
                /\ g \in [SUBSET S -> Int]
                /\ SumFunctionOnSet(f, S) = g[S]
PROOF
  <1> DEFINE iter == CHOOSE g : g = [s \in SUBSET S |->
                                  IF s = {} THEN 0 ELSE f[Picked(s)] + g[s \ {Picked(s)}]]
  <1>1. SumFunctionOnSet(f, S) = iter[S]
        BY DEF SumFunctionOnSet, FoldFunctionOnSet, MapThenFoldSet, Picked
  <1>2. Cardinality(S) \in Nat /\ Small(S, Cardinality(S)) = SUBSET S
        BY FS_CardinalityType, FS_Subset DEF Small
  <1>3. PICK h \in [SUBSET S -> Int] : Unfolds(h, f, SUBSET S)
    <2>1. PICK h \in [Small(S, Cardinality(S)) -> Int] : Unfolds(h, f, Small(S, Cardinality(S)))
          BY <1>2, UnfoldingOfSmall
    <2>. QED  BY <2>1, <1>2
  <1>4. h = [s \in SUBSET S |-> IF s = {} THEN 0 ELSE f[Picked(s)] + h[s \ {Picked(s)}]]
        BY <1>3 DEF Unfolds
  <1>5. iter = [s \in SUBSET S |-> IF s = {} THEN 0 ELSE f[Picked(s)] + iter[s \ {Picked(s)}]]
        BY <1>4
  <1>6. Unfolds(iter, f, SUBSET S)
        BY <1>5 DEF Unfolds
  <1> HIDE DEF iter
  <1>7. \A s \in SUBSET S : h[s] = iter[s]
    <2>1. \A u, v : Unfolds(u, f, SUBSET S) /\ Unfolds(v, f, SUBSET S)
                     => \A s \in SUBSET S : u[s] = v[s]
          BY UnfoldingIsUnique
    <2>2. QED  BY <2>1, <1>3, <1>6
  <1>8. iter \in [SUBSET S -> Int]
        BY <1>3, <1>5, <1>7
  <1>. QED  BY <1>1, <1>6, <1>8

(* The sum over no elements is 0.                                          *)
THEOREM SumOfEmpty == ASSUME NEW f PROVE SumFunctionOnSet(f, {}) = 0
PROOF
  <1>1. PICK g : Unfolds(g, f, SUBSET {}) /\ SumFunctionOnSet(f, {}) = g[{}]
        BY SumUnfolding, FS_EmptySet
  <1>. QED  BY <1>1 DEF Unfolds

(* A finite sum of integers is an integer.                                 *)
THEOREM SumType ==
  ASSUME NEW f, NEW S, IsFiniteSet(S), \A x \in S : f[x] \in Int
  PROVE  SumFunctionOnSet(f, S) \in Int
PROOF
  <1>1. PICK g : g \in [SUBSET S -> Int] /\ SumFunctionOnSet(f, S) = g[S]
        BY SumUnfolding
  <1>2. S \in SUBSET S
        OBVIOUS
  <1>. QED  BY <1>1, <1>2

(* The picked element can be taken out of a sum ...                        *)
LEMMA SumPicked ==
  ASSUME NEW f, NEW S, IsFiniteSet(S), S # {}, \A x \in S : f[x] \in Int
  PROVE  SumFunctionOnSet(f, S) = f[Picked(S)] + SumFunctionOnSet(f, S \ {Picked(S)})
PROOF
  <1> DEFINE T == S \ {Picked(S)}
  <1>1. PICK g : /\ Unfolds(g, f, SUBSET S)
                 /\ g \in [SUBSET S -> Int]
                 /\ SumFunctionOnSet(f, S) = g[S]
        BY SumUnfolding
  <1>2. IsFiniteSet(T) /\ T \in SUBSET S
        BY FS_RemoveElement
  <1>3. PICK h : Unfolds(h, f, SUBSET T) /\ SumFunctionOnSet(f, T) = h[T]
        BY <1>2, SumUnfolding
  <1>4. g[T] = h[T]
    <2> HIDE DEF T
    <2>0. Unfolds(g, f, SUBSET T) /\ Unfolds(h, f, SUBSET T)
          BY <1>1, <1>2, <1>3 DEF Unfolds
    <2>1. \A u, v : Unfolds(u, f, SUBSET T) /\ Unfolds(v, f, SUBSET T)
                     => \A s \in SUBSET T : u[s] = v[s]
          BY <1>2, UnfoldingIsUnique
    <2>2. \A s \in SUBSET T : g[s] = h[s]
          BY <2>0, <2>1
    <2>. QED  BY <2>2
  <1>. QED  BY <1>1, <1>3, <1>4 DEF Unfolds

(* ... and so can any other: the order of the fold does not matter.        *)
THEOREM SumRemove ==
  ASSUME NEW f, NEW S, IsFiniteSet(S), \A x \in S : f[x] \in Int, NEW e \in S
  PROVE  SumFunctionOnSet(f, S) = f[e] + SumFunctionOnSet(f, S \ {e})
PROOF
  <1> DEFINE Holds(T) == \A x \in T : SumFunctionOnSet(f, T) = f[x] + SumFunctionOnSet(f, T \ {x})
             Bad == {n \in Nat : \E T \in SUBSET S : Cardinality(T) = n /\ ~ Holds(T)}
  <1>1. SUFFICES ASSUME NEW T0 \in SUBSET S, ~ Holds(T0) PROVE FALSE
        OBVIOUS
  <1>2. Cardinality(T0) \in Bad
        BY <1>1, SubsetFacts
  <1>3. PICK n \in Bad : \A k \in Bad : n <= k
        BY <1>2, NatMinimum
  <1>4. PICK T \in SUBSET S : Cardinality(T) = n /\ ~ Holds(T)
        BY <1>3
  <1>5. PICK x \in T : SumFunctionOnSet(f, T) # f[x] + SumFunctionOnSet(f, T \ {x})
        BY <1>4
  <1> DEFINE p == Picked(T)
  <1>6. IsFiniteSet(T) /\ p \in T /\ \A y \in T : f[y] \in Int
        BY SubsetFacts
  <1>7. SumFunctionOnSet(f, T) = f[p] + SumFunctionOnSet(f, T \ {p})
        BY <1>6, SumPicked
  <1>8. x # p
        BY <1>5, <1>7
  <1>9. \A y \in T : /\ T \ {y} \in SUBSET S /\ IsFiniteSet(T \ {y}) 
                     /\ Cardinality(T \ {y}) = n - 1 /\ n - 1 \in Nat
        <2>1. \A y \in T : Cardinality(T \ {y}) = n - 1
              BY <1>4, <1>6, FS_RemoveElement
        <2>2. \A y \in T : IsFiniteSet(T \ {y}) /\ Cardinality(T \ {y}) \in Nat
              BY <1>6, FS_RemoveElement, FS_CardinalityType
        <2>. QED  BY <2>1, <2>2
  <1>10. \A y \in T : Holds(T \ {y})
        BY <1>9, <1>3
  <1> HIDE DEF p
  <1>11. SumFunctionOnSet(f, T \ {p}) = f[x] + SumFunctionOnSet(f, (T \ {p}) \ {x})
        BY <1>8, <1>10, <1>6
  <1>12. SumFunctionOnSet(f, T \ {x}) = f[p] + SumFunctionOnSet(f, (T \ {x}) \ {p})
        BY <1>8, <1>10, <1>6
  <1>13. (T \ {p}) \ {x} = (T \ {x}) \ {p}
        OBVIOUS
  <1>14. SumFunctionOnSet(f, (T \ {p}) \ {x}) \in Int
    <2>1. IsFiniteSet((T \ {p}) \ {x})
          BY <1>6, FS_Subset
    <2>. QED  BY <2>1, <1>6, SumType
  <1>15. SumFunctionOnSet(f, T \ {x}) = f[p] + SumFunctionOnSet(f, (T \ {p}) \ {x})
        BY <1>12, <1>13
  <1>16. f[p] \in Int /\ f[x] \in Int
        BY <1>6
  <1>. QED  BY <1>5, <1>7, <1>11, <1>14, <1>15, <1>16

(* A finite sum of naturals is a natural: credits never turn negative.     *)
THEOREM SumNat ==
  ASSUME NEW f, NEW S, IsFiniteSet(S), \A x \in S : f[x] \in Nat
  PROVE  SumFunctionOnSet(f, S) \in Nat
PROOF
  <1> DEFINE Bad == {n \in Nat : \E T \in SUBSET S :
                       Cardinality(T) = n /\ SumFunctionOnSet(f, T) \notin Nat}
  <1>0. \A T \in SUBSET S : IsFiniteSet(T) /\ Cardinality(T) \in Nat
        BY SubsetFacts
  <1>1. SUFFICES ASSUME SumFunctionOnSet(f, S) \notin Nat PROVE FALSE
        OBVIOUS
  <1>2. Cardinality(S) \in Bad
        BY <1>0, <1>1
  <1>3. PICK n \in Bad : \A k \in Bad : n <= k
        BY <1>2, NatMinimum
  <1>4. PICK T \in SUBSET S : Cardinality(T) = n /\ SumFunctionOnSet(f, T) \notin Nat
        BY <1>3
  <1>5. T # {}
        BY <1>4, SumOfEmpty
  <1>6. PICK x \in T : TRUE
        BY <1>5
  <1>7. IsFiniteSet(T) /\ \A y \in T : f[y] \in Int
        BY <1>0
  <1>8. SumFunctionOnSet(f, T) = f[x] + SumFunctionOnSet(f, T \ {x})
        BY <1>7, SumRemove
  <1>9. Cardinality(T \ {x}) = n - 1 /\ Cardinality(T \ {x}) \in Nat
        BY <1>0, <1>4, <1>7, FS_RemoveElement
  <1>10. SumFunctionOnSet(f, T \ {x}) \in Nat
        BY <1>3, <1>9
  <1>. QED  BY <1>4, <1>8, <1>10

(* Sums of functions with the same values are equal.                       *)
THEOREM SumSame ==
  ASSUME NEW f, NEW g, NEW S, IsFiniteSet(S),
         \A x \in S : f[x] \in Int /\ g[x] = f[x]
  PROVE  SumFunctionOnSet(g, S) = SumFunctionOnSet(f, S)
PROOF
  <1> DEFINE Differ(T) == SumFunctionOnSet(g, T) # SumFunctionOnSet(f, T)
             Bad == {n \in Nat : \E T \in SUBSET S : Cardinality(T) = n /\ Differ(T)}
  <1>0. \A T \in SUBSET S : IsFiniteSet(T) /\ Cardinality(T) \in Nat
        BY SubsetFacts
  <1>1. SUFFICES ASSUME Differ(S) PROVE FALSE
        OBVIOUS
  <1>2. Cardinality(S) \in Bad
        BY <1>0, <1>1
  <1>3. PICK n \in Bad : \A k \in Bad : n <= k
        BY <1>2, NatMinimum
  <1>4. PICK T \in SUBSET S : Cardinality(T) = n /\ Differ(T)
        BY <1>3
  <1>5. T # {}
        BY <1>4, SumOfEmpty
  <1>6. PICK x \in T : TRUE
        BY <1>5
  <1>7. IsFiniteSet(T) /\ (\A y \in T : f[y] \in Int) /\ (\A y \in T : g[y] \in Int)
        BY <1>0
  <1>8. /\ SumFunctionOnSet(f, T) = f[x] + SumFunctionOnSet(f, T \ {x})
        /\ SumFunctionOnSet(g, T) = g[x] + SumFunctionOnSet(g, T \ {x})
        BY <1>7, SumRemove
  <1>9. Cardinality(T \ {x}) = n - 1 /\ Cardinality(T \ {x}) \in Nat
        BY <1>0, <1>4, <1>7, FS_RemoveElement
  <1>10. SumFunctionOnSet(g, T \ {x}) = SumFunctionOnSet(f, T \ {x})
        BY <1>3, <1>9
  <1>. QED  BY <1>4, <1>8, <1>10
-----------------------------------------------------------------------------
(* Induction over the subsets of a finite set.                             *)
LEMMA SubsetInduction ==
  ASSUME NEW S, IsFiniteSet(S), NEW Good, {} \in Good,
         \A T \in SUBSET S : \A x \in T : T \ {x} \in Good => T \in Good
  PROVE  S \in Good
PROOF
  <1> DEFINE Bad == {n \in Nat : \E T \in SUBSET S : Cardinality(T) = n /\ T \notin Good}
  <1>0. \A T \in SUBSET S : IsFiniteSet(T) /\ Cardinality(T) \in Nat
        BY SubsetFacts
  <1>1. SUFFICES ASSUME S \notin Good PROVE FALSE
        OBVIOUS
  <1>2. Cardinality(S) \in Bad
        BY <1>0, <1>1
  <1>3. PICK n \in Bad : \A k \in Bad : n <= k
        BY <1>2, NatMinimum
  <1>4. PICK T \in SUBSET S : Cardinality(T) = n /\ T \notin Good
        BY <1>3
  <1>5. PICK x \in T : TRUE
        BY <1>4
  <1>6. IsFiniteSet(T)
        BY <1>0
  <1>7. Cardinality(T \ {x}) = n - 1 /\ Cardinality(T \ {x}) \in Nat
        BY <1>0, <1>4, <1>6, FS_RemoveElement
  <1>8. T \ {x} \in Good
        BY <1>3, <1>7
  <1>. QED  BY <1>4, <1>8

(* A sum over two disjoint sets is the sum of the sums over each.          *)
THEOREM SumDisjoint ==
  ASSUME NEW f, NEW S, IsFiniteSet(S), NEW T, IsFiniteSet(T), S \cap T = {},
         \A x \in S \cup T : f[x] \in Int
  PROVE  SumFunctionOnSet(f, S \cup T) = SumFunctionOnSet(f, S) + SumFunctionOnSet(f, T)
PROOF
  <1> DEFINE Good == {U \in SUBSET T :
               SumFunctionOnSet(f, S \cup U) = SumFunctionOnSet(f, S) + SumFunctionOnSet(f, U)}
  <1>0. \A U \in SUBSET T : IsFiniteSet(U) /\ IsFiniteSet(S \cup U)
        BY SubsetFacts, FS_Union
  <1>1. SumFunctionOnSet(f, S) \in Int
        BY SumType
  <1>2. {} \in Good
    <2>1. S \cup {} = S
          OBVIOUS
    <2>2. SumFunctionOnSet(f, {}) = 0
          BY SumOfEmpty
    <2>. QED  BY <1>1, <2>1, <2>2
  <1>3. ASSUME NEW U \in SUBSET T, NEW x \in U, U \ {x} \in Good
        PROVE  U \in Good
    <2>1. x \notin S /\ f[x] \in Int /\ (S \cup U) \ {x} = S \cup (U \ {x})
          OBVIOUS
    <2>2. IsFiniteSet(U) /\ IsFiniteSet(S \cup U) /\ IsFiniteSet(U \ {x})
          BY <1>0
    <2>3. SumFunctionOnSet(f, S \cup U) = f[x] + SumFunctionOnSet(f, (S \cup U) \ {x})
      <3> DEFINE V == S \cup U
      <3>1. IsFiniteSet(V) /\ x \in V /\ \A y \in V : f[y] \in Int
            BY <2>2
      <3> HIDE DEF V
      <3>2. SumFunctionOnSet(f, V) = f[x] + SumFunctionOnSet(f, V \ {x})
            BY <3>1, SumRemove
      <3>. QED  BY <3>2 DEF V
    <2>4. SumFunctionOnSet(f, U) = f[x] + SumFunctionOnSet(f, U \ {x})
      <3>1. \A y \in U : f[y] \in Int
            OBVIOUS
      <3>. QED  BY <2>2, <3>1, SumRemove
    <2>5. SumFunctionOnSet(f, U \ {x}) \in Int
      <3>1. \A y \in U \ {x} : f[y] \in Int
            OBVIOUS
      <3>. QED  BY <2>2, <3>1, SumType
    <2>6. SumFunctionOnSet(f, S \cup (U \ {x}))
            = SumFunctionOnSet(f, S) + SumFunctionOnSet(f, U \ {x})
          BY <1>3
    <2>7. SumFunctionOnSet(f, S \cup U) = f[x] + SumFunctionOnSet(f, S \cup (U \ {x}))
          BY <2>1, <2>3
    <2>. QED  BY <1>1, <2>1, <2>4, <2>5, <2>6, <2>7
  <1> HIDE DEF Good
  <1>4. T \in Good
        BY <1>2, <1>3, SubsetInduction
  <1>. QED  BY <1>4 DEF Good

(* The sum of a function that is everywhere the sum of two others.         *)
THEOREM SumPlus ==
  ASSUME NEW f, NEW g, NEW h, NEW S, IsFiniteSet(S),
         \A x \in S : f[x] \in Int /\ g[x] \in Int /\ h[x] = f[x] + g[x]
  PROVE  SumFunctionOnSet(h, S) = SumFunctionOnSet(f, S) + SumFunctionOnSet(g, S)
PROOF
  <1> DEFINE Good == {U \in SUBSET S :
               SumFunctionOnSet(h, U) = SumFunctionOnSet(f, U) + SumFunctionOnSet(g, U)}
  <1>0. \A U \in SUBSET S : IsFiniteSet(U)
        BY SubsetFacts
  <1>1. \A x \in S : h[x] \in Int
        OBVIOUS
  <1>2. {} \in Good
        BY SumOfEmpty
  <1>3. ASSUME NEW U \in SUBSET S, NEW x \in U, U \ {x} \in Good
        PROVE  U \in Good
    <2>1. /\ SumFunctionOnSet(f, U) = f[x] + SumFunctionOnSet(f, U \ {x})
          /\ SumFunctionOnSet(g, U) = g[x] + SumFunctionOnSet(g, U \ {x})
          /\ SumFunctionOnSet(h, U) = h[x] + SumFunctionOnSet(h, U \ {x})
          BY <1>0, <1>1, SumRemove
    <2>2. /\ SumFunctionOnSet(f, U \ {x}) \in Int
          /\ SumFunctionOnSet(g, U \ {x}) \in Int
          BY <1>0, SumType
    <2>3. f[x] \in Int /\ g[x] \in Int /\ h[x] = f[x] + g[x]
          OBVIOUS
    <2>4. SumFunctionOnSet(h, U \ {x})
            = SumFunctionOnSet(f, U \ {x}) + SumFunctionOnSet(g, U \ {x})
          BY <1>3
    <2>. QED  BY <2>1, <2>2, <2>3, <2>4
  <1> HIDE DEF Good
  <1>4. S \in Good
        BY <1>2, <1>3, SubsetInduction
  <1>. QED  BY <1>4 DEF Good

(* A function that is nowhere larger has no larger sum.                    *)
THEOREM SumAtMost ==
  ASSUME NEW f, NEW g, NEW S, IsFiniteSet(S),
         \A x \in S : f[x] \in Int /\ g[x] \in Int /\ f[x] <= g[x]
  PROVE  SumFunctionOnSet(f, S) <= SumFunctionOnSet(g, S)
PROOF
  <1> DEFINE Good == {U \in SUBSET S : SumFunctionOnSet(f, U) <= SumFunctionOnSet(g, U)}
  <1>0. \A U \in SUBSET S : IsFiniteSet(U)
        BY SubsetFacts
  <1>1. {} \in Good
        BY SumOfEmpty
  <1>2. ASSUME NEW U \in SUBSET S, NEW x \in U, U \ {x} \in Good
        PROVE  U \in Good
    <2>1. /\ SumFunctionOnSet(f, U) = f[x] + SumFunctionOnSet(f, U \ {x})
          /\ SumFunctionOnSet(g, U) = g[x] + SumFunctionOnSet(g, U \ {x})
          BY <1>0, SumRemove
    <2>2. /\ SumFunctionOnSet(f, U \ {x}) \in Int
          /\ SumFunctionOnSet(g, U \ {x}) \in Int
          BY <1>0, SumType
    <2>3. f[x] \in Int /\ g[x] \in Int /\ f[x] <= g[x]
          OBVIOUS
    <2>4. SumFunctionOnSet(f, U \ {x}) <= SumFunctionOnSet(g, U \ {x})
          BY <1>2
    <2>. QED  BY <2>1, <2>2, <2>3, <2>4
  <1> HIDE DEF Good
  <1>3. S \in Good
        BY <1>1, <1>2, SubsetInduction
  <1>. QED  BY <1>3 DEF Good

(* Summing class by class gives the sum: w maps the elements of S to       *)
(* their classes in T, C[t] are those of class t, and g sums f over each.  *)
THEOREM SumByClass ==
  ASSUME NEW f, NEW S, IsFiniteSet(S), \A x \in S : f[x] \in Int,
         NEW T, IsFiniteSet(T), NEW w, \A x \in S : w[x] \in T,
         NEW C, \A t \in T : C[t] \in SUBSET S /\ \A x \in S : x \in C[t] <=> w[x] = t,
         NEW g, \A t \in T : g[t] = SumFunctionOnSet(f, C[t])
  PROVE  SumFunctionOnSet(g, T) = SumFunctionOnSet(f, S)
PROOF
  <1> DEFINE In(U) == {x \in S : w[x] \in U}
             Good == {U \in SUBSET T : SumFunctionOnSet(g, U) = SumFunctionOnSet(f, In(U))}
  <1>0. /\ \A U \in SUBSET T : IsFiniteSet(U)
        /\ \A R \in SUBSET S : IsFiniteSet(R) /\ SumFunctionOnSet(f, R) \in Int
    <2>1. \A R \in SUBSET S : IsFiniteSet(R)
          BY SubsetFacts
    <2>. QED  BY <2>1, SubsetFacts, SumType
  <1>1. \A t \in T : g[t] \in Int
    <2> TAKE t \in T
    <2>1. C[t] \in SUBSET S /\ g[t] = SumFunctionOnSet(f, C[t])
          OBVIOUS
    <2>. QED  BY <1>0, <2>1
  <1>2. {} \in Good
    <2>1. In({}) = {}
          OBVIOUS
    <2>. QED  BY <2>1, SumOfEmpty
  <1>3. ASSUME NEW U \in SUBSET T, NEW t \in U, U \ {t} \in Good
        PROVE  U \in Good
    <2> DEFINE rest == In(U \ {t})
               class == C[t]
    <2>1. SumFunctionOnSet(g, U) = g[t] + SumFunctionOnSet(g, U \ {t})
          BY <1>0, <1>1, SumRemove
    <2>2. SumFunctionOnSet(g, U \ {t}) = SumFunctionOnSet(f, rest)
          BY <1>3
    <2>3. In(U) = rest \cup class /\ rest \cap class = {} /\ rest \in SUBSET S /\ class \in SUBSET S
          OBVIOUS
    <2>4. g[t] = SumFunctionOnSet(f, class)
          OBVIOUS
    <2> HIDE DEF rest, class
    <2>5. SumFunctionOnSet(f, rest \cup class)
            = SumFunctionOnSet(f, rest) + SumFunctionOnSet(f, class)
      <3>1. IsFiniteSet(rest) /\ IsFiniteSet(class) /\ \A x \in rest \cup class : f[x] \in Int
            BY <1>0, <2>3
      <3>. QED  BY <2>3, <3>1, SumDisjoint
    <2>6. SumFunctionOnSet(f, rest) \in Int /\ SumFunctionOnSet(f, class) \in Int
          BY <1>0, <2>3
    <2> HIDE DEF In
    <2>7. SumFunctionOnSet(g, U) = SumFunctionOnSet(f, rest \cup class)
          BY <2>1, <2>2, <2>4, <2>5, <2>6
    <2>8. SumFunctionOnSet(g, U) = SumFunctionOnSet(f, In(U))
          BY <2>3, <2>7
    <2>. QED  BY <2>8
  <1> HIDE DEF Good
  <1>4. T \in Good
        BY <1>2, <1>3, SubsetInduction
  <1>5. In(T) = S
        OBVIOUS
  <1>. QED  BY <1>4, <1>5 DEF Good

(* A function that is 0 everywhere sums to 0.                              *)
THEOREM SumOfZeros ==
  ASSUME NEW f, NEW S, IsFiniteSet(S), \A x \in S : f[x] = 0
  PROVE  SumFunctionOnSet(f, S) = 0
PROOF
  <1>1. \A x \in S : f[x] \in Int /\ f[x] = f[x] + f[x]
        OBVIOUS
  <1>2. SumFunctionOnSet(f, S) = SumFunctionOnSet(f, S) + SumFunctionOnSet(f, S)
        BY <1>1, SumPlus
  <1>3. SumFunctionOnSet(f, S) \in Int
        BY <1>1, SumType
  <1>4. \A z \in Int : z = z + z => z = 0
        OBVIOUS
  <1>. QED  BY <1>2, <1>3, <1>4

(* Rows first or columns first, the sum is the same.                       *)
THEOREM SumSwap ==
  ASSUME NEW S, IsFiniteSet(S), NEW T, IsFiniteSet(T),
         NEW g, \A x \in S, y \in T : g[x][y] \in Int,
         NEW h, \A x \in S, y \in T : h[y][x] = g[x][y]
  PROVE  SumFunctionOnSet([x \in S |-> SumFunctionOnSet(g[x], T)], S)
           = SumFunctionOnSet([y \in T |-> SumFunctionOnSet(h[y], S)], T)
PROOF
  <1> DEFINE r == [x \in S |-> SumFunctionOnSet(g[x], T)]
             c == [y \in T |-> SumFunctionOnSet(h[y], S)]
             part(Q) == [y \in T |-> SumFunctionOnSet(h[y], Q)]
             Good    == {Q \in SUBSET S : SumFunctionOnSet(r, Q) = SumFunctionOnSet(part(Q), T)}
  <1>1. \A Q \in SUBSET S : IsFiniteSet(Q)
        BY FS_Subset
  <1>2. \A y \in T : \A x \in S : h[y][x] = g[x][y] /\ h[y][x] \in Int
        OBVIOUS
  <1>3. \A x \in S : r[x] \in Int
        BY SumType
  <1>4. \A Q \in SUBSET S : \A y \in T :
          part(Q)[y] = SumFunctionOnSet(h[y], Q) /\ part(Q)[y] \in Int
        BY <1>1, <1>2, SumType
  <1>5. {} \in Good
    <2>1. \A y \in T : part({})[y] = 0
          BY SumOfEmpty
    <2> HIDE DEF part
    <2>. QED  BY <2>1, SumOfEmpty, SumOfZeros
  <1>6. ASSUME NEW Q \in SUBSET S, NEW x \in Q, Q \ {x} \in Good
        PROVE  Q \in Good
    <2>1. SumFunctionOnSet(r, Q) = r[x] + SumFunctionOnSet(r, Q \ {x})
          BY <1>1, <1>3, SumRemove
    <2>2. \A y \in T : part(Q)[y] = g[x][y] + part(Q \ {x})[y] /\ g[x][y] \in Int
      <3> TAKE y \in T
      <3>1. SumFunctionOnSet(h[y], Q) = h[y][x] + SumFunctionOnSet(h[y], Q \ {x})
            BY <1>1, <1>2, SumRemove
      <3>. QED  BY <1>2, <1>4, <3>1
    <2>3. \A y \in T : part(Q \ {x})[y] \in Int
          BY <1>4
    <2> HIDE DEF part
    <2>4. SumFunctionOnSet(part(Q), T)
            = SumFunctionOnSet(g[x], T) + SumFunctionOnSet(part(Q \ {x}), T)
      <3> DEFINE whole == part(Q)
                 row   == g[x]
                 less  == part(Q \ {x})
      <3>1. \A y \in T : row[y] \in Int /\ less[y] \in Int /\ whole[y] = row[y] + less[y]
            BY <2>2, <2>3
      <3> HIDE DEF whole, row, less
      <3>2. SumFunctionOnSet(whole, T) = SumFunctionOnSet(row, T) + SumFunctionOnSet(less, T)
            BY <3>1, SumPlus
      <3>. QED  BY <3>2 DEF whole, row, less
    <2>5. SumFunctionOnSet(r, Q \ {x}) = SumFunctionOnSet(part(Q \ {x}), T)
          BY <1>6
    <2>6. r[x] = SumFunctionOnSet(g[x], T)
          OBVIOUS
    <2>. QED  BY <2>1, <2>4, <2>5, <2>6
  <1>7. S \in Good
    <2> HIDE DEF Good
    <2>. QED  BY <1>5, <1>6, SubsetInduction
  <1>8. \A y \in T : c[y] = part(S)[y] /\ part(S)[y] \in Int
        BY <1>4
  <1> HIDE DEF part
  <1>9. SumFunctionOnSet(c, T) = SumFunctionOnSet(part(S), T)
        BY <1>8, SumSame
  <1>. QED  BY <1>7, <1>9

(* Leaving elements out is summing 0 for them.                             *)
THEOREM SumOfPart ==
  ASSUME NEW f, NEW g, NEW S, IsFiniteSet(S), NEW P \in SUBSET S,
         \A x \in P : f[x] \in Int /\ g[x] = f[x],
         \A x \in S \ P : g[x] = 0
  PROVE  SumFunctionOnSet(f, P) = SumFunctionOnSet(g, S)
PROOF
  <1>1. IsFiniteSet(P) /\ IsFiniteSet(S \ P)
        BY SubsetFacts
  <1>2. P \cup (S \ P) = S /\ P \cap (S \ P) = {}
        OBVIOUS
  <1>3. \A x \in P \cup (S \ P) : g[x] \in Int
        OBVIOUS
  <1>4. SumFunctionOnSet(g, P \cup (S \ P))
          = SumFunctionOnSet(g, P) + SumFunctionOnSet(g, S \ P)
        BY <1>1, <1>2, <1>3, SumDisjoint
  <1>5. SumFunctionOnSet(g, S \ P) = 0
        BY <1>1, SumOfZeros
  <1>6. SumFunctionOnSet(g, P) = SumFunctionOnSet(f, P)
        BY <1>1, SumSame
  <1>7. SumFunctionOnSet(f, P) \in Int
        BY <1>1, SumType
  <1>8. SumFunctionOnSet(g, P \cup (S \ P)) = SumFunctionOnSet(f, P)
        BY <1>4, <1>5, <1>6, <1>7
  <1>. QED  BY <1>2, <1>8

(* Changing a function at one element changes its sum by as much.          *)
THEOREM SumChange ==
  ASSUME NEW f, NEW g, NEW S, IsFiniteSet(S), NEW e \in S,
         \A x \in S : f[x] \in Int /\ g[x] \in Int,
         \A x \in S \ {e} : g[x] = f[x]
  PROVE  SumFunctionOnSet(g, S) = SumFunctionOnSet(f, S) + g[e] - f[e]
PROOF
  <1>1. /\ SumFunctionOnSet(f, S) = f[e] + SumFunctionOnSet(f, S \ {e})
        /\ SumFunctionOnSet(g, S) = g[e] + SumFunctionOnSet(g, S \ {e})
        BY SumRemove
  <1>2. IsFiniteSet(S \ {e})
        BY SubsetFacts
  <1>3. SumFunctionOnSet(g, S \ {e}) = SumFunctionOnSet(f, S \ {e})
        BY <1>2, SumSame
  <1>4. SumFunctionOnSet(f, S \ {e}) \in Int
        BY <1>2, SumType
  <1>. QED  BY <1>1, <1>3, <1>4

(* A function that is 0 everywhere but at one element.                     *)
THEOREM SumOfOne ==
  ASSUME NEW f, NEW S, IsFiniteSet(S), NEW e \in S, f[e] \in Int,
         \A x \in S \ {e} : f[x] = 0
  PROVE  SumFunctionOnSet(f, S) = f[e]
PROOF
  <1>1. \A x \in S : f[x] \in Int
        OBVIOUS
  <1>2. SumFunctionOnSet(f, S) = f[e] + SumFunctionOnSet(f, S \ {e})
        BY <1>1, SumRemove
  <1>3. IsFiniteSet(S \ {e})
        BY SubsetFacts
  <1>4. SumFunctionOnSet(f, S \ {e}) = 0
        BY <1>3, SumOfZeros
  <1>. QED  BY <1>2, <1>4
-----------------------------------------------------------------------------
(* Arithmetic, accounts and books.                                         *)

(* Rounding down a quotient of naturals gives a natural.                   *)
LEMMA DivNat ==
  ASSUME NEW x \in Nat, NEW d \in Nat \ {0}
  PROVE  /\ x \div d \in Nat
         /\ d * (x \div d) <= x
         /\ x < d * (x \div d) + d
PROOF
  <1>1. x = d * (x \div d) + (x % d) /\ (x % d) \in 0 .. d - 1 /\ x \div d \in Int
        OBVIOUS
  <1>2. x \div d >= 0
        OBVIOUS
  <1>. QED  BY <1>1, <1>2

(* Products of naturals are naturals and grow with their factors.          *)
LEMMA TimesNat ==
  ASSUME NEW x \in Nat, NEW y \in Nat
  PROVE  /\ x * y \in Nat
         /\ \A z \in Nat : x <= z => x * y <= z * y
         /\ \A z \in Nat : y <= z => x * y <= x * z
PROOF
  <1>1. x * y \in Nat
        OBVIOUS
  <1>2. \A z \in Nat : x <= z => x * y <= z * y
    <2> TAKE z \in Nat
    <2> HAVE x <= z
    <2>1. z - x \in Nat /\ (z - x) * y \in Nat
          OBVIOUS
    <2>2. (z - x) * y = z * y - x * y
          OBVIOUS
    <2>. QED  BY <2>1, <2>2
  <1>3. \A z \in Nat : y <= z => x * y <= x * z
    <2> TAKE z \in Nat
    <2> HAVE y <= z
    <2>1. z - y \in Nat /\ x * (z - y) \in Nat
          OBVIOUS
    <2>2. x * (z - y) = x * z - x * y
          OBVIOUS
    <2>. QED  BY <2>1, <2>2
  <1>. QED  BY <1>1, <1>2, <1>3

(* A larger dividend never gives a smaller quotient.                       *)
LEMMA DivGrows ==
  ASSUME NEW x \in Nat, NEW y \in Nat, x <= y, NEW d \in Nat \ {0}
  PROVE  x \div d <= y \div d
PROOF
  <1> DEFINE u == x \div d
             v == y \div d
  <1>1. u \in Nat /\ v \in Nat /\ d * u <= x /\ y < d * v + d
        BY DivNat
  <1> HIDE DEF u, v
  <1>2. ASSUME u > v PROVE FALSE
    <2>1. u >= v + 1 /\ v + 1 \in Nat
          BY <1>1, <1>2
    <2>2. d * (v + 1) <= d * u
          BY <2>1, <1>1, TimesNat
    <2>3. d * (v + 1) = d * v + d
          BY <1>1
    <2>. QED  BY <1>1, <2>2, <2>3
  <1>3. u <= v
        BY <1>1, <1>2
  <1>. QED  BY <1>3 DEF u, v

(* The quotient that an exact multiple of the divisor bounds.              *)
LEMMA DivBound ==
  ASSUME NEW x \in Nat, NEW d \in Nat \ {0}, NEW n \in Nat
  PROVE  /\ x <= d * n => x \div d <= n
         /\ d * n <= x => n <= x \div d
PROOF
  <1> DEFINE u == x \div d
  <1>1. u \in Nat /\ d * u <= x /\ x < d * u + d
        BY DivNat
  <1> HIDE DEF u
  <1>2. ASSUME x <= d * n, u > n PROVE FALSE
    <2>1. n + 1 \in Nat /\ d * (n + 1) <= d * u
          BY <1>1, <1>2, TimesNat
    <2>2. d * (n + 1) = d * n + d
          OBVIOUS
    <2>. QED  BY <1>1, <1>2, <2>1, <2>2
  <1>3. ASSUME d * n <= x, u < n PROVE FALSE
    <2>1. u + 1 \in Nat /\ d * (u + 1) <= d * n
          BY <1>1, <1>3, TimesNat
    <2>2. d * (u + 1) = d * u + d
          BY <1>1
    <2>. QED  BY <1>1, <1>3, <2>1, <2>2
  <1>. QED  BY <1>1, <1>2, <1>3 DEF u

(* `as u64` of a natural is a natural.                                     *)
LEMMA AsU64Type ==
  ASSUME NEW x \in Nat
  PROVE  AsU64(x) \in 0 .. U64Max
BY U64Assumption DEF AsU64

(* A fee or a rebate is never more than the amount it is taken from        *)
(* (fees.rs: rates are at most 100 percent).                               *)
THEOREM FeeBound ==
  ASSUME NEW rate \in 0 .. FeeToBpsDivisor, NEW quantity \in Nat
  PROVE  /\ TakerFee(rate, quantity) \in Nat
         /\ TakerFee(rate, quantity) <= quantity
         /\ MakerRebate(rate, quantity) \in Nat
         /\ MakerRebate(rate, quantity) <= quantity
PROOF
  <1>1. FeeToBpsDivisor \in Nat \ {0} /\ rate \in Nat
        BY DivisorAssumption
  <1>2. quantity * rate \in Nat /\ quantity * rate <= FeeToBpsDivisor * quantity
    <2>1. quantity * rate <= quantity * FeeToBpsDivisor
          BY <1>1, TimesNat
    <2>. QED  BY <1>1, <2>1
  <1>3. (quantity * rate) \div FeeToBpsDivisor \in Nat
        BY <1>1, <1>2, DivNat
  <1>4. (quantity * rate) \div FeeToBpsDivisor <= quantity
        BY <1>1, <1>2, DivBound
  <1>. QED  BY <1>3, <1>4 DEF TakerFee, MakerRebate

(* The taker fee grows with the amount.                                    *)
THEOREM FeeGrows ==
  ASSUME NEW rate \in 0 .. FeeToBpsDivisor, NEW x \in Nat, NEW y \in Nat, x <= y
  PROVE  TakerFee(rate, x) <= TakerFee(rate, y)
PROOF
  <1>1. FeeToBpsDivisor \in Nat \ {0} /\ rate \in Nat
        BY DivisorAssumption
  <1>2. x * rate \in Nat /\ y * rate \in Nat /\ x * rate <= y * rate
        BY <1>1, TimesNat
  <1>. QED  BY <1>1, <1>2, DivGrows DEF TakerFee

(* Withholding the fee is enough: whoever spends no more than what is left *)
(* of max_spend once its fee is set aside can pay the fee on what was      *)
(* spent, whatever the rounding (withhold_taker_fee of fees.rs, on which   *)
(* "bid bug: overspent" and "market order overspent" rely).                *)
THEOREM WithheldCoversFee ==
  ASSUME NEW rate \in 0 .. FeeToBpsDivisor, NEW max_spend \in Nat, NEW spent \in Nat,
         spent <= WithholdTakerFee(rate, max_spend)
  PROVE  spent + TakerFee(rate, spent) <= max_spend
PROOF
  <1>1. TakerFee(rate, max_spend) \in Nat /\ TakerFee(rate, max_spend) <= max_spend
        BY FeeBound
  <1>2. spent <= max_spend - TakerFee(rate, max_spend)
        BY <1>1 DEF WithholdTakerFee, SaturatingSub
  <1>3. TakerFee(rate, spent) \in Nat /\ TakerFee(rate, spent) <= TakerFee(rate, max_spend)
    <2>1. spent <= max_spend
          BY <1>1, <1>2
    <2>. QED  BY <2>1, FeeBound, FeeGrows
  <1>. QED  BY <1>1, <1>2, <1>3

(* A rebate at a rate up to the taker's, on part of the amount, fits in    *)
(* what the fee grows by when that part is added.                          *)
LEMMA RebateFitsInFee ==
  ASSUME NEW maker \in 0 .. FeeToBpsDivisor, NEW taker \in 0 .. FeeToBpsDivisor,
         maker <= taker, NEW x \in Nat, NEW y \in Nat
  PROVE  MakerRebate(maker, x) + TakerFee(taker, y) <= TakerFee(taker, x + y)
PROOF
  <1> DEFINE D == FeeToBpsDivisor
             u == (x * maker) \div D
             v == (y * taker) \div D
  <1>1. D \in Nat \ {0} /\ maker \in Nat /\ taker \in Nat
        BY DivisorAssumption
  <1>2. x * maker \in Nat /\ x * taker \in Nat /\ x * maker <= x * taker /\ y * taker \in Nat
        BY <1>1, TimesNat
  <1>3. u \in Nat /\ v \in Nat /\ D * u <= x * maker /\ D * v <= y * taker
        BY <1>1, <1>2, DivNat
  <1>4. (x + y) * taker = x * taker + y * taker /\ (x + y) * taker \in Nat
        BY <1>1, <1>2
  <1> HIDE DEF D, u, v
  <1>5. D * (u + v) = D * u + D * v /\ u + v \in Nat
        BY <1>1, <1>3
  <1>6. D * (u + v) <= (x + y) * taker
    <2>1. D * u \in Nat /\ D * v \in Nat
          BY <1>1, <1>3, TimesNat
    <2>. QED  BY <1>2, <1>3, <1>4, <1>5, <2>1
  <1>7. u + v <= ((x + y) * taker) \div D
        BY <1>1, <1>4, <1>5, <1>6, DivBound
  <1>. QED  BY <1>7 DEF u, v, D, MakerRebate, TakerFee

(* The fee of a taker covers the rebates of all the makers it fills, each  *)
(* rounded on its own, so total_taker_fee - total_maker_rebate             *)
(* (limit_order.rs, market_order.rs) never underflows.  create_market      *)
(* insists on the order of the rates.                                      *)
THEOREM FeeCoversRebates ==
  ASSUME NEW maker \in 0 .. FeeToBpsDivisor, NEW taker \in 0 .. FeeToBpsDivisor,
         maker <= taker, NEW S, IsFiniteSet(S), NEW paid \in [S -> Nat]
  PROVE  SumFunctionOnSet([i \in S |-> MakerRebate(maker, paid[i])], S)
           <= TakerFee(taker, SumFunctionOnSet(paid, S))
PROOF
  <1> DEFINE r == [i \in S |-> MakerRebate(maker, paid[i])]
             Fits(T) == SumFunctionOnSet(r, T) <= TakerFee(taker, SumFunctionOnSet(paid, T))
             Bad == {n \in Nat : \E T \in SUBSET S : Cardinality(T) = n /\ ~ Fits(T)}
  <1>0. \A T \in SUBSET S : IsFiniteSet(T) /\ Cardinality(T) \in Nat
        BY SubsetFacts
  <1>r. \A i \in S : r[i] \in Nat /\ r[i] = MakerRebate(maker, paid[i])
        BY FeeBound
  <1> HIDE DEF r
  <1>n. \A T \in SUBSET S : SumFunctionOnSet(r, T) \in Nat /\ SumFunctionOnSet(paid, T) \in Nat
        BY <1>0, <1>r, SumNat
  <1>1. SUFFICES ASSUME ~ Fits(S) PROVE FALSE
        BY DEF r
  <1>2. Cardinality(S) \in Bad
        BY <1>0, <1>1
  <1>3. PICK n \in Bad : \A k \in Bad : n <= k
        BY <1>2, NatMinimum
  <1>4. PICK T \in SUBSET S : Cardinality(T) = n /\ ~ Fits(T)
        BY <1>3
  <1>5. T # {}
    <2>1. SumFunctionOnSet(r, {}) = 0 /\ SumFunctionOnSet(paid, {}) = 0
          BY SumOfEmpty
    <2>2. TakerFee(taker, 0) \in Nat
          BY FeeBound
    <2>. QED  BY <1>4, <2>1, <2>2
  <1>6. PICK x \in T : TRUE
        BY <1>5
  <1>7. IsFiniteSet(T) /\ (\A y \in T : r[y] \in Int) /\ (\A y \in T : paid[y] \in Int)
        BY <1>0, <1>r
  <1>8. /\ SumFunctionOnSet(r, T) = r[x] + SumFunctionOnSet(r, T \ {x})
        /\ SumFunctionOnSet(paid, T) = paid[x] + SumFunctionOnSet(paid, T \ {x})
        BY <1>7, SumRemove
  <1>9. Cardinality(T \ {x}) = n - 1 /\ Cardinality(T \ {x}) \in Nat /\ T \ {x} \in SUBSET S
        BY <1>0, <1>4, <1>7, FS_RemoveElement
  <1>10. Fits(T \ {x})
        BY <1>3, <1>9
  <1> DEFINE a == paid[x]
             b == SumFunctionOnSet(paid, T \ {x})
             c == SumFunctionOnSet(r, T \ {x})
  <1>11. a \in Nat /\ b \in Nat /\ c \in Nat
        BY <1>n, <1>9
  <1>12. MakerRebate(maker, a) + TakerFee(taker, b) <= TakerFee(taker, a + b)
        BY <1>11, RebateFitsInFee
  <1>13. c <= TakerFee(taker, b) /\ TakerFee(taker, b) \in Nat /\ TakerFee(taker, a + b) \in Nat
         /\ MakerRebate(maker, a) \in Nat
        BY <1>10, <1>11, FeeBound
  <1>14. SumFunctionOnSet(r, T) = MakerRebate(maker, a) + c
        BY <1>8, <1>r
  <1>15. SumFunctionOnSet(paid, T) = a + b
        BY <1>8
  <1> HIDE DEF a, b, c
  <1>16. SumFunctionOnSet(r, T) <= TakerFee(taker, a + b)
        BY <1>11, <1>12, <1>13, <1>14
  <1>. QED  BY <1>4, <1>15, <1>16

-----------------------------------------------------------------------------

(* Depositing keeps an account well formed and touches only balances.      *)
LEMMA DepositFacts ==
  ASSUME NEW acc, IsAccount(acc), NEW token \in Tokens, NEW amount \in Nat
  PROVE  /\ IsAccount(Deposit(acc, token, amount))
         /\ Deposit(acc, token, amount).open = acc.open
PROOF
  <1> DEFINE new == [t \in DOMAIN acc.balances \cup {token} |->
                       IF t = token THEN Balance(acc, t) + amount ELSE acc.balances[t]]
  <1>1. /\ acc \in [balances : {acc.balances}, open : [Markets -> SUBSET Nat], storage : Nat]
        /\ DOMAIN acc.balances \subseteq Tokens
        /\ acc.balances \in [DOMAIN acc.balances -> Nat]
        BY DEF IsAccount, IsPartialFunction
  <1>2. Deposit(acc, token, amount) = [acc EXCEPT !.balances = new]
        BY DEF Deposit
  <1>3. \A t \in DOMAIN acc.balances \cup {token} :
           (IF t = token THEN Balance(acc, t) + amount ELSE acc.balances[t]) \in Nat
        BY <1>1 DEF Balance
  <1>4. new \in [DOMAIN acc.balances \cup {token} -> Nat]
        BY <1>3
  <1>5. DOMAIN new = DOMAIN acc.balances \cup {token}
        OBVIOUS
  <1> HIDE DEF new
  <1>6. IsPartialFunction(new, Tokens, Nat)
        BY <1>1, <1>4, <1>5 DEF IsPartialFunction
  <1>. QED  BY <1>1, <1>2, <1>6 DEF IsAccount

(* So does a withdrawal that its guard allows.                             *)
LEMMA WithdrawFacts ==
  ASSUME NEW acc, IsAccount(acc), NEW token \in Tokens, NEW amount \in Nat,
         CanWithdraw(acc, token, amount)
  PROVE  /\ IsAccount(Withdraw(acc, token, amount))
         /\ Withdraw(acc, token, amount).open = acc.open
PROOF
  <1> DEFINE left == DOMAIN acc.balances \
                       (IF acc.balances[token] = amount THEN {token} ELSE {})
             new == [t \in left |-> IF t = token THEN acc.balances[t] - amount
                                                 ELSE acc.balances[t]]
  <1>1. /\ acc \in [balances : {acc.balances}, open : [Markets -> SUBSET Nat], storage : Nat]
        /\ DOMAIN acc.balances \subseteq Tokens
        /\ acc.balances \in [DOMAIN acc.balances -> Nat]
        /\ token \in DOMAIN acc.balances /\ amount <= acc.balances[token]
        BY DEF IsAccount, IsPartialFunction, CanWithdraw
  <1>2. Withdraw(acc, token, amount) = [acc EXCEPT !.balances = new]
        BY DEF Withdraw
  <1>3. left \subseteq DOMAIN acc.balances
        OBVIOUS
  <1> HIDE DEF left
  <1>4. \A t \in left : (IF t = token THEN acc.balances[t] - amount ELSE acc.balances[t]) \in Nat
        BY <1>1, <1>3
  <1>5. new \in [left -> Nat] /\ DOMAIN new = left
        BY <1>4
  <1> HIDE DEF new
  <1>6. IsPartialFunction(new, Tokens, Nat)
        BY <1>1, <1>3, <1>5 DEF IsPartialFunction
  <1>. QED  BY <1>1, <1>2, <1>6 DEF IsAccount

(* Listing an order adds its id in one market ...                          *)
LEMMA SaveNewOrderInfoFacts ==
  ASSUME NEW acc, IsAccount(acc), NEW market \in Markets, NEW id \in Nat
  PROVE  /\ IsAccount(SaveNewOrderInfo(acc, market, id))
         /\ SaveNewOrderInfo(acc, market, id).open =
              [acc.open EXCEPT ![market] = @ \cup {id}]
BY DEF IsAccount, SaveNewOrderInfo

(* ... and striking orders removes their ids in one market.                *)
LEMMA RemoveOrderInfosFacts ==
  ASSUME NEW acc, IsAccount(acc), NEW market \in Markets, NEW ids
  PROVE  /\ IsAccount(RemoveOrderInfos(acc, market, ids))
         /\ RemoveOrderInfos(acc, market, ids).open =
              [acc.open EXCEPT ![market] = @ \ ids]
BY DEF IsAccount, RemoveOrderInfos

-----------------------------------------------------------------------------
(* A market's parameters.                                                  *)
IsMarketParams(p) ==
  p \in [base : Tokens, quote : Tokens,
         base_lot : Nat \ {0}, quote_lot : Nat \ {0}, base_denomination : Nat \ {0},
         taker_rate : 0 .. FeeToBpsDivisor, maker_rate : 0 .. FeeToBpsDivisor,
         max_orders : Nat \ {0}]

(* A book whose orders have numbers up to n.                               *)
IsBook(book, n) == IsPartialFunction(book, 1 .. n, RestingOrder)

(* An order as the placing functions make them.                            *)
IsNewOrder(o) ==
  /\ o.owner \in Accounts /\ o.side \in Sides /\ o.qty \in Nat
  /\ o.type \in {"Limit", "PostOnly"} => (CHOOSE l \in o.limit : TRUE) \in Nat

(* Conversions of naturals give naturals.                                  *)
LEMMA LotsFacts ==
  ASSUME NEW p, IsMarketParams(p), NEW x \in Nat, NEW y \in Nat
  PROVE  /\ BaseLotsToNative(p, x) \in Nat
         /\ QuoteLotsToNative(p, x) \in Nat
         /\ BaseNativeToLots(p, x) \in Nat
         /\ QuoteNativeToLots(p, x) \in Nat
         /\ QuoteValue(p, x, y) \in Nat
         /\ QuoteValueOfLots(p, x, y) \in Nat
         /\ y # 0 => AffordableLots(p, x, y) \in Nat
PROOF
  <1>1. p.base_lot \in Nat \ {0} /\ p.quote_lot \in Nat \ {0} /\ p.base_denomination \in Nat \ {0}
        BY DEF IsMarketParams
  <1>2. \A u, v \in Nat : u * v \in Nat
        BY TimesNat
  <1>3. \A u \in Nat, d \in Nat \ {0} : u \div d \in Nat
        BY DivNat
  <1>4. \A u \in Nat : AsU64(u) \in Nat
        BY AsU64Type
  <1>5. \A u \in Nat : BaseLotsToNative(p, u) \in Nat /\ QuoteLotsToNative(p, u) \in Nat
        BY <1>1, <1>2 DEF BaseLotsToNative, QuoteLotsToNative
  <1>6. \A u, v \in Nat : QuoteValue(p, u, v) \in Nat
        BY <1>1, <1>2, <1>3 DEF QuoteValue
  <1>7. QuoteValueOfLots(p, x, y) \in Nat
        BY <1>5, <1>6 DEF QuoteValueOfLots
  <1>8. BaseNativeToLots(p, x) \in Nat /\ QuoteNativeToLots(p, x) \in Nat
        BY <1>1, <1>3, <1>4 DEF BaseNativeToLots, QuoteNativeToLots
  <1>9. ASSUME y # 0 PROVE AffordableLots(p, x, y) \in Nat
    <2>1. QuoteLotsToNative(p, x) * p.base_denomination \in Nat
          BY <1>1, <1>2, <1>5
    <2>2. (QuoteLotsToNative(p, x) * p.base_denomination) \div y \in Nat
          BY <1>3, <1>9, <2>1
    <2>. QED  BY <1>1, <1>3, <2>2 DEF AffordableLots
  <1>. QED  BY <1>5, <1>6, <1>7, <1>8, <1>9

(* A book has finitely many orders.                                        *)
LEMMA BookFinite ==
  ASSUME NEW n \in Nat, NEW book, IsBook(book, n)
  PROVE  /\ DOMAIN book \subseteq 1 .. n
         /\ \A S \in SUBSET DOMAIN book : IsFiniteSet(S)
         /\ \A i \in DOMAIN book : book[i] \in RestingOrder
PROOF
  <1>1. DOMAIN book \subseteq 1 .. n /\ book \in [DOMAIN book -> RestingOrder]
        BY DEF IsBook, IsPartialFunction
  <1>2. IsFiniteSet(1 .. n)
        BY FS_Interval
  <1>3. \A S \in SUBSET DOMAIN book : S \in SUBSET (1 .. n)
        BY <1>1
  <1>. QED  BY <1>1, <1>2, <1>3, FS_Subset

(* What is filled of a resting order is a number of its lots.              *)
LEMMA LotsFilledType ==
  ASSUME NEW p, NEW n \in Nat, NEW book, IsBook(book, n), NEW o, NEW i \in DOMAIN book
  PROVE  LotsFilled(p, book, o, i) \in 0 .. book[i].qty
PROOF
  <1>1. book[i].qty \in Nat
        BY BookFinite DEF RestingOrder
  <1> DEFINE ahead == Ahead(book, o, i)
             taken == SumFunction([j \in ahead |-> book[j].qty])
             spent == SumFunction([j \in ahead |-> QuoteValueOfLots(p, book[j].qty, book[j].price)])
             lots == {k \in 1 .. book[i].qty :
                        /\ taken + k <= o.qty
                        /\ \A c \in o.quote :
                             spent + QuoteValueOfLots(p, k, book[i].price) <= QuoteLotsToNative(p, c)}
  <1>2. LotsFilled(p, book, o, i) = Cardinality(lots)
        BY DEF LotsFilled
  <1>3. lots \in SUBSET (1 .. book[i].qty)
        OBVIOUS
  <1> HIDE DEF lots
  <1>4. IsFiniteSet(1 .. book[i].qty) /\ Cardinality(1 .. book[i].qty) = book[i].qty
    <2> DEFINE q == book[i].qty
    <2>1. q \in Int /\ q >= 0
          BY <1>1
    <2> HIDE DEF q
    <2>2. IsFiniteSet(1 .. q) /\ Cardinality(1 .. q) = IF 1 > q THEN 0 ELSE q - 1 + 1
          BY <2>1, FS_Interval
    <2>3. Cardinality(1 .. q) = q
          BY <2>1, <2>2
    <2>. QED  BY <2>2, <2>3 DEF q
  <1>5. Cardinality(lots) \in Nat /\ Cardinality(lots) <= book[i].qty
    <2>1. IsFiniteSet(lots) /\ Cardinality(lots) <= Cardinality(1 .. book[i].qty)
          BY <1>3, <1>4, FS_Subset
    <2>2. Cardinality(lots) \in Nat
          BY <2>1, FS_CardinalityType
    <2>. QED  BY <1>4, <2>1, <2>2
  <1>. QED  BY <1>2, <1>5

(* The matches of an order are lots of resting orders of the other side.   *)
LEMMA MatchesFacts ==
  ASSUME NEW p, NEW n \in Nat, NEW book, IsBook(book, n), NEW o
  PROVE  LET fills == Matches(p, book, o)
         IN  /\ DOMAIN fills \subseteq DOMAIN book
             /\ fills = [i \in DOMAIN fills |-> fills[i]]
             /\ \A i \in DOMAIN fills : /\ fills[i] \in 1 .. book[i].qty
                                        /\ book[i].side # o.side
PROOF
  <1> DEFINE hit == {i \in Makers(book, o) : LotsFilled(p, book, o, i) > 0}
  <1>1. \A i \in hit : /\ i \in DOMAIN book /\ book[i].side # o.side
                       /\ LotsFilled(p, book, o, i) \in 1 .. book[i].qty
    <2>1. \A i \in hit : i \in DOMAIN book /\ book[i].side # o.side /\ LotsFilled(p, book, o, i) > 0
          BY DEF Makers
    <2>2. \A i \in DOMAIN book : LotsFilled(p, book, o, i) \in 0 .. book[i].qty
          BY LotsFilledType
    <2>3. \A i \in DOMAIN book : book[i].qty \in Nat
          BY BookFinite DEF RestingOrder
    <2>. QED  BY <2>1, <2>2, <2>3
  <1>2. Crossed(p, book, o) = [i \in hit |-> LotsFilled(p, book, o, i)]
        BY DEF Crossed
  <1> HIDE DEF hit
  <1>3. CASE Rejected(p, book, o)
        BY <1>3 DEF Matches
  <1>4. CASE ~ Rejected(p, book, o)
    <2>1. Matches(p, book, o) = [i \in hit |-> LotsFilled(p, book, o, i)]
          BY <1>2, <1>4 DEF Matches
    <2>. QED  BY <2>1, <1>1
  <1>. QED  BY <1>3, <1>4

(* What stays open is a number of lots, and only of a posting order.       *)
LEMMA OpenQtyFacts ==
  ASSUME NEW p, NEW n \in Nat, NEW book, IsBook(book, n), NEW o, o.qty \in Nat
  PROVE  /\ OpenQty(p, book, o) \in Nat
         /\ OpenQty(p, book, o) > 0 => o.type \in {"Limit", "PostOnly"}
PROOF
  <1> DEFINE fills == Matches(p, book, o)
             total == SumFunction(fills)
  <1>1. DOMAIN fills \subseteq DOMAIN book /\ \A i \in DOMAIN fills : fills[i] \in Nat
    <2>1. \A i \in DOMAIN fills : i \in DOMAIN book /\ fills[i] \in 1 .. book[i].qty
          BY MatchesFacts
    <2>2. \A i \in DOMAIN book : book[i].qty \in Nat
          BY BookFinite DEF RestingOrder
    <2>. QED  BY <2>1, <2>2
  <1> HIDE DEF fills
  <1>2. total \in Nat
    <2>1. IsFiniteSet(DOMAIN fills)
          BY <1>1, BookFinite
    <2>. QED  BY <1>1, <2>1, SumNat DEF SumFunction
  <1> HIDE DEF total
  <1>3. SaturatingSub(o.qty, total) \in Nat
        BY <1>2 DEF SaturatingSub
  <1>. QED  BY <1>3 DEF OpenQty, fills, total

(* new is book after order o was placed under number id: filled orders     *)
(* shrink or leave, nothing else about them changes, and at most the new   *)
(* order joins.                                                            *)
OrderJoined(new, book, o, fills, open, id) ==
  /\ DOMAIN new = (DOMAIN book \ FullyFilled(book, fills)) \cup (IF open > 0 THEN {id} ELSE {})
  /\ open > 0 => new[id].owner = o.owner
  /\ \A i \in DOMAIN new \ {id} :
       /\ i \in DOMAIN book
       /\ new[i].qty <= book[i].qty
       /\ new[i].owner = book[i].owner
       /\ [new[i] EXCEPT !.qty = 0] = [book[i] EXCEPT !.qty = 0]

(* The book after an order is a book that the order has joined.            *)
LEMMA BookAfterFacts ==
  ASSUME NEW p, NEW n \in Nat, NEW book, IsBook(book, n), NEW o, IsNewOrder(o)
  PROVE  LET new == BookAfter(p, book, o, n + 1)
         IN  /\ IsBook(new, n + 1)
             /\ OrderJoined(new, book, o, Matches(p, book, o), OpenQty(p, book, o), n + 1)
PROOF
  <1> DEFINE fills == Matches(p, book, o)
             open  == OpenQty(p, book, o)
             rest  == [owner |-> o.owner, side |-> o.side,
                       price |-> CHOOSE l \in o.limit : TRUE, qty |-> open]
             ids   == (DOMAIN book \ FullyFilled(book, fills)) \cup (IF open > 0 THEN {n + 1} ELSE {})
             after(i) == IF i = n + 1 THEN rest
                         ELSE IF i \in DOMAIN fills THEN [book[i] EXCEPT !.qty = @ - fills[i]]
                         ELSE book[i]
             new   == BookAfter(p, book, o, n + 1)
  <1>1. new = [i \in ids |-> after(i)]
        BY DEF BookAfter
  <1>2. DOMAIN book \subseteq 1 .. n /\ \A i \in DOMAIN book : book[i] \in RestingOrder
        BY BookFinite
  <1>3. /\ \A i \in DOMAIN fills : i \in DOMAIN book /\ fills[i] \in 1 .. book[i].qty
        /\ \A i \in DOMAIN fills : i \notin FullyFilled(book, fills) => fills[i] # book[i].qty
        BY MatchesFacts DEF FullyFilled
  <1>4. open \in Nat /\ (open > 0 => rest \in RestingOrder)
        BY OpenQtyFacts DEF IsNewOrder, RestingOrder
  <1> HIDE DEF fills, open, new, rest
  <1>5. \A i \in ids \ {n + 1} :
          /\ i \in DOMAIN book
          /\ after(i) \in RestingOrder
          /\ after(i).qty <= book[i].qty
          /\ after(i).owner = book[i].owner
          /\ [after(i) EXCEPT !.qty = 0] = [book[i] EXCEPT !.qty = 0]
    <2> TAKE i \in ids \ {n + 1}
    <2>1. i \in DOMAIN book /\ i \notin FullyFilled(book, fills) /\ book[i] \in RestingOrder
          BY <1>2
    <2>2. CASE i \notin DOMAIN fills
          BY <2>1, <2>2 DEF RestingOrder
    <2>3. CASE i \in DOMAIN fills
      <3>1. after(i) = [book[i] EXCEPT !.qty = @ - fills[i]]
            BY <2>3
      <3>2. book[i].qty \in Nat /\ fills[i] \in 1 .. book[i].qty /\ fills[i] # book[i].qty
            BY <1>3, <2>1, <2>3 DEF RestingOrder
      <3>. QED  BY <2>1, <3>1, <3>2 DEF RestingOrder
    <2>. QED  BY <2>2, <2>3
  <1>6. n + 1 \in ids <=> open > 0
        BY <1>2, <1>4
  <1>7. \A i \in ids : after(i) \in RestingOrder
        BY <1>4, <1>5, <1>6
  <1>8. ids \subseteq 1 .. n + 1
        BY <1>2
  <1>9. IsBook(new, n + 1)
    <2>1. new \in [ids -> RestingOrder] /\ DOMAIN new = ids
          BY <1>1, <1>7
    <2>. QED  BY <2>1, <1>8 DEF IsBook, IsPartialFunction
  <1>10. open > 0 => new[n + 1].owner = o.owner
        BY <1>1, <1>6 DEF rest
  <1>11. DOMAIN new = ids
        BY <1>1
  <1>12. \A i \in ids : new[i] = after(i)
        BY <1>1
  <1> HIDE DEF ids, after
  <1>13. \A i \in DOMAIN new \ {n + 1} :
                  /\ i \in DOMAIN book
                  /\ new[i].qty <= book[i].qty
                  /\ new[i].owner = book[i].owner
                  /\ [new[i] EXCEPT !.qty = 0] = [book[i] EXCEPT !.qty = 0]
        BY <1>5, <1>11, <1>12
  <1>. QED  BY <1>9, <1>10, <1>11, <1>13 DEF fills, open, new, ids, OrderJoined

(* Removing orders from a book leaves the others as they were.             *)
LEMMA RemoveOrdersFacts ==
  ASSUME NEW n \in Nat, NEW book, IsBook(book, n), NEW ids
  PROVE  /\ IsBook(RemoveOrders(book, ids), n)
         /\ DOMAIN RemoveOrders(book, ids) = DOMAIN book \ ids
         /\ \A i \in DOMAIN book \ ids : RemoveOrders(book, ids)[i] = book[i]
BY DEF IsBook, IsPartialFunction, RemoveOrders
-----------------------------------------------------------------------------
(* A finite set that a relation orders totally has a last element.         *)
LEMMA FiniteLast ==
  ASSUME NEW S, IsFiniteSet(S), S # {}, NEW R,
         \A i \in S : <<i, i>> \notin R,
         \A i, j \in S : i = j \/ <<i, j>> \in R \/ <<j, i>> \in R,
         \A i, j, k \in S : <<i, j>> \in R /\ <<j, k>> \in R => <<i, k>> \in R
  PROVE  \E i \in S : \A j \in S : j = i \/ <<j, i>> \in R
PROOF
  <1> DEFINE after(i) == {j \in S : <<i, j>> \in R}
             counts == {Cardinality(after(i)) : i \in S}
  <1>1. \A i \in S : after(i) \subseteq S /\ IsFiniteSet(after(i)) /\ Cardinality(after(i)) \in Nat
    <2> TAKE i \in S
    <2>1. after(i) \subseteq S
          OBVIOUS
    <2> HIDE DEF after
    <2>2. IsFiniteSet(after(i))
          BY <2>1, FS_Subset
    <2>. QED  BY <2>1, <2>2, FS_CardinalityType
  <1> HIDE DEF after
  <1>2. counts \in SUBSET Nat /\ counts # {}
        BY <1>1
  <1>3. PICK least \in counts : \A n \in counts : least <= n
        BY <1>2, NatMinimum
  <1>4. PICK i \in S : Cardinality(after(i)) = least
        BY <1>3
  <1>5. ASSUME NEW j \in S, j # i, <<j, i>> \notin R
        PROVE  FALSE
    <2>1. j \in after(i) /\ j \notin after(j)
          BY <1>5 DEF after
    <2>2. after(j) \subseteq after(i) \ {j}
          BY <2>1, <1>5 DEF after
    <2>3. /\ IsFiniteSet(after(i) \ {j})
          /\ Cardinality(after(i) \ {j}) = Cardinality(after(i)) - 1
          BY <1>1, <2>1, FS_RemoveElement
    <2>4. Cardinality(after(j)) <= Cardinality(after(i) \ {j})
          BY <2>2, <2>3, FS_Subset
    <2>5. Cardinality(after(i)) \in Nat /\ Cardinality(after(j)) \in Nat
          BY <1>1, <1>5
    <2>6. Cardinality(after(j)) < Cardinality(after(i))
          BY <2>3, <2>4, <2>5
    <2>7. Cardinality(after(i)) <= Cardinality(after(j))
          BY <1>3, <1>4, <1>5
    <2>. QED  BY <2>5, <2>6, <2>7
  <1>. QED  BY <1>5

(* The iteration order of a book is a total order.                         *)
LEMMA IterationOrder ==
  ASSUME NEW n \in Nat, NEW book, IsBook(book, n)
  PROVE  /\ \A i \in DOMAIN book : ~ IteratedBefore(book, i, i)
         /\ \A i, j \in DOMAIN book :
              i = j \/ IteratedBefore(book, i, j) \/ IteratedBefore(book, j, i)
         /\ \A i, j, k \in DOMAIN book :
              IteratedBefore(book, i, j) /\ IteratedBefore(book, j, k) => IteratedBefore(book, i, k)
PROOF
  <1>1. /\ \A i \in DOMAIN book : i \in Nat
        /\ \A i \in DOMAIN book : book[i].price \in Nat /\ book[i].side \in {"Buy", "Sell"}
        BY BookFinite DEF RestingOrder, Sides
  <1>2. \A i \in DOMAIN book : ~ IteratedBefore(book, i, i)
        BY <1>1 DEF IteratedBefore, Precedes
  <1>3. \A i, j \in DOMAIN book :
          i = j \/ IteratedBefore(book, i, j) \/ IteratedBefore(book, j, i)
        BY <1>1 DEF IteratedBefore, Precedes
  <1>4. ASSUME NEW i \in DOMAIN book, NEW j \in DOMAIN book, NEW k \in DOMAIN book,
               IteratedBefore(book, i, j), IteratedBefore(book, j, k)
        PROVE  IteratedBefore(book, i, k)
    <2>1. CASE book[i].side = "Sell" /\ book[k].side = "Buy"
          BY <2>1 DEF IteratedBefore
    <2>2. CASE ~ (book[i].side = "Sell" /\ book[k].side = "Buy")
      <3>1. /\ book[i].side = book[j].side /\ book[j].side = book[k].side
            /\ Precedes(book, i, j) /\ Precedes(book, j, k)
            BY <1>1, <1>4, <2>2 DEF IteratedBefore
      <3>2. Precedes(book, i, k)
            BY <1>1, <3>1 DEF Precedes
      <3>. QED  BY <3>1, <3>2 DEF IteratedBefore
    <2>. QED  BY <2>1, <2>2
  <1>. QED  BY <1>2, <1>3, <1>4

(* Any orders of a book have a last one in iteration order.                *)
LEMMA LastIterated ==
  ASSUME NEW n \in Nat, NEW book, IsBook(book, n), NEW S \in SUBSET DOMAIN book, S # {}
  PROVE  \E i \in S : \A j \in S : j = i \/ IteratedBefore(book, j, i)
PROOF
  <1> DEFINE R == {e \in S \X S : IteratedBefore(book, e[1], e[2])}
  <1>1. \A i, j \in S : <<i, j>> \in R <=> IteratedBefore(book, i, j)
        OBVIOUS
  <1>2. IsFiniteSet(S)
        BY BookFinite
  <1>3. \A i, j, k \in S : IteratedBefore(book, i, j) /\ IteratedBefore(book, j, k)
                              => IteratedBefore(book, i, k)
        BY IterationOrder
  <1>4. /\ \A i \in S : ~ IteratedBefore(book, i, i)
        /\ \A i, j \in S : i = j \/ IteratedBefore(book, i, j) \/ IteratedBefore(book, j, i)
        BY IterationOrder
  <1> HIDE DEF R
  <1>5. \E i \in S : \A j \in S : j = i \/ <<j, i>> \in R
    <2>1. \A i \in S : <<i, i>> \notin R
          BY <1>1, <1>4
    <2>2. \A i, j \in S : i = j \/ <<i, j>> \in R \/ <<j, i>> \in R
          BY <1>1, <1>4
    <2>3. \A i, j, k \in S : <<i, j>> \in R /\ <<j, k>> \in R => <<i, k>> \in R
          BY <1>1, <1>3
    <2>. QED  BY <1>2, <2>1, <2>2, <2>3, FiniteLast
  <1>. QED  BY <1>1, <1>5

-----------------------------------------------------------------------------
(* Rounding.                                                               *)

(* Rounding down two parts loses at least what rounding the whole does.    *)
LEMMA DivParts ==
  ASSUME NEW x \in Nat, NEW y \in Nat, NEW d \in Nat \ {0}
  PROVE  (x \div d) + (y \div d) <= (x + y) \div d
PROOF
  <1> DEFINE u == x \div d
             v == y \div d
  <1>1. u \in Nat /\ v \in Nat /\ d * u <= x /\ d * v <= y
        BY DivNat
  <1> HIDE DEF u, v
  <1>2. u + v \in Nat /\ x + y \in Nat /\ d * (u + v) = d * u + d * v
        BY <1>1
  <1>3. d * u \in Nat /\ d * v \in Nat
        BY <1>1, TimesNat
  <1>4. d * (u + v) <= x + y
        BY <1>1, <1>2, <1>3
  <1>5. u + v <= (x + y) \div d
        BY <1>2, <1>4, DivBound
  <1>. QED  BY <1>5 DEF u, v

(* A truncation never gives more.                                          *)
LEMMA AsU64Smaller ==
  ASSUME NEW x \in Nat
  PROVE  AsU64(x) \in Nat /\ AsU64(x) <= x
PROOF
  <1> DEFINE n == U64Max + 1
             r == x % n
  <1>1. n \in Nat \ {0}
        BY U64Assumption
  <1> HIDE DEF n
  <1>2. x = n * (x \div n) + r /\ r \in 0 .. n - 1 /\ x \div n \in Nat
        BY <1>1, DivNat
  <1>3. n * (x \div n) \in Nat
        BY <1>1, <1>2, TimesNat
  <1> HIDE DEF r
  <1>4. r \in Nat /\ r <= x
        BY <1>1, <1>2, <1>3
  <1>. QED  BY <1>4 DEF r, n, AsU64

(* Two fills of an order are worth no more than their sum.                 *)
LEMMA QuoteParts ==
  ASSUME NEW p, IsMarketParams(p), NEW x \in Nat, NEW y \in Nat, NEW price \in Nat
  PROVE  QuoteValueOfLots(p, x, price) + QuoteValueOfLots(p, y, price)
           <= QuoteValueOfLots(p, x + y, price)
PROOF
  <1> DEFINE c == price * p.quote_lot
             b == p.base_lot
             d == p.base_denomination
  <1>1. b \in Nat /\ d \in Nat \ {0} /\ c \in Nat
        BY TimesNat DEF IsMarketParams
  <1>2. \A z : QuoteValueOfLots(p, z, price) = ((z * b) * c) \div d
        BY DEF QuoteValueOfLots, QuoteValue, BaseLotsToNative, QuoteLotsToNative
  <1> HIDE DEF b, c, d
  <1>3. (x * b) * c \in Nat /\ (y * b) * c \in Nat
        BY <1>1, TimesNat
  <1>4. ((x + y) * b) * c = (x * b) * c + (y * b) * c
        BY <1>1
  <1>5. (((x * b) * c) \div d) + (((y * b) * c) \div d) <= ((x * b) * c + (y * b) * c) \div d
        BY <1>1, <1>3, DivParts
  <1>. QED  BY <1>2, <1>4, <1>5

(* What a bid locks, at its native limit price, pays for what it would     *)
(* pay back, at the lots of that price.                                    *)
LEMMA LockCoversRefund ==
  ASSUME NEW p, IsMarketParams(p), NEW x \in Nat, NEW price \in Nat
  PROVE  QuoteValueOfLots(p, x, QuoteNativeToLots(p, price))
           <= QuoteValue(p, BaseLotsToNative(p, x), price)
PROOF
  <1> DEFINE q == p.quote_lot
             d == p.base_denomination
             lots == QuoteNativeToLots(p, price)
             amount == BaseLotsToNative(p, x)
  <1>1. q \in Nat \ {0} /\ d \in Nat \ {0} /\ amount \in Nat
        BY LotsFacts DEF IsMarketParams
  <1>2. price \div q \in Nat /\ q * (price \div q) <= price
        BY <1>1, DivNat
  <1>3. lots \in Nat /\ lots <= price \div q
        BY <1>2, AsU64Smaller DEF QuoteNativeToLots
  <1> HIDE DEF q, d, lots, amount
  <1>4. lots * q \in Nat /\ lots * q <= (price \div q) * q
        BY <1>1, <1>2, <1>3, TimesNat
  <1>5. (price \div q) * q = q * (price \div q) /\ (price \div q) * q \in Nat
        BY <1>1, <1>2
  <1>6. lots * q <= price
        BY <1>2, <1>4, <1>5
  <1>7. /\ amount * (lots * q) \in Nat /\ amount * price \in Nat
        /\ amount * (lots * q) <= amount * price
        BY <1>1, <1>4, <1>6, TimesNat
  <1>8. (amount * (lots * q)) \div d <= (amount * price) \div d
        BY <1>1, <1>7, DivGrows
  <1>. QED  BY <1>8 DEF q, d, lots, amount, QuoteValueOfLots, QuoteValue, QuoteLotsToNative

=============================================================================
