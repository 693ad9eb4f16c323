----------------------------- MODULE WalletsProofs -----------------------------
(* Sums over finite sets, and what the wallets, holds and limits keep for    *)
(* every set of jobs, clients, withdrawals and keys.                         *)
EXTENDS Wallets, FiniteSetTheorems, WellFoundedInduction, TLAPS

-----------------------------------------------------------------------------
(* Sums.  The library defines them by recursion over the subsets of the      *)
(* domain; the lemmas take the smallest counterexample instead of induction. *)

\* A non-empty set of natural numbers has a least element.
LEMMA LeastOf ==
    ASSUME NEW S \in SUBSET Nat, S # {}
    PROVE  \E n \in S : \A m \in S : n <= m
  <1>1. PICK n \in S : \A m \in S : ~(<<m, n>> \in OpToRel(<, Nat))
    BY NatLessThanWellFounded, WFMin
  <1>2. ASSUME NEW m \in S PROVE n <= m
    <2>1. ~(m < n)
      BY <1>1 DEF OpToRel
    <2> QED
      BY <2>1
  <1> QED
    BY <1>2

\* One round of the recursion, for the sum of f.
Pick(s) == CHOOSE x \in s : TRUE

Round(f, s, it) == IF s = {} THEN 0 ELSE f[Pick(s)] + it[s \ {Pick(s)}]

Layer(D, n) == {s \in SUBSET D : Cardinality(s) <= n}

LEMMA SumUnfolds ==
    ASSUME NEW f, NEW D
    PROVE  SumFunctionOnSet(f, D)
             = (CHOOSE it : it = [s \in SUBSET D |-> Round(f, s, it)])[D]
  BY DEF SumFunctionOnSet, FoldFunctionOnSet, MapThenFoldSet, Round, Pick

LEMMA PickRemoves ==
    ASSUME NEW D, IsFiniteSet(D), NEW s \in SUBSET D, NEW x \in s
    PROVE  /\ IsFiniteSet(s) /\ s \ {x} \in SUBSET D /\ Cardinality(s) \in Nat
           /\ Cardinality(s \ {x}) = Cardinality(s) - 1 /\ Cardinality(s) > 0
  <1>1. IsFiniteSet(s) /\ Cardinality(s) \in Nat
    BY FS_Subset, FS_CardinalityType
  <1>2. IsFiniteSet(s \ {x}) /\ Cardinality(s \ {x}) = Cardinality(s) - 1
    BY <1>1, FS_RemoveElement
  <1>3. Cardinality(s \ {x}) \in Nat
    BY <1>2, FS_CardinalityType
  <1> QED
    BY <1>1, <1>2, <1>3

\* The recursion has a solution on the subsets of every size.
LEMMA RoundsOnLayer ==
    ASSUME NEW f, NEW D, IsFiniteSet(D), NEW n \in Nat
    PROVE  \E it : it = [s \in Layer(D, n) |-> Round(f, s, it)]
  <1> DEFINE Solved(m) == \E it : it = [s \in Layer(D, m) |-> Round(f, s, it)]
             Bad == {m \in Nat : ~Solved(m)}
  <1> SUFFICES ASSUME Bad # {} PROVE FALSE
    OBVIOUS
  <1>1. PICK m \in Bad : \A k \in Bad : m <= k
    BY LeastOf, Bad \in SUBSET Nat
  <1>2. m \in Nat /\ ~Solved(m)
    OBVIOUS
  <1>3. CASE m = 0
    <2>1. ASSUME NEW s \in Layer(D, 0) PROVE s = {}
      <3> SUFFICES ASSUME NEW x \in s PROVE FALSE
        OBVIOUS
      <3>1. s \in SUBSET D /\ Cardinality(s) <= 0
        BY DEF Layer
      <3>2. Cardinality(s) \in Nat /\ Cardinality(s) > 0
        BY <3>1, PickRemoves
      <3> QED
        BY <3>1, <3>2
    <2> DEFINE it == [s \in Layer(D, 0) |-> 0]
    <2>2. it = [s \in Layer(D, 0) |-> Round(f, s, it)]
      BY <2>1 DEF Round
    <2> QED
      BY <1>2, <1>3, <2>2
  <1>4. CASE m > 0
    <2>1. m - 1 \in Nat /\ m - 1 \notin Bad
      BY <1>1, <1>2, <1>4
    <2>2. PICK g : g = [s \in Layer(D, m - 1) |-> Round(f, s, g)]
      BY <2>1
    <2> DEFINE h == [s \in Layer(D, m) |-> Round(f, s, g)]
    <2>3. ASSUME NEW s \in Layer(D, m), s # {}
          PROVE  s \ {Pick(s)} \in Layer(D, m - 1)
      <3>1. Pick(s) \in s
        BY <2>3 DEF Pick
      <3> QED
        BY <1>2, <2>3, <3>1, PickRemoves DEF Layer
    <2>4. ASSUME NEW t \in Layer(D, m - 1) PROVE h[t] = g[t]
      <3>1. Cardinality(t) \in Nat
        BY FS_Subset, FS_CardinalityType DEF Layer
      <3>2. t \in Layer(D, m)
        BY <1>2, <3>1 DEF Layer
      <3>3. h[t] = Round(f, t, g)
        BY <3>2
      <3>4. g[t] = Round(f, t, g)
        BY <2>2
      <3> QED
        BY <3>3, <3>4
    <2>5. ASSUME NEW s \in Layer(D, m) PROVE Round(f, s, g) = Round(f, s, h)
      BY <2>3, <2>4 DEF Round
    <2> HIDE DEF h
    <2>6. h = [s \in Layer(D, m) |-> Round(f, s, g)]
      BY DEF h
    <2>7. h = [s \in Layer(D, m) |-> Round(f, s, h)]
      BY <2>5, <2>6
    <2> QED
      BY <1>2, <2>7
  <1> QED
    BY <1>2, <1>3, <1>4

\* A running sum: zero on nothing, and adding the elements in any order.
Adds(it, f, D) ==
    /\ it \in [SUBSET D -> Int]
    /\ it[{}] = 0
    /\ \A s \in SUBSET D, x \in D : x \in s => it[s] = f[x] + it[s \ {x}]

LEMMA SumAdds ==
    ASSUME NEW f, NEW D, IsFiniteSet(D), \A x \in D : f[x] \in Int
    PROVE  \E it : Adds(it, f, D) /\ SumFunctionOnSet(f, D) = it[D]
  <1> DEFINE it == CHOOSE it : it = [s \in SUBSET D |-> Round(f, s, it)]
  <1>1. it = [s \in SUBSET D |-> Round(f, s, it)]
    <2>1. Cardinality(D) \in Nat /\ \A s \in SUBSET D : Cardinality(s) <= Cardinality(D)
      BY FS_CardinalityType, FS_Subset
    <2>2. Layer(D, Cardinality(D)) = SUBSET D
      BY <2>1 DEF Layer
    <2>3. \E g : g = [s \in Layer(D, Cardinality(D)) |-> Round(f, s, g)]
      BY <2>1, RoundsOnLayer
    <2>4. \E g : g = [s \in SUBSET D |-> Round(f, s, g)]
      BY <2>2, <2>3
    <2> QED
      BY <2>4
  <1>2. SumFunctionOnSet(f, D) = it[D]
    BY SumUnfolds
  <1> HIDE DEF it
  <1>3. ASSUME NEW s \in SUBSET D PROVE it[s] = Round(f, s, it)
    BY <1>1
  <1>4. DOMAIN it = SUBSET D /\ it[{}] = 0
    BY <1>1, <1>3 DEF Round
  <1>5. ASSUME NEW s \in SUBSET D PROVE IsFiniteSet(s) /\ Cardinality(s) \in Nat
    BY FS_Subset, FS_CardinalityType
  <1>6. ASSUME NEW s \in SUBSET D, s # {}
        PROVE  /\ Pick(s) \in s /\ it[s] = f[Pick(s)] + it[s \ {Pick(s)}]
               /\ f[Pick(s)] \in Int
    <2>1. Pick(s) \in s
      BY <1>6 DEF Pick
    <2> QED
      BY <1>3, <1>6, <2>1 DEF Round
  <1>7. ASSUME NEW s \in SUBSET D PROVE it[s] \in Int
    <2> DEFINE Bad == {n \in Nat : \E t \in SUBSET D : Cardinality(t) = n /\ it[t] \notin Int}
    <2> SUFFICES ASSUME Bad # {} PROVE FALSE
      BY <1>5
    <2>1. PICK n \in Bad : \A k \in Bad : n <= k
      BY LeastOf, Bad \in SUBSET Nat
    <2>2. PICK t \in SUBSET D : Cardinality(t) = n /\ it[t] \notin Int
      BY <2>1
    <2>3. t # {}
      <3>1. it[{}] \in Int
        BY <1>4
      <3> QED
        BY <2>2, <3>1, Zenon
    <2> DEFINE c == Pick(t)
    <2> HIDE DEF c
    <2>9. c \in t
      BY <1>6, <2>3 DEF c
    <2>4. t \ {c} \in SUBSET D /\ Cardinality(t \ {c}) = n - 1 /\ n - 1 \in Nat
      <3>1. Cardinality(t) \in Nat /\ Cardinality(t) > 0 /\ t \ {c} \in SUBSET D
            /\ Cardinality(t \ {c}) = Cardinality(t) - 1
        BY <2>9, PickRemoves
      <3> QED
        BY <2>2, <3>1
    <2>5. n - 1 \notin Bad
      BY <2>1, <2>4
    <2>6. it[t \ {c}] \in Int
      BY <2>4, <2>5
    <2>7. it[t] = f[c] + it[t \ {c}] /\ f[c] \in Int
      BY <1>6, <2>3 DEF c
    <2> QED
      BY <2>2, <2>6, <2>7
  <1>8. ASSUME NEW s \in SUBSET D, NEW x \in s PROVE it[s] = f[x] + it[s \ {x}]
    <2> DEFINE Odd(t) == \E y \in t : it[t] # f[y] + it[t \ {y}]
               Bad == {n \in Nat : \E t \in SUBSET D : Cardinality(t) = n /\ Odd(t)}
    <2> SUFFICES ASSUME Bad # {} PROVE FALSE
      BY <1>5
    <2>1. PICK n \in Bad : \A k \in Bad : n <= k
      BY LeastOf, Bad \in SUBSET Nat
    <2>2. PICK t \in SUBSET D : Cardinality(t) = n /\ Odd(t)
      BY <2>1
    <2>3. PICK y \in t : it[t] # f[y] + it[t \ {y}]
      BY <2>2
    <2> DEFINE c == Pick(t)
    <2> HIDE DEF c
    <2>4. c \in t /\ it[t] = f[c] + it[t \ {c}] /\ y # c
      BY <1>6, <2>3 DEF c
    <2>5. /\ t \ {c} \in SUBSET D /\ Cardinality(t \ {c}) = n - 1 /\ n - 1 \in Nat
          /\ t \ {y} \in SUBSET D /\ Cardinality(t \ {y}) = n - 1
      <3>1. /\ Cardinality(t) \in Nat /\ Cardinality(t) > 0
            /\ t \ {c} \in SUBSET D /\ Cardinality(t \ {c}) = Cardinality(t) - 1
        BY <2>4, PickRemoves
      <3>2. t \ {y} \in SUBSET D /\ Cardinality(t \ {y}) = Cardinality(t) - 1
        BY PickRemoves
      <3> QED
        BY <2>2, <3>1, <3>2
    <2>6. n - 1 \notin Bad
      BY <2>1, <2>5
    <2>7. ~Odd(t \ {c}) /\ ~Odd(t \ {y})
      BY <2>5, <2>6
    <2>8. /\ it[t \ {c}] = f[y] + it[(t \ {c}) \ {y}]
          /\ it[t \ {y}] = f[c] + it[(t \ {y}) \ {c}]
      BY <2>3, <2>4, <2>7
    <2>9. (t \ {c}) \ {y} = (t \ {y}) \ {c} /\ (t \ {c}) \ {y} \in SUBSET D
      BY <2>2
    <2>10. f[c] \in Int /\ f[y] \in Int /\ it[(t \ {c}) \ {y}] \in Int
      BY <1>7, <2>3, <2>4, <2>9
    <2> DEFINE z == it[(t \ {c}) \ {y}]  u == it[t \ {c}]  v == it[t \ {y}]
    <2>11. z \in Int /\ u = f[y] + z /\ v = f[c] + z /\ it[t] = f[c] + u
      BY <2>4, <2>8, <2>9, <2>10
    <2> HIDE DEF z, u, v
    <2>12. it[t] = f[y] + v
      BY <2>10, <2>11
    <2> QED
      BY <2>3, <2>12 DEF v
  <1>9. Adds(it, f, D)
    BY <1>1, <1>4, <1>7, <1>8 DEF Adds
  <1> QED
    BY <1>2, <1>9

\* Running sums of functions that agree on a set agree there.
LEMMA AddsAgree ==
    ASSUME NEW f, NEW D, IsFiniteSet(D), NEW g, NEW E, NEW it, NEW jt,
           Adds(it, f, D), Adds(jt, g, E),
           NEW s \in SUBSET D, s \subseteq E, \A x \in s : f[x] = g[x]
    PROVE  it[s] = jt[s]
  <1> DEFINE Bad == {n \in Nat : \E t \in SUBSET s : Cardinality(t) = n /\ it[t] # jt[t]}
  <1>1. ASSUME NEW t \in SUBSET s PROVE IsFiniteSet(t) /\ Cardinality(t) \in Nat
    BY FS_Subset, FS_CardinalityType
  <1> SUFFICES ASSUME Bad # {} PROVE FALSE
    BY <1>1
  <1>2. PICK n \in Bad : \A k \in Bad : n <= k
    BY LeastOf, Bad \in SUBSET Nat
  <1>3. PICK t \in SUBSET s : Cardinality(t) = n /\ it[t] # jt[t]
    BY <1>2
  <1>4. t # {}
    <2>1. it[{}] = jt[{}]
      BY DEF Adds
    <2> QED
      BY <1>3, <2>1, Zenon
  <1>5. PICK x : x \in t
    BY <1>4
  <1>6. t \ {x} \in SUBSET s /\ Cardinality(t \ {x}) = n - 1 /\ n - 1 \in Nat
    <2>1. t \in SUBSET D
      OBVIOUS
    <2>2. Cardinality(t) \in Nat /\ Cardinality(t) > 0
          /\ Cardinality(t \ {x}) = Cardinality(t) - 1
      BY <1>5, <2>1, PickRemoves
    <2> QED
      BY <1>3, <2>2
  <1>7. n - 1 \notin Bad
    BY <1>2, <1>6
  <1>8. it[t \ {x}] = jt[t \ {x}]
    BY <1>6, <1>7
  <1>9. it[t] = f[x] + it[t \ {x}] /\ jt[t] = g[x] + jt[t \ {x}]
    BY <1>5 DEF Adds
  <1> QED
    BY <1>3, <1>5, <1>8, <1>9

LEMMA SumSame ==
    ASSUME NEW f, NEW g, NEW D, IsFiniteSet(D),
           \A x \in D : f[x] \in Int /\ f[x] = g[x]
    PROVE  SumFunctionOnSet(f, D) = SumFunctionOnSet(g, D)
  <1>1. PICK it : Adds(it, f, D) /\ SumFunctionOnSet(f, D) = it[D]
    BY SumAdds
  <1>2. PICK jt : Adds(jt, g, D) /\ SumFunctionOnSet(g, D) = jt[D]
    BY SumAdds
  <1>3. it[D] = jt[D]
    BY <1>1, <1>2, AddsAgree
  <1> QED
    BY <1>1, <1>2, <1>3

LEMMA SumTyped ==
    ASSUME NEW f, NEW D, IsFiniteSet(D), \A x \in D : f[x] \in Int
    PROVE  SumFunctionOnSet(f, D) \in Int /\ (D = {} => SumFunctionOnSet(f, D) = 0)
  <1>1. PICK it : Adds(it, f, D) /\ SumFunctionOnSet(f, D) = it[D]
    BY SumAdds
  <1> QED
    BY <1>1 DEF Adds

\* Any element can be taken out of a sum.
LEMMA SumSplit ==
    ASSUME NEW f, NEW D, IsFiniteSet(D), \A y \in D : f[y] \in Int, NEW x \in D
    PROVE  SumFunctionOnSet(f, D) = f[x] + SumFunctionOnSet(f, D \ {x})
  <1>1. PICK it : Adds(it, f, D) /\ SumFunctionOnSet(f, D) = it[D]
    BY SumAdds
  <1>2. IsFiniteSet(D \ {x}) /\ \A y \in D \ {x} : f[y] \in Int
    BY FS_RemoveElement
  <1>3. PICK jt : Adds(jt, f, D \ {x}) /\ SumFunctionOnSet(f, D \ {x}) = jt[D \ {x}]
    BY <1>2, SumAdds
  <1>4. it[D \ {x}] = jt[D \ {x}]
    BY <1>1, <1>3, AddsAgree
  <1>5. it[D] = f[x] + it[D \ {x}]
    BY <1>1 DEF Adds
  <1> QED
    BY <1>1, <1>3, <1>4, <1>5

\* The sum of a function of which one value changes.
LEMMA SumChange ==
    ASSUME NEW f, NEW g, IsFiniteSet(DOMAIN f), DOMAIN g = DOMAIN f, NEW x \in DOMAIN f,
           \A y \in DOMAIN f : f[y] \in Int /\ g[y] \in Int,
           \A y \in DOMAIN f : y # x => g[y] = f[y]
    PROVE  /\ SumFunction(f) \in Int
           /\ SumFunction(g) = SumFunction(f) + g[x] - f[x]
  <1> DEFINE D == DOMAIN f
  <1>0. SumFunction(f) = SumFunctionOnSet(f, D) /\ SumFunction(g) = SumFunctionOnSet(g, D)
    BY DEF SumFunction
  <1> HIDE DEF D
  <1>1. /\ IsFiniteSet(D) /\ x \in D /\ \A y \in D : f[y] \in Int /\ g[y] \in Int
        /\ \A y \in D : y # x => g[y] = f[y]
    BY DEF D
  <1>2. SumFunctionOnSet(f, D) = f[x] + SumFunctionOnSet(f, D \ {x})
    BY <1>1, SumSplit
  <1>3. SumFunctionOnSet(g, D) = g[x] + SumFunctionOnSet(g, D \ {x})
    BY <1>1, SumSplit
  <1>4. IsFiniteSet(D \ {x})
    BY <1>1, FS_RemoveElement
  <1>5. SumFunctionOnSet(f, D \ {x}) = SumFunctionOnSet(g, D \ {x})
    BY <1>1, <1>4, SumSame
  <1>6. SumFunctionOnSet(f, D \ {x}) \in Int
    BY <1>1, <1>4, SumTyped
  <1> DEFINE z == SumFunctionOnSet(f, D \ {x})
             u == SumFunctionOnSet(f, D)  v == SumFunctionOnSet(g, D)
  <1>7. z \in Int /\ u = f[x] + z /\ v = g[x] + z /\ f[x] \in Int /\ g[x] \in Int
    BY <1>1, <1>2, <1>3, <1>5, <1>6
  <1> HIDE DEF z, u, v
  <1>8. u \in Int /\ v = u + g[x] - f[x]
    BY <1>7
  <1> QED
    BY <1>0, <1>8 DEF u, v

\* The sum of a function whose domain grows by one element.
LEMMA SumGrow ==
    ASSUME NEW f, NEW g, IsFiniteSet(DOMAIN f), NEW x, x \notin DOMAIN f,
           DOMAIN g = DOMAIN f \cup {x}, g[x] \in Int,
           \A y \in DOMAIN f : f[y] \in Int /\ g[y] = f[y]
    PROVE  /\ SumFunction(f) \in Int
           /\ SumFunction(g) = SumFunction(f) + g[x]
  <1> DEFINE D == DOMAIN f
  <1>0. /\ SumFunction(f) = SumFunctionOnSet(f, D)
        /\ SumFunction(g) = SumFunctionOnSet(g, D \cup {x})
    BY DEF SumFunction
  <1> HIDE DEF D
  <1>1. /\ IsFiniteSet(D) /\ x \notin D /\ \A y \in D : f[y] \in Int /\ g[y] = f[y]
    BY DEF D
  <1>2. IsFiniteSet(D \cup {x}) /\ (D \cup {x}) \ {x} = D
    BY <1>1, FS_AddElement
  <1>3. \A y \in D \cup {x} : g[y] \in Int
    BY <1>1
  <1>4. SumFunctionOnSet(g, D \cup {x}) = g[x] + SumFunctionOnSet(g, (D \cup {x}) \ {x})
    BY <1>2, <1>3, SumSplit
  <1>5. SumFunctionOnSet(f, D) = SumFunctionOnSet(g, D)
    BY <1>1, SumSame
  <1>6. SumFunctionOnSet(f, D) \in Int
    BY <1>1, SumTyped
  <1> DEFINE u == SumFunctionOnSet(f, D)  v == SumFunctionOnSet(g, D \cup {x})
  <1>7. u \in Int /\ v = g[x] + u
    BY <1>2, <1>4, <1>5, <1>6
  <1> HIDE DEF u, v
  <1>8. u \in Int /\ v = u + g[x]
    BY <1>7
  <1> QED
    BY <1>0, <1>8 DEF u, v

\* A sum of zeros.
LEMMA ZeroSum ==
    ASSUME NEW f, NEW D, D = DOMAIN f, IsFiniteSet(D), \A x \in D : f[x] = 0
    PROVE  SumFunction(f) = 0
  <1> DEFINE Sum(t) == SumFunctionOnSet(f, t)
             Bad == {n \in Nat : \E t \in SUBSET D : Cardinality(t) = n /\ Sum(t) # 0}
  <1>1. ASSUME NEW t \in SUBSET D
        PROVE  IsFiniteSet(t) /\ Cardinality(t) \in Nat /\ \A x \in t : f[x] \in Int
    BY FS_Subset, FS_CardinalityType
  <1>2. ASSUME Bad # {} PROVE FALSE
    <2>1. PICK n \in Bad : \A k \in Bad : n <= k
      BY <1>2, LeastOf, Bad \in SUBSET Nat
    <2>2. PICK t \in SUBSET D : Cardinality(t) = n /\ Sum(t) # 0
      BY <2>1
    <2>3. t # {}
      <3>1. t = {} => Sum(t) = 0
        BY <1>1, SumTyped
      <3> QED
        BY <2>2, <3>1
    <2>4. PICK x \in t : TRUE
      BY <2>3
    <2>5. /\ t \ {x} \in SUBSET D /\ Cardinality(t \ {x}) = Cardinality(t) - 1
          /\ Cardinality(t) > 0 /\ Cardinality(t) \in Nat
      BY <2>4, PickRemoves
    <2>6. n - 1 \in Nat /\ ~(n <= n - 1) /\ Cardinality(t \ {x}) = n - 1
      BY <2>2, <2>5
    <2>7. Sum(t \ {x}) = 0
      BY <2>1, <2>5, <2>6
    <2>8. Sum(t) = f[x] + Sum(t \ {x})
      BY <1>1, <2>4, SumSplit
    <2>9. f[x] = 0
      BY <2>4
    <2> HIDE DEF Sum
    <2>10. Sum(t) = 0
      BY <2>7, <2>8, <2>9
    <2> QED
      BY <2>2, <2>10
  <1>3. Sum(D) = 0
    BY <1>1, <1>2
  <1> QED
    BY <1>3 DEF SumFunction

\* Two sums that are together at least c on every element of A, and nowhere
\* negative together.
LEMMA SumBound ==
    ASSUME NEW f, NEW g, NEW D, IsFiniteSet(D), NEW A \in SUBSET D, NEW c \in Nat,
           \A x \in D : f[x] \in Int /\ g[x] \in Int /\ f[x] + g[x] >= 0,
           \A x \in A : f[x] + g[x] >= c
    PROVE  Cardinality(A) * c <= SumFunctionOnSet(f, D) + SumFunctionOnSet(g, D)
  <1> DEFINE F(t) == SumFunctionOnSet(f, t)  G(t) == SumFunctionOnSet(g, t)
             N(t) == Cardinality(t \cap A)
             Good(t) == N(t) * c <= F(t) + G(t)
             Bad == {n \in Nat : \E t \in SUBSET D : Cardinality(t) = n /\ ~Good(t)}
  <1>1. ASSUME NEW t \in SUBSET D
        PROVE  /\ IsFiniteSet(t) /\ Cardinality(t) \in Nat
               /\ IsFiniteSet(t \cap A) /\ N(t) \in Nat /\ F(t) \in Int /\ G(t) \in Int
               /\ t = {} => F(t) = 0 /\ G(t) = 0
    <2>1. IsFiniteSet(t) /\ IsFiniteSet(t \cap A)
      BY FS_Subset
    <2>2. Cardinality(t) \in Nat /\ N(t) \in Nat
      BY <2>1, FS_CardinalityType
    <2> QED
      BY <2>1, <2>2, SumTyped
  <1>2. ASSUME Bad # {} PROVE FALSE
    <2>1. PICK n \in Bad : \A k \in Bad : n <= k
      BY <1>2, LeastOf, Bad \in SUBSET Nat
    <2>2. PICK t \in SUBSET D : Cardinality(t) = n /\ ~Good(t)
      BY <2>1
    <2>3. t # {}
      <3>1. SUFFICES ASSUME t = {} PROVE FALSE
        OBVIOUS
      <3>2. N(t) = 0
        <4>1. t \cap A = {}
          BY <3>1
        <4> QED
          BY <4>1, FS_EmptySet, Zenon
      <3>3. F(t) = 0 /\ G(t) = 0
        BY <1>1, <3>1
      <3> HIDE DEF F, G, N
      <3>4. N(t) * c <= F(t) + G(t)
        BY <3>2, <3>3
      <3> QED
        BY <2>2, <3>4
    <2>4. PICK x \in t : TRUE
      BY <2>3
    <2> DEFINE u == t \ {x}
    <2>5. /\ u \in SUBSET D /\ Cardinality(u) = Cardinality(t) - 1
          /\ Cardinality(t) > 0 /\ Cardinality(t) \in Nat
      BY <2>4, PickRemoves
    <2>6. n - 1 \in Nat /\ ~(n <= n - 1) /\ Cardinality(u) = n - 1
      BY <2>2, <2>5
    <2>7. Good(u)
      BY <2>1, <2>5, <2>6
    <2>8. F(t) = f[x] + F(u) /\ G(t) = g[x] + G(u)
      <3>1. IsFiniteSet(t) /\ (\A y \in t : f[y] \in Int) /\ (\A y \in t : g[y] \in Int)
        BY <1>1
      <3> QED
        BY <2>4, <3>1, SumSplit
    <2>9. N(t) = IF x \in A THEN N(u) + 1 ELSE N(u)
      <3>1. CASE x \in A
        <4>1. t \cap A = (u \cap A) \cup {x} /\ x \notin u \cap A
          BY <2>4, <3>1
        <4>2. IsFiniteSet(u \cap A)
          BY <1>1, <2>5
        <4> QED
          BY <3>1, <4>1, <4>2, FS_AddElement
      <3>2. CASE x \notin A
        <4>1. t \cap A = u \cap A
          BY <3>2
        <4> QED
          BY <3>2, <4>1
      <3> QED
        BY <3>1, <3>2
    <2>10. N(u) \in Nat /\ F(u) \in Int /\ G(u) \in Int /\ N(t) \in Nat
      BY <1>1, <2>5
    <2>11. /\ f[x] \in Int /\ g[x] \in Int /\ f[x] + g[x] >= 0
           /\ x \in A => f[x] + g[x] >= c
      BY <2>4
    <2>12. N(u) * c <= F(u) + G(u)
      BY <2>7
    <2> HIDE DEF F, G, N, u
    <2>13. (N(u) + 1) * c = N(u) * c + c /\ N(u) * c \in Int
      BY <2>10
    <2>14. N(t) * c <= F(t) + G(t)
      <3>1. CASE x \in A
        <4>1. N(t) * c = N(u) * c + c
          BY <2>9, <2>13, <3>1
        <4> QED
          BY <2>8, <2>10, <2>11, <2>12, <2>13, <3>1, <4>1
      <3>2. CASE x \notin A
        BY <2>8, <2>9, <2>10, <2>11, <2>12, <2>13, <3>2
      <3> QED
        BY <3>1, <3>2
    <2> QED
      BY <2>2, <2>14
  <1>3. Good(D)
    BY <1>1, <1>2
  <1>4. D \cap A = A
    OBVIOUS
  <1> QED
    BY <1>3, <1>4

-----------------------------------------------------------------------------
(* The inductive invariant, part by part. *)

HoldStates == {"none", "active", "released", "clawed_partial", "clawed_full"}

Sent == [bank : Nat, twice : Nat, lost : Nat]

Locals == [job : Jobs \cup {NoJob}, settled : BOOLEAN, amount : Nat]

\* TypeOK, with held_cents an integer until it is known to match the holds.
Shape ==
    /\ now \in 0 .. MaxNow
    /\ balance \in [Names -> Nat]
    /\ held \in [Names -> Int]
    /\ sessionAt \in 0 .. MaxNow
    /\ stage \in [Jobs -> Stages]
    /\ completedAt \in [Jobs -> Int]
    /\ hold \in [Jobs -> HoldStates]
    /\ holdUntil \in [Jobs -> Int]
    /\ rated \in [Jobs -> BOOLEAN]
    /\ clawback \in [Jobs -> {"none", "applied", "underflow"}]
    /\ dispute \in [Jobs -> {"none", "caller", "agent", "closed"}]
    /\ locked \in [Jobs -> {0, Charge}]
    /\ deposited \in [Jobs -> {0, FilingDeposit}]
    /\ sent \in Sent
    /\ earned \in [Jobs -> Int]
    /\ pc \in [Procs -> Labels]
    /\ loc \in [Procs -> Locals]

\* A request works on a job that was complete when it read it, and a clawback is
\* under way only for a job that was paid out and rated.
Placed(p) ==
    /\ pc[p] \in {"r_record", "r_claw", "d_file"} =>
          loc[p].job \in Jobs /\ Completed(loc[p].job)
    /\ pc[p] = "r_record" /\ loc[p].settled => stage[loc[p].job] = "settled"
    /\ pc[p] = "r_claw" => stage[loc[p].job] = "settled" /\ rated[loc[p].job]

AllPlaced == \A p \in Procs : Placed(p)

\* What the dispute of a job keeps, by the stage of the job.
Locked(j) ==
    /\ dispute[j] # "none" => Completed(j)
    /\ stage[j] = "voided" => dispute[j] = "closed"
    /\ stage[j] = "complete" => dispute[j] # "closed"
    /\ dispute[j] \notin Sides => locked[j] = 0 /\ deposited[j] = 0
    /\ dispute[j] \in Sides => deposited[j] = FilingDeposit
    /\ dispute[j] \in Sides => locked[j] = IF stage[j] = "settled" THEN Charge ELSE 0

\* What a job has brought its payee.
Earned(j) ==
    /\ clawback[j] # "none" => stage[j] = "settled" /\ rated[j]
    /\ stage[j] # "settled" => earned[j] = 0
    /\ stage[j] = "settled" =>
          earned[j] >= (IF dispute[j] = "none" THEN Payout ELSE 0)
                       - (IF clawback[j] = "applied" THEN Payout ELSE 0)

\* The hold of a job, from its payout to the end of its window.
\* The payout of j creates no hold.
Keepless(j) == j \in Unheld \/ compute_hold_cents = 0

Held(j) ==
    /\ hold[j] # "none" => stage[j] = "settled"
    /\ Completed(j) => completedAt[j] <= now
    /\ hold[j] = "active" =>
          /\ dispute[j] = "none" /\ clawback[j] # "applied"
          /\ completedAt[j] + Window <= holdUntil[j]
    /\ stage[j] = "settled" /\ dispute[j] = "none" /\ ~Keepless(j) =>
          /\ hold[j] # "none"
          /\ hold[j] = "released" => completedAt[j] + Window < now

JobsKept == \A j \in Jobs : Locked(j) /\ Earned(j) /\ Held(j)

\* The rows that the sums below read.
RowKnown(r) ==
    /\ r.amount \in Int
    /\ r.kind = "call" =>
          /\ r.id \in Jobs /\ stage[r.id] \notin {"unordered", "none"}
          /\ r.wallet = Payer[r.id] /\ r.type = "charge" /\ r.amount = 0 - Charge
          /\ r.key \in Keys
    /\ r.kind = "refund" =>
          /\ r.id \in Jobs /\ stage[r.id] = "refunded"
          /\ r.wallet = Payer[r.id] /\ r.type = "refund" /\ r.amount = Charge
    /\ r.kind = "deposit" => r.id \in Jobs /\ dispute[r.id] # "none"
    /\ r.kind = "sweep" => r.id \in Nat /\ r.id < Cardinality(rows)
    /\ r.kind \notin {"call", "refund"} => r.key = NoKey

RowsKnown ==
    /\ IsFiniteSet(rows)
    /\ \A r \in rows : RowKnown(r)
    /\ \A r, q \in rows : r.kind = "call" /\ q.kind = "call" /\ r.id = q.id => r = q
    /\ \A r, q \in rows : r.kind = "refund" /\ q.kind = "call" /\ r.id = q.id => r.key = q.key
    /\ \A j \in Jobs : stage[j] \notin {"unordered", "none"} =>
          \E r \in rows : r.kind = "call" /\ r.id = j

\* The rows that count against the cap of a key, and the jobs behind them.
KeyRows(k, w) ==
    {r \in rows : r.key = k /\ r.wallet = w /\ r.type \in {"charge", "refund"}}

KeyJobs(k, w) ==
    {j \in Jobs : Payer[j] = w /\ stage[j] \notin {"unordered", "none", "refunded"} /\ KeyOf(j) = k}

KeySpend ==
    \A k \in Keys, w \in {"caller", "agent"} :
        RowSum(KeyRows(k, w)) = 0 - Charge * Cardinality(KeyJobs(k, w))

\* What the agent's jobs have brought it is in its balance, but for what it or
\* its owner spent.
SpentRows == {r \in rows : r.wallet = "agent" /\ r.kind \in {"call", "sweep", "deposit"}}

AgentJobs == {j \in Jobs : Payee[j] = "agent"}

EarningsThere ==
    SumFunction([j \in AgentJobs |-> earned[j]]) <= balance["agent"] - RowSum(SpentRows)

IInv ==
    /\ Shape /\ AllPlaced /\ JobsKept /\ RowsKnown
    /\ HeldMatchesHolds /\ CentsConserved /\ KeySpend /\ EarningsThere

-----------------------------------------------------------------------------
(* The constants. *)

LEMMA ConstantsTyped ==
    /\ Payout \in Nat /\ Payout > 0 /\ Fee \in Nat /\ Charge \in Nat /\ Charge > 0
    /\ Charge = Payout + Fee
    /\ FilingDeposit \in Nat /\ GuarantorCap \in Nat /\ Window \in Nat /\ FileWindow \in Nat
    /\ MaxNow \in Nat /\ IsFiniteSet(Jobs) /\ IsFiniteSet(Withdrawals)
    /\ NoKey \notin Keys /\ NoJob \notin Jobs
    /\ \A a \in Amounts : a \in Nat
  BY WalletsAssumption DEF Charge

\* The two ends of a job.
LEMMA SidesTyped ==
    ASSUME NEW j \in Jobs
    PROVE  /\ Payer[j] \in {"caller", "agent"} /\ Payee[j] \in {"agent", "other"}
           /\ Payer[j] # Payee[j] /\ Payer[j] \in Names /\ Payee[j] \in Names
           /\ Payer[j] # "owner" /\ Payer[j] # "platform"
           /\ Payee[j] # "owner" /\ Payee[j] # "platform"
           /\ \A s \in Sides : Filer(j, s) \in Names /\ Filer(j, s) # Payee[j]
                               /\ Filer(j, s) # "platform"
  BY WalletsAssumption DEF Names, Filer, Sides

LEMMA PercentBounds ==
    ASSUME NEW pct \in 0 .. 100
    PROVE  Payout * (100 - pct) \in Nat /\ Payout * (100 - pct) <= Payout * 100
  <1>1. Payout \in Nat
    BY ConstantsTyped
  <1>2. 100 - pct \in Nat /\ 100 - pct <= 100
    OBVIOUS
  <1> DEFINE q == 100 - pct
  <1>3. q \in Nat /\ q <= 100
    BY <1>2
  <1> HIDE DEF q
  <1>4. Payout * q \in Nat /\ Payout * q <= Payout * 100
    BY <1>1, <1>3
  <1> QED
    BY <1>4 DEF q

\* A hold is never more than the payout, and so is a clawback.
LEMMA HoldCents == compute_hold_cents \in Nat /\ compute_hold_cents <= Payout
  <1>1. Payout \in Nat
    BY ConstantsTyped
  <1>2. CASE CurvePct = {}
    BY <1>1, <1>2 DEF compute_hold_cents
  <1>3. CASE CurvePct # {}
    <2>1. CurvePct \in SUBSET Nat /\ CurvePct \subseteq 0 .. 100
      BY WalletsAssumption
    <2>2. \E m \in CurvePct : \A y \in CurvePct : m <= y
      BY <1>3, <2>1, LeastOf
    <2>3. Min(CurvePct) \in CurvePct
      BY <2>2 DEF Min
    <2> DEFINE x == Payout * (100 - Min(CurvePct))
    <2>4. x \in Nat /\ x <= Payout * 100
      BY <2>1, <2>3, PercentBounds
    <2>5. compute_hold_cents = (x + 99) \div 100
      BY <1>3 DEF compute_hold_cents
    <2> HIDE DEF x
    <2> QED
      BY <1>1, <2>4, <2>5
  <1> QED
    BY <1>2, <1>3

LEMMA ClawbackCents ==
    ASSUME NEW pct \in CurvePct
    PROVE  compute_clawback_cents(pct) \in Nat /\ compute_clawback_cents(pct) <= Payout
  <1>1. Payout \in Nat /\ pct \in 0 .. 100
    BY ConstantsTyped, WalletsAssumption
  <1> DEFINE x == Payout * (100 - pct)
  <1>2. x \in Nat /\ x <= Payout * 100
    BY <1>1, PercentBounds
  <1>3. compute_clawback_cents(pct) = (x + 50) \div 100
    BY DEF compute_clawback_cents
  <1> HIDE DEF x
  <1> QED
    BY <1>1, <1>2, <1>3

\* The filing deadline is not later than the window of the hold.
LEMMA DeadlineBefore ==
    ASSUME NEW j \in Jobs, completedAt[j] \in Int
    PROVE  Deadline(j) <= completedAt[j] + Window /\ Deadline(j) \in Int
  <1>1. Window \in Nat /\ FileWindow \in Nat
    BY ConstantsTyped
  <1>2. Min({Window, FileWindow}) \in {Window, FileWindow}
        /\ \A y \in {Window, FileWindow} : Min({Window, FileWindow}) <= y
    <2>1. \E m \in {Window, FileWindow} : \A y \in {Window, FileWindow} : m <= y
      BY <1>1
    <2> QED
      BY <2>1 DEF Min
  <1> DEFINE m == Min({Window, FileWindow})
  <1>3. m \in Nat /\ m <= Window /\ Deadline(j) = completedAt[j] + m
    BY <1>1, <1>2 DEF Deadline
  <1> HIDE DEF m
  <1> QED
    BY <1>1, <1>3

\* The sum of the five wallets.
LEMMA BalanceSum ==
    ASSUME NEW b \in [Names -> Int]
    PROVE  SumFunction(b)
             = b["caller"] + b["agent"] + b["owner"] + b["other"] + b["platform"]
  <1> DEFINE N0 == {}  N1 == {"platform"}  N2 == {"other", "platform"}
             N3 == {"owner", "other", "platform"}  N4 == {"agent", "owner", "other", "platform"}
  <1>1. \A n \in Names : b[n] \in Int
    OBVIOUS
  <1>2. /\ IsFiniteSet(Names) /\ IsFiniteSet(N1) /\ IsFiniteSet(N2) /\ IsFiniteSet(N3)
        /\ IsFiniteSet(N4) /\ IsFiniteSet(N0)
    <2>1. IsFiniteSet(N0)
      BY FS_EmptySet
    <2>2. IsFiniteSet(N0 \cup {"platform"})
      BY <2>1, FS_AddElement
    <2>3. N1 = N0 \cup {"platform"} /\ N2 = N1 \cup {"other"} /\ N3 = N2 \cup {"owner"}
          /\ N4 = N3 \cup {"agent"} /\ Names = N4 \cup {"caller"}
      BY DEF Names
    <2> HIDE DEF N0, N1, N2, N3, N4
    <2>4. IsFiniteSet(N1)
      BY <2>2, <2>3
    <2>5. IsFiniteSet(N2)
      BY <2>3, <2>4, FS_AddElement
    <2>6. IsFiniteSet(N3)
      BY <2>3, <2>5, FS_AddElement
    <2>7. IsFiniteSet(N4)
      BY <2>3, <2>6, FS_AddElement
    <2>8. IsFiniteSet(Names)
      BY <2>3, <2>7, FS_AddElement
    <2> QED
      BY <2>1, <2>4, <2>5, <2>6, <2>7, <2>8
  <1>3. /\ "caller" \in Names /\ Names \ {"caller"} = N4
        /\ "agent" \in N4 /\ N4 \ {"agent"} = N3 /\ N4 \subseteq Names
        /\ "owner" \in N3 /\ N3 \ {"owner"} = N2 /\ N3 \subseteq Names
        /\ "other" \in N2 /\ N2 \ {"other"} = N1 /\ N2 \subseteq Names
        /\ "platform" \in N1 /\ N1 \ {"platform"} = N0 /\ N1 \subseteq Names
    BY DEF Names
  <1> HIDE DEF N1, N2, N3, N4
  <1>4. SumFunctionOnSet(b, Names) = b["caller"] + SumFunctionOnSet(b, N4)
    BY <1>1, <1>2, <1>3, SumSplit
  <1>5. SumFunctionOnSet(b, N4) = b["agent"] + SumFunctionOnSet(b, N3)
    BY <1>1, <1>2, <1>3, SumSplit
  <1>6. SumFunctionOnSet(b, N3) = b["owner"] + SumFunctionOnSet(b, N2)
    BY <1>1, <1>2, <1>3, SumSplit
  <1>7. SumFunctionOnSet(b, N2) = b["other"] + SumFunctionOnSet(b, N1)
    BY <1>1, <1>2, <1>3, SumSplit
  <1>8. SumFunctionOnSet(b, N1) = b["platform"] + SumFunctionOnSet(b, N0)
    BY <1>1, <1>2, <1>3, SumSplit
  <1>9. SumFunctionOnSet(b, N0) = 0
    BY <1>2, SumTyped
  <1>10. SumFunction(b) = SumFunctionOnSet(b, Names)
    BY DEF SumFunction
  <1>11. b["caller"] \in Int /\ b["agent"] \in Int /\ b["owner"] \in Int /\ b["other"] \in Int
         /\ b["platform"] \in Int
    BY DEF Names
  <1> HIDE DEF N0
  <1> QED
    BY <1>4, <1>5, <1>6, <1>7, <1>8, <1>9, <1>10, <1>11

-----------------------------------------------------------------------------
(* What a step touches. *)

LEMMA ProcTyped ==
    ASSUME Shape, NEW p \in Procs
    PROVE  /\ \A l \in Labels, r \in Locals : Begin(p, l, r) =>
                 pc' \in [Procs -> Labels] /\ loc' \in [Procs -> Locals]
           /\ \A l \in Labels : Goto(p, l) => pc' \in [Procs -> Labels] /\ loc' \in [Procs -> Locals]
           /\ Finish(p) => pc' \in [Procs -> Labels] /\ loc' \in [Procs -> Locals]
           /\ loc[p].amount \in Nat
  <1>1. NoLoc \in Locals /\ "idle" \in Labels
    BY DEF NoLoc, Locals, Labels
  <1>2. pc \in [Procs -> Labels] /\ loc \in [Procs -> Locals]
    BY DEF Shape
  <1>3. loc[p].amount \in Nat
    BY <1>2 DEF Locals
  <1> QED
    BY <1>1, <1>2, <1>3 DEF Begin, Goto, Finish

\* Where the moves of a process leave it, and everyone else.
LEMMA ProcMoves ==
    ASSUME Shape, NEW p \in Procs
    PROVE  /\ \A l, r : Begin(p, l, r) => pc'[p] = l /\ loc'[p] = r
           /\ \A l : Goto(p, l) => pc'[p] = l /\ loc'[p] = loc[p]
           /\ Finish(p) => pc'[p] = "idle"
           /\ (\E l, r : Begin(p, l, r)) \/ (\E l : Goto(p, l)) \/ Finish(p) =>
                 \A q \in Procs : q # p => pc'[q] = pc[q] /\ loc'[q] = loc[q]
  <1>1. DOMAIN pc = Procs /\ DOMAIN loc = Procs
    BY DEF Shape
  <1> QED
    BY <1>1 DEF Begin, Goto, Finish

\* A hold ends with what its creation added.
LEMMA ConsumeTyped ==
    ASSUME Shape, NEW j \in Jobs, NEW cents \in Int, consume_hold(j, cents)
    PROVE  /\ held' \in [Names -> Int] /\ hold' \in [Jobs -> HoldStates]
           /\ holdUntil' = holdUntil
           /\ \A i \in Jobs : i # j => hold'[i] = hold[i]
           /\ hold[j] # "active" => hold' = hold /\ held' = held
           /\ hold[j] = "active" =>
                 /\ hold'[j] \in {"clawed_partial", "clawed_full"}
                 /\ held' = [held EXCEPT ![Payee[j]] = @ - compute_hold_cents]
  <1>1. /\ compute_hold_cents \in Int /\ Payee[j] \in Names
        /\ hold \in [Jobs -> HoldStates] /\ held \in [Names -> Int]
    BY HoldCents, SidesTyped DEF Shape
  <1>2. CASE hold[j] # "active"
    BY <1>1, <1>2 DEF consume_hold, holdVars
  <1>3. CASE hold[j] = "active"
    BY <1>1, <1>3 DEF consume_hold, HoldStates
  <1> QED
    BY <1>2, <1>3

LEMMA CreateTyped ==
    ASSUME Shape, NEW j \in Jobs,
           IF j \in Unheld THEN UNCHANGED holdVars ELSE create_hold(j)
    PROVE  /\ held' \in [Names -> Int] /\ hold' \in [Jobs -> HoldStates]
           /\ holdUntil' \in [Jobs -> Int]
           /\ \A i \in Jobs : i # j => hold'[i] = hold[i] /\ holdUntil'[i] = holdUntil[i]
           /\ Keepless(j) => hold' = hold /\ held' = held
           /\ ~Keepless(j) =>
                 /\ hold'[j] = "active" /\ holdUntil'[j] = now + Window
                 /\ held' = [held EXCEPT ![Payee[j]] = @ + compute_hold_cents]
  <1>1. /\ compute_hold_cents \in Int /\ Payee[j] \in Names /\ now \in Int /\ Window \in Int
        /\ hold \in [Jobs -> HoldStates] /\ held \in [Names -> Int]
        /\ holdUntil \in [Jobs -> Int]
    BY HoldCents, SidesTyped, ConstantsTyped DEF Shape
  <1>2. CASE Keepless(j)
    <2>1. UNCHANGED holdVars
      BY <1>2 DEF Keepless, create_hold
    <2> QED
      BY <1>1, <1>2, <2>1 DEF holdVars
  <1>3. CASE ~Keepless(j)
    <2>1. j \notin Unheld /\ compute_hold_cents # 0 /\ create_hold(j)
      BY <1>3 DEF Keepless
    <2> QED
      BY <1>1, <1>3, <2>1 DEF create_hold, HoldStates
  <1> QED
    BY <1>2, <1>3

\* The owner backs a call with what it has, and only a call of the agent.
LEMMA BackstopTyped ==
    ASSUME Shape, NEW j \in Jobs
    PROVE  /\ Backstop(Payer[j], Charge) \in Nat
           /\ Backstop(Payer[j], Charge) <= balance["owner"]
           /\ Backstop(Payer[j], Charge) # 0 => Payer[j] = "agent"
  <1> DEFINE w == Payer[j]  shortfall == Charge - balance[w]
  <1>1. balance[w] \in Nat /\ balance["owner"] \in Nat /\ Charge \in Nat
    BY SidesTyped, ConstantsTyped DEF Shape, Names
  <1>2. shortfall \in Int
    BY <1>1
  <1>3. \/ Backstop(w, Charge) = 0
        \/ /\ Backstop(w, Charge) = shortfall /\ w = "agent" /\ shortfall > 0
           /\ balance["owner"] >= shortfall
    BY DEF Backstop
  <1> HIDE DEF w, shortfall
  <1>4. /\ Backstop(w, Charge) \in Nat /\ Backstop(w, Charge) <= balance["owner"]
        /\ Backstop(w, Charge) # 0 => w = "agent"
    BY <1>1, <1>2, <1>3
  <1> QED
    BY <1>4 DEF w

\* What every action does to the balances.
LEMMA ChargeMoney ==
    ASSUME Shape, NEW j \in Jobs, NEW k, pre_call_charge(j, k)
    PROVE  \E top \in Nat :
              /\ top # 0 => Payer[j] = "agent"
              /\ balance' \in [Names -> Nat]
              /\ balance'[Payer[j]] = balance[Payer[j]] + top - Charge
              /\ balance'["owner"] = balance["owner"] - top
              /\ \A n \in Names : n \notin {Payer[j], "owner"} => balance'[n] = balance[n]
  <1> DEFINE w == Payer[j]  top == Backstop(w, Charge)
  <1>1. top \in Nat /\ top <= balance["owner"] /\ (top # 0 => w = "agent")
    BY BackstopTyped
  <1>2. /\ w \in Names /\ w # "owner" /\ "owner" \in Names /\ Charge \in Nat
        /\ balance \in [Names -> Nat]
    BY SidesTyped, ConstantsTyped DEF Shape, Names
  <1>3. /\ balance[w] + top >= Charge
        /\ balance' = [balance EXCEPT ![w] = @ + top - Charge, !["owner"] = @ - top]
    BY DEF pre_call_charge
  <1> HIDE DEF w, top
  <1>4. /\ balance'[w] = balance[w] + top - Charge /\ balance'["owner"] = balance["owner"] - top
        /\ \A n \in Names : n \notin {w, "owner"} => balance'[n] = balance[n]
        /\ DOMAIN balance' = Names
    BY <1>2, <1>3
  <1>5. balance' = [n \in Names |-> balance'[n]]
    BY <1>2, <1>3
  <1>6. ASSUME NEW n \in Names PROVE balance'[n] \in Nat
    BY <1>1, <1>2, <1>3, <1>4
  <1>7. balance' \in [Names -> Nat]
    BY <1>5, <1>6
  <1> QED
    BY <1>1, <1>4, <1>7 DEF w

LEMMA PayoutMoney ==
    ASSUME Shape, NEW j \in Jobs, post_call_payout(j)
    PROVE  /\ balance' \in [Names -> Nat]
           /\ balance'[Payee[j]] = balance[Payee[j]] + Payout
           /\ balance'["platform"] = balance["platform"] + Fee
           /\ \A n \in Names : n \notin {Payee[j], "platform"} => balance'[n] = balance[n]
  <1>1. /\ Payee[j] \in Names /\ Payee[j] # "platform" /\ "platform" \in Names
        /\ Payout \in Nat /\ Fee \in Nat /\ balance \in [Names -> Nat]
    BY SidesTyped, ConstantsTyped DEF Shape, Names
  <1>2. balance' = [balance EXCEPT ![Payee[j]] = @ + Payout, !["platform"] = @ + Fee]
    BY DEF post_call_payout
  <1> QED
    BY <1>1, <1>2

LEMMA ClawbackMoney ==
    ASSUME Shape, NEW j \in Jobs, NEW cents \in Nat, balance[Payee[j]] >= cents,
           apply_curve_clawback(j, cents)
    PROVE  /\ balance' \in [Names -> Nat]
           /\ balance'[Payee[j]] = balance[Payee[j]] - cents
           /\ balance'[Payer[j]] = balance[Payer[j]] + cents
           /\ \A n \in Names : n \notin {Payee[j], Payer[j]} => balance'[n] = balance[n]
  <1>1. /\ Payee[j] \in Names /\ Payee[j] # Payer[j] /\ Payer[j] \in Names
        /\ balance \in [Names -> Nat]
    BY SidesTyped DEF Shape
  <1>2. balance' = [balance EXCEPT ![Payee[j]] = @ - cents, ![Payer[j]] = @ + cents]
    BY DEF apply_curve_clawback
  <1> QED
    BY <1>1, <1>2

\* The condition under which a dispute is filed; otherwise nothing happens.
Files(j, side) ==
    /\ dispute[j] = "none"
    /\ balance[Filer(j, side)] >= FilingDeposit
    /\ stage[j] = "settled" => balance[Payee[j]] >= Payout /\ balance["platform"] >= Fee

LEMMA FileEffect ==
    ASSUME Shape, NEW p \in Clients, NEW side \in Sides, DisputeFile(p, side),
           loc[p].job \in Jobs
    PROVE  LET j == loc[p].job
               paid == stage[j] = "settled"
               lock == IF paid THEN Charge ELSE 0
               filer == Filer(j, side)
           IN  \/ UNCHANGED <<moneyVars, holdVars, disputeVars>>
               \/ /\ Files(j, side)
                  /\ dispute' = [dispute EXCEPT ![j] = side]
                  /\ deposited' = [deposited EXCEPT ![j] = FilingDeposit]
                  /\ locked' = [locked EXCEPT ![j] = lock]
                  /\ balance' = [n \in Names |->
                        balance[n]
                        - (IF n = filer THEN FilingDeposit ELSE 0)
                        - (IF n = Payee[j] /\ paid THEN Payout ELSE 0)
                        - (IF n = "platform" /\ paid THEN Fee ELSE 0)]
                  /\ rows' = rows \cup {Row(filer, "charge", 0 - FilingDeposit,
                                            NoKey, "deposit", j)}
                                  \cup (IF paid THEN {Row(Payee[j], "charge", 0 - Payout,
                                                          NoKey, "lock", j)} ELSE {})
                  /\ IF paid
                     THEN /\ consume_hold(j, Payout)
                          /\ earned' = [earned EXCEPT ![j] = @ - Payout]
                     ELSE UNCHANGED <<holdVars, earned>>
  <1> DEFINE j == loc[p].job
  <1>1. Charge > 0 /\ Charge \in Nat
    BY ConstantsTyped
  <1>2. CASE stage[j] = "settled"
    BY <1>1, <1>2 DEF DisputeFile, Files
  <1>3. CASE stage[j] # "settled"
    BY <1>1, <1>3 DEF DisputeFile, Files
  <1> QED
    BY <1>2, <1>3

LEMMA FileMoney ==
    ASSUME Shape, NEW j \in Jobs, NEW side \in Sides, Files(j, side),
           balance' = [n \in Names |->
                        balance[n]
                        - (IF n = Filer(j, side) THEN FilingDeposit ELSE 0)
                        - (IF n = Payee[j] /\ stage[j] = "settled" THEN Payout ELSE 0)
                        - (IF n = "platform" /\ stage[j] = "settled" THEN Fee ELSE 0)]
    PROVE  /\ balance' \in [Names -> Nat]
           /\ balance'[Filer(j, side)] = balance[Filer(j, side)] - FilingDeposit
           /\ balance'[Payee[j]] = balance[Payee[j]]
                                   - (IF stage[j] = "settled" THEN Payout ELSE 0)
           /\ balance'["platform"] = balance["platform"]
                                     - (IF stage[j] = "settled" THEN Fee ELSE 0)
           /\ \A n \in Names : n \notin {Filer(j, side), Payee[j], "platform"} =>
                 balance'[n] = balance[n]
  <1> DEFINE filer == Filer(j, side)  payee == Payee[j]
  <1>1. /\ payee \in Names /\ payee # filer /\ filer \in Names /\ "platform" \in Names
        /\ payee # "platform" /\ filer # "platform"
        /\ balance \in [Names -> Nat] /\ FilingDeposit \in Nat /\ Payout \in Nat /\ Fee \in Nat
    BY SidesTyped, ConstantsTyped DEF Shape, Names
  <1>2. /\ balance[filer] >= FilingDeposit
        /\ stage[j] = "settled" => balance[payee] >= Payout /\ balance["platform"] >= Fee
    BY DEF Files
  <1> HIDE DEF filer, payee
  <1>3. balance' = [n \in Names |->
                        balance[n]
                        - (IF n = filer THEN FilingDeposit ELSE 0)
                        - (IF n = payee /\ stage[j] = "settled" THEN Payout ELSE 0)
                        - (IF n = "platform" /\ stage[j] = "settled" THEN Fee ELSE 0)]
    BY DEF filer, payee
  <1>4. balance'[filer] = balance[filer] - FilingDeposit
    BY <1>1, <1>3
  <1>5. balance'[payee] = balance[payee] - (IF stage[j] = "settled" THEN Payout ELSE 0)
    BY <1>1, <1>3
  <1>6. balance'["platform"] = balance["platform"] - (IF stage[j] = "settled" THEN Fee ELSE 0)
    BY <1>1, <1>3
  <1>7. ASSUME NEW n \in Names, n \notin {filer, payee, "platform"}
        PROVE  balance'[n] = balance[n]
    BY <1>1, <1>3, <1>7
  <1>8. ASSUME NEW n \in Names PROVE balance'[n] \in Nat
    BY <1>1, <1>2, <1>4, <1>5, <1>6, <1>7
  <1>9. balance' \in [Names -> Nat]
    BY <1>3, <1>8
  <1> QED
    BY <1>4, <1>5, <1>6, <1>7, <1>9 DEF filer, payee

\* Where the filing deposit goes.
Home(j, o) ==
    IF o = (IF dispute[j] = "caller" THEN "agent_wins" ELSE "caller_wins")
    THEN "platform" ELSE Filer(j, dispute[j])

LEMMA RulingMoney ==
    ASSUME Shape, NEW j \in Jobs, NEW o \in Outcomes, post_dispute_settlement(j, o)
    PROVE  /\ Home(j, o) \in Names /\ Home(j, o) # Payee[j]
           /\ CallerShare(j, o) \in Nat
           /\ balance' = [n \in Names |->
                 balance[n]
                 + (IF n = Payer[j] THEN CallerShare(j, o) ELSE 0)
                 + (IF n = Payee[j] /\ o = "agent_wins" THEN Payout ELSE 0)
                 + (IF n = "platform" /\ o = "agent_wins" THEN Fee ELSE 0)
                 + (IF n = Home(j, o) THEN deposited[j] ELSE 0)]
           /\ balance' \in [Names -> Nat]
  <1>1. dispute[j] \in Sides
    BY DEF post_dispute_settlement
  <1>2. Home(j, o) \in Names /\ Home(j, o) # Payee[j]
    BY <1>1, SidesTyped DEF Home, Names
  <1>3. /\ Charge \in Nat /\ Payout \in Nat /\ Fee \in Nat /\ locked[j] \in Nat
        /\ deposited[j] \in Nat /\ balance \in [Names -> Nat]
    BY ConstantsTyped DEF Shape
  <1>4. CallerShare(j, o) \in Nat
    BY <1>3 DEF CallerShare
  <1>5. balance' = [n \in Names |->
                 balance[n]
                 + (IF n = Payer[j] THEN CallerShare(j, o) ELSE 0)
                 + (IF n = Payee[j] /\ o = "agent_wins" THEN Payout ELSE 0)
                 + (IF n = "platform" /\ o = "agent_wins" THEN Fee ELSE 0)
                 + (IF n = Home(j, o) THEN deposited[j] ELSE 0)]
    BY DEF post_dispute_settlement, Home
  <1>6. ASSUME NEW n \in Names PROVE balance'[n] \in Nat
    <2> DEFINE c == CallerShare(j, o)  h == Home(j, o)
    <2> HIDE DEF c, h
    <2>1. c \in Nat
      BY <1>4 DEF c
    <2>2. balance'[n] = balance[n]
                 + (IF n = Payer[j] THEN c ELSE 0)
                 + (IF n = Payee[j] /\ o = "agent_wins" THEN Payout ELSE 0)
                 + (IF n = "platform" /\ o = "agent_wins" THEN Fee ELSE 0)
                 + (IF n = h THEN deposited[j] ELSE 0)
      BY <1>5 DEF c, h
    <2> QED
      BY <1>3, <2>1, <2>2
  <1>7. balance' \in [Names -> Nat]
    BY <1>5, <1>6
  <1> QED
    BY <1>2, <1>4, <1>5, <1>7

-----------------------------------------------------------------------------
(* The shape. *)

LEMMA ClientsAreProcs ==
    /\ \A p \in Clients : p \in Procs
    /\ \A p \in Withdrawals : p \in Procs
  BY DEF Procs

\* The steps of a job.
LEMMA ShapeOfJob ==
    ASSUME Shape, AllPlaced, JobsKept, NEW j \in Jobs,
           \/ \E k \in Keys : pre_call_charge(j, k)
           \/ post_call_refund(j)
           \/ complete_job(j)
           \/ post_call_payout(j)
           \/ release_expired_hold(j)
           \/ \E o \in Outcomes : post_dispute_settlement(j, o)
    PROVE  Shape'
  <1>0. /\ Payer[j] \in Names /\ Payee[j] \in Names /\ Charge \in Nat /\ Payout \in Nat
        /\ now \in Int
    BY SidesTyped, ConstantsTyped DEF Shape
  <1>1. ASSUME NEW k \in Keys, pre_call_charge(j, k) PROVE Shape'
    <2>1. balance' \in [Names -> Nat]
      BY <1>1, ChargeMoney
    <2>2. stage' \in [Jobs -> Stages]
      BY <1>1 DEF pre_call_charge, Shape, Stages
    <2> QED
      BY <1>1, <2>1, <2>2
      DEF pre_call_charge, Shape, moneyVars, holdVars, jobVars, ratingVars, disputeVars
  <1>2. CASE post_call_refund(j)
    <2>1. balance' \in [Names -> Nat] /\ stage' \in [Jobs -> Stages]
      BY <1>0, <1>2 DEF post_call_refund, Shape, Stages
    <2> QED
      BY <1>2, <2>1
      DEF post_call_refund, Shape, moneyVars, holdVars, jobVars, ratingVars, disputeVars
  <1>3. CASE complete_job(j)
    <2>1. completedAt' \in [Jobs -> Int] /\ stage' \in [Jobs -> Stages]
      BY <1>0, <1>3 DEF complete_job, Shape, Stages
    <2> QED
      BY <1>3, <2>1
      DEF complete_job, Shape, moneyVars, holdVars, jobVars, ratingVars, disputeVars
  <1>4. CASE post_call_payout(j)
    <2>1. balance' \in [Names -> Nat]
      BY <1>4, PayoutMoney
    <2>2. /\ held' \in [Names -> Int] /\ hold' \in [Jobs -> HoldStates]
          /\ holdUntil' \in [Jobs -> Int]
      BY <1>4, CreateTyped DEF post_call_payout
    <2>3. earned' \in [Jobs -> Int] /\ stage' \in [Jobs -> Stages]
      BY <1>0, <1>4 DEF post_call_payout, Shape, Stages
    <2> QED
      BY <1>4, <2>1, <2>2, <2>3
      DEF post_call_payout, Shape, moneyVars, holdVars, jobVars, ratingVars, disputeVars
  <1>5. CASE release_expired_hold(j)
    <2>1. hold' \in [Jobs -> HoldStates] /\ held' \in [Names -> Int]
      BY <1>0, <1>5, HoldCents DEF release_expired_hold, Shape, HoldStates
    <2> QED
      BY <1>5, <2>1
      DEF release_expired_hold, Shape, moneyVars, holdVars, jobVars, ratingVars, disputeVars
  <1>6. ASSUME NEW o \in Outcomes, post_dispute_settlement(j, o) PROVE Shape'
    <2>1. balance' \in [Names -> Nat]
      BY <1>6, RulingMoney
    <2>2. /\ dispute' \in [Jobs -> {"none", "caller", "agent", "closed"}]
          /\ locked' \in [Jobs -> {0, Charge}] /\ deposited' \in [Jobs -> {0, FilingDeposit}]
          /\ earned' \in [Jobs -> Int] /\ stage' \in [Jobs -> Stages]
      BY <1>0, <1>6 DEF post_dispute_settlement, Shape, Stages
    <2> QED
      BY <1>6, <2>1, <2>2
      DEF post_dispute_settlement, Shape, moneyVars, holdVars, jobVars, ratingVars, disputeVars
  <1> QED
    BY <1>1, <1>2, <1>3, <1>4, <1>5, <1>6

\* What a clawback does: the debit and the credit, or the word that the balance is
\* short.
LEMMA ClawEffect ==
    ASSUME Shape, NEW p \in Clients, NEW pct \in CurvePct, RateClaw(p, pct),
           loc[p].job \in Jobs
    PROVE  LET j == loc[p].job
               cents == compute_clawback_cents(pct)
           IN  /\ cents \in Nat /\ cents <= Payout
               /\ \/ UNCHANGED <<moneyVars, holdVars, clawback>>
                  \/ /\ clawback' = [clawback EXCEPT ![j] = "underflow"]
                     /\ clawback[j] # "applied"
                     /\ UNCHANGED <<moneyVars, holdVars>>
                  \/ /\ balance[Payee[j]] >= cents
                     /\ clawback[j] # "applied"
                     /\ apply_curve_clawback(j, cents)
                     /\ consume_hold(j, cents)
                     /\ rows' = rows \cup ClawbackRows(j, cents)
                     /\ earned' = [earned EXCEPT ![j] = @ - cents]
                     /\ clawback' = [clawback EXCEPT ![j] = "applied"]
  <1>1. /\ compute_clawback_cents(pct) \in Nat /\ compute_clawback_cents(pct) <= Payout
    BY ClawbackCents
  <1> QED
    BY <1>1 DEF RateClaw, apply_curve_clawback

\* The steps of a client's request.
LEMMA ShapeOfClient ==
    ASSUME Shape, AllPlaced, JobsKept, NEW p \in Clients,
           \/ \E j \in Jobs : RateRead(p, j) \/ DisputeRead(p, j)
           \/ RateRecord(p)
           \/ \E pct \in CurvePct : RateClaw(p, pct)
           \/ \E side \in Sides : DisputeFile(p, side)
    PROVE  Shape'
  <1>0. p \in Procs /\ Placed(p)
    BY ClientsAreProcs DEF AllPlaced
  <1>1. ASSUME NEW j \in Jobs, RateRead(p, j) \/ DisputeRead(p, j) PROVE Shape'
    <2>1. /\ [NoLoc EXCEPT !.job = j, !.settled = stage[j] = "settled"] \in Locals
          /\ [NoLoc EXCEPT !.job = j] \in Locals /\ "r_record" \in Labels /\ "d_file" \in Labels
      BY DEF NoLoc, Locals, Labels
    <2>2. pc' \in [Procs -> Labels] /\ loc' \in [Procs -> Locals]
      BY <1>0, <1>1, <2>1, ProcTyped DEF RateRead, DisputeRead
    <2> QED
      BY <1>1, <2>2
      DEF RateRead, DisputeRead, Shape, moneyVars, holdVars, jobVars, ratingVars, disputeVars
  <1>2. CASE RateRecord(p)
    <2>1. pc' \in [Procs -> Labels] /\ loc' \in [Procs -> Locals]
      BY <1>0, <1>2, ProcTyped DEF RateRecord, Labels
    <2>2. rated' \in [Jobs -> BOOLEAN]
      BY <1>2 DEF RateRecord, Shape
    <2> QED
      BY <1>2, <2>1, <2>2
      DEF RateRecord, Shape, moneyVars, holdVars, jobVars, disputeVars
  <1>3. ASSUME NEW pct \in CurvePct, RateClaw(p, pct) PROVE Shape'
    <2> DEFINE j == loc[p].job  cents == compute_clawback_cents(pct)
    <2>1. j \in Jobs
      BY <1>0, <1>3 DEF RateClaw, Placed
    <2>2. cents \in Nat
      BY <1>3, <2>1, ClawEffect
    <2>3. /\ balance' \in [Names -> Nat] /\ held' \in [Names -> Int]
          /\ hold' \in [Jobs -> HoldStates] /\ holdUntil' \in [Jobs -> Int]
          /\ earned' \in [Jobs -> Int]
          /\ clawback' \in [Jobs -> {"none", "applied", "underflow"}]
      <3>1. CASE UNCHANGED <<moneyVars, holdVars, clawback>>
        BY <3>1 DEF moneyVars, holdVars, Shape
      <3>2. CASE /\ clawback' = [clawback EXCEPT ![j] = "underflow"]
                 /\ UNCHANGED <<moneyVars, holdVars>>
        BY <3>2 DEF moneyVars, holdVars, Shape
      <3>3. CASE /\ balance[Payee[j]] >= cents
                 /\ apply_curve_clawback(j, cents)
                 /\ consume_hold(j, cents)
                 /\ earned' = [earned EXCEPT ![j] = @ - cents]
                 /\ clawback' = [clawback EXCEPT ![j] = "applied"]
        <4>1. balance' \in [Names -> Nat]
          BY <2>1, <2>2, <3>3, ClawbackMoney
        <4>2. /\ held' \in [Names -> Int] /\ hold' \in [Jobs -> HoldStates]
              /\ holdUntil' = holdUntil
          BY <2>1, <2>2, <3>3, ConsumeTyped
        <4>3. /\ earned' \in [Jobs -> Int]
              /\ clawback' \in [Jobs -> {"none", "applied", "underflow"}]
          BY <2>1, <2>2, <3>3 DEF Shape
        <4> QED
          BY <4>1, <4>2, <4>3 DEF Shape
      <3> QED
        BY <1>3, <2>1, <3>1, <3>2, <3>3, ClawEffect
    <2>4. pc' \in [Procs -> Labels] /\ loc' \in [Procs -> Locals]
      BY <1>0, <1>3, ProcTyped DEF RateClaw
    <2> QED
      BY <1>3, <2>3, <2>4 DEF RateClaw, Shape, jobVars, disputeVars
  <1>4. ASSUME NEW side \in Sides, DisputeFile(p, side) PROVE Shape'
    <2> DEFINE j == loc[p].job
    <2>1. j \in Jobs
      BY <1>0, <1>4 DEF DisputeFile, Placed
    <2>2. /\ balance' \in [Names -> Nat] /\ held' \in [Names -> Int]
          /\ hold' \in [Jobs -> HoldStates] /\ holdUntil' \in [Jobs -> Int]
          /\ earned' \in [Jobs -> Int]
          /\ dispute' \in [Jobs -> {"none", "caller", "agent", "closed"}]
          /\ locked' \in [Jobs -> {0, Charge}] /\ deposited' \in [Jobs -> {0, FilingDeposit}]
      <3>1. CASE UNCHANGED <<moneyVars, holdVars, disputeVars>>
        BY <3>1 DEF moneyVars, holdVars, disputeVars, Shape
      <3>2. CASE ~UNCHANGED <<moneyVars, holdVars, disputeVars>>
        <4>1. balance' \in [Names -> Nat]
          BY <1>4, <2>1, <3>2, FileEffect, FileMoney
        <4>2. /\ dispute' \in [Jobs -> {"none", "caller", "agent", "closed"}]
              /\ locked' \in [Jobs -> {0, Charge}]
              /\ deposited' \in [Jobs -> {0, FilingDeposit}]
          BY <1>4, <2>1, <3>2, FileEffect DEF Shape, Sides
        <4>3. /\ held' \in [Names -> Int] /\ hold' \in [Jobs -> HoldStates]
              /\ holdUntil' \in [Jobs -> Int] /\ earned' \in [Jobs -> Int]
          <5>1. Payout \in Int
            BY ConstantsTyped
          <5>2. CASE stage[j] = "settled"
            <6>1. consume_hold(j, Payout) /\ earned' = [earned EXCEPT ![j] = @ - Payout]
              BY <1>4, <2>1, <3>2, <5>2, FileEffect
            <6> QED
              BY <2>1, <5>1, <6>1, ConsumeTyped DEF Shape
          <5>3. CASE stage[j] # "settled"
            <6>1. UNCHANGED <<holdVars, earned>>
              BY <1>4, <2>1, <3>2, <5>3, FileEffect
            <6> QED
              BY <6>1 DEF Shape, holdVars
          <5> QED
            BY <5>2, <5>3
        <4> QED
          BY <4>1, <4>2, <4>3
      <3> QED
        BY <3>1, <3>2
    <2>3. pc' \in [Procs -> Labels] /\ loc' \in [Procs -> Locals]
      BY <1>0, <1>4, ProcTyped DEF DisputeFile
    <2> QED
      BY <1>4, <2>2, <2>3 DEF DisputeFile, Shape, jobVars, ratingVars
  <1> QED
    BY <1>1, <1>2, <1>3, <1>4

\* The steps of the owner, and the clock.
LEMMA ShapeOfOwner ==
    ASSUME Shape,
           \/ Tick
           \/ set_wallet_session_budget
           \/ \E a \in Amounts : sweep_to_parent(a)
           \/ \E p \in Withdrawals :
                 \/ \E a \in Amounts : WithdrawRead(p, a)
                 \/ WithdrawDebit(p)
                 \/ WithdrawTransfer(p)
    PROVE  Shape'
  <1>0. /\ "agent" \in Names /\ "owner" \in Names /\ balance \in [Names -> Nat]
        /\ MaxNow \in Nat /\ sent \in Sent
    BY ConstantsTyped DEF Names, Shape
  <1>1. CASE Tick
    BY <1>0, <1>1 DEF Tick, Shape, moneyVars, holdVars, jobVars, ratingVars, disputeVars
  <1>2. CASE set_wallet_session_budget
    BY <1>0, <1>2
    DEF set_wallet_session_budget, Shape, moneyVars, holdVars, jobVars, ratingVars, disputeVars
  <1>3. ASSUME NEW a \in Amounts, sweep_to_parent(a) PROVE Shape'
    <2>1. a \in Nat
      BY ConstantsTyped
    <2>2. balance' \in [Names -> Nat]
      BY <1>0, <1>3, <2>1 DEF sweep_to_parent
    <2> QED
      BY <1>3, <2>2
      DEF sweep_to_parent, Shape, holdVars, jobVars, ratingVars, disputeVars
  <1>4. ASSUME NEW p \in Withdrawals, NEW a \in Amounts, WithdrawRead(p, a) PROVE Shape'
    <2>1. a \in Nat /\ p \in Procs
      BY ConstantsTyped, ClientsAreProcs
    <2>2. [NoLoc EXCEPT !.amount = a] \in Locals /\ "w_debit" \in Labels
      BY <2>1 DEF NoLoc, Locals, Labels
    <2>3. pc' \in [Procs -> Labels] /\ loc' \in [Procs -> Locals]
      BY <1>4, <2>1, <2>2, ProcTyped DEF WithdrawRead
    <2> QED
      BY <1>4, <2>3
      DEF WithdrawRead, Shape, moneyVars, holdVars, jobVars, ratingVars, disputeVars
  <1>5. ASSUME NEW p \in Withdrawals, WithdrawDebit(p) PROVE Shape'
    <2>1. p \in Procs /\ "w_transfer" \in Labels
      BY ClientsAreProcs DEF Labels
    <2>2. pc' \in [Procs -> Labels] /\ loc' \in [Procs -> Locals]
      BY <1>5, <2>1, ProcTyped DEF WithdrawDebit
    <2>3. balance' \in [Names -> Nat]
      <3>1. loc[p].amount \in Nat
        BY <2>1, ProcTyped
      <3> QED
        BY <1>0, <1>5, <3>1 DEF WithdrawDebit
    <2> QED
      BY <1>5, <2>2, <2>3
      DEF WithdrawDebit, Shape, holdVars, jobVars, ratingVars, disputeVars
  <1>6. ASSUME NEW p \in Withdrawals, WithdrawTransfer(p) PROVE Shape'
    <2>1. p \in Procs
      BY ClientsAreProcs
    <2>2. pc' \in [Procs -> Labels] /\ loc' \in [Procs -> Locals]
      BY <1>6, <2>1, ProcTyped DEF WithdrawTransfer
    <2>3. balance' \in [Names -> Nat] /\ sent' \in Sent
      <3> DEFINE a == loc[p].amount
      <3>1. a \in Nat
        BY <2>1, ProcTyped
      <3>2. \/ UNCHANGED balance
            \/ balance' = [balance EXCEPT !["owner"] = @ + a]
        BY <1>6 DEF WithdrawTransfer
      <3>3. \/ sent' = [sent EXCEPT !.bank = @ + a]
            \/ UNCHANGED sent
            \/ sent' = [sent EXCEPT !.bank = @ + a, !.twice = @ + a]
            \/ sent' = [sent EXCEPT !.lost = @ + a]
        BY <1>6 DEF WithdrawTransfer
      <3> HIDE DEF a
      <3>4. balance' \in [Names -> Nat]
        BY <1>0, <3>1, <3>2
      <3>5. sent' \in Sent
        <4>1. sent.bank + a \in Nat /\ sent.twice + a \in Nat /\ sent.lost + a \in Nat
          BY <1>0, <3>1 DEF Sent
        <4> QED
          BY <1>0, <3>3, <4>1 DEF Sent
      <3> QED
        BY <3>4, <3>5
    <2> QED
      BY <1>6, <2>2, <2>3
      DEF WithdrawTransfer, Shape, holdVars, jobVars, ratingVars, disputeVars
  <1> QED
    BY <1>1, <1>2, <1>3, <1>4, <1>5, <1>6

LEMMA ShapeStep ==
    ASSUME Shape, AllPlaced, JobsKept, Next
    PROVE  Shape'
  BY ShapeOfJob, ShapeOfClient, ShapeOfOwner DEF Next

-----------------------------------------------------------------------------
(* Where the requests are. *)

\* What a step leaves as it is: a job stays complete, paid out and rated.
LEMMA StagesGrow ==
    ASSUME Shape, AllPlaced, JobsKept, Next
    PROVE  \A j \in Jobs :
              /\ Completed(j) => Completed(j)'
              /\ stage[j] = "settled" => stage'[j] = "settled"
              /\ rated[j] => rated'[j]
              /\ stage[j] = "unordered" <=> stage'[j] = "unordered"
  <1>0. stage \in [Jobs -> Stages] /\ rated \in [Jobs -> BOOLEAN]
    BY DEF Shape
  <1>1. CASE UNCHANGED <<stage, rated>>
    BY <1>1 DEF Completed
  <1>2. ASSUME NEW i \in Jobs,
               \/ \E k \in Keys : pre_call_charge(i, k)
               \/ post_call_refund(i)
               \/ complete_job(i)
               \/ post_call_payout(i)
        PROVE  \A j \in Jobs :
                  /\ Completed(j) => Completed(j)'
                  /\ stage[j] = "settled" => stage'[j] = "settled"
                  /\ rated[j] => rated'[j]
                  /\ stage[j] = "unordered" <=> stage'[j] = "unordered"
    BY <1>0, <1>2
    DEF pre_call_charge, post_call_refund, complete_job, post_call_payout, ratingVars, Completed
  <1>3. ASSUME NEW i \in Jobs, NEW o \in Outcomes, post_dispute_settlement(i, o)
        PROVE  \A j \in Jobs :
                  /\ Completed(j) => Completed(j)'
                  /\ stage[j] = "settled" => stage'[j] = "settled"
                  /\ rated[j] => rated'[j]
                  /\ stage[j] = "unordered" <=> stage'[j] = "unordered"
    <2>1. dispute[i] \in Sides
      BY <1>3 DEF post_dispute_settlement
    <2>2. Completed(i) /\ (stage[i] = "settled" => locked[i] = Charge)
      BY <2>1 DEF JobsKept, Locked, Sides
    <2>3. Charge # 0
      BY ConstantsTyped
    <2>4. stage' = [stage EXCEPT ![i] = IF o = "void" /\ locked[i] = 0
                                         THEN "voided" ELSE "settled"]
          /\ rated' = rated
      BY <1>3 DEF post_dispute_settlement, ratingVars
    <2> QED
      BY <1>0, <2>2, <2>3, <2>4 DEF Completed
  <1>4. ASSUME NEW p \in Clients, RateRecord(p)
        PROVE  \A j \in Jobs :
                  /\ Completed(j) => Completed(j)'
                  /\ stage[j] = "settled" => stage'[j] = "settled"
                  /\ rated[j] => rated'[j]
                  /\ stage[j] = "unordered" <=> stage'[j] = "unordered"
    BY <1>0, <1>4 DEF RateRecord, jobVars, Completed
  <1> QED
    BY <1>1, <1>2, <1>3, <1>4
    DEF Next, Tick, set_wallet_session_budget, release_expired_hold, RateRead, DisputeRead,
        RateClaw, DisputeFile, sweep_to_parent, WithdrawRead, WithdrawDebit, WithdrawTransfer,
        jobVars, ratingVars

LEMMA AllPlacedStep ==
    ASSUME Shape, AllPlaced, JobsKept, Next
    PROVE  AllPlaced'
  <1>0. /\ \A j \in Jobs : /\ Completed(j) => Completed(j)'
                           /\ stage[j] = "settled" => stage'[j] = "settled"
                           /\ rated[j] => rated'[j]
        /\ \A p \in Procs : Placed(p)
    BY StagesGrow DEF AllPlaced
  <1>1. ASSUME NEW p \in Procs, pc'[p] = pc[p], loc'[p] = loc[p] PROVE Placed(p)'
    <2> DEFINE j == loc[p].job
    <2>1. CASE pc[p] \in {"r_record", "r_claw", "d_file"}
      <3>1. j \in Jobs /\ Completed(j)
        BY <1>0, <2>1 DEF Placed
      <3> QED
        BY <1>0, <1>1, <2>1, <3>1 DEF Placed, Completed
    <2>2. CASE pc[p] \notin {"r_record", "r_claw", "d_file"}
      BY <1>1, <2>2 DEF Placed
    <2> QED
      BY <2>1, <2>2
  <1>2. CASE UNCHANGED <<pc, loc>>
    BY <1>1, <1>2 DEF AllPlaced
  <1>3. ASSUME NEW p \in Procs, \A q \in Procs : q # p => pc'[q] = pc[q] /\ loc'[q] = loc[q],
               Placed(p)'
        PROVE  AllPlaced'
    BY <1>1, <1>3 DEF AllPlaced
  <1>4. ASSUME NEW p \in Clients, NEW j \in Jobs, RateRead(p, j) PROVE AllPlaced'
    <2> DEFINE r == [NoLoc EXCEPT !.job = j, !.settled = stage[j] = "settled"]
    <2>0. r.job = j /\ (r.settled => stage[j] = "settled")
      BY DEF NoLoc
    <2>1. /\ pc'[p] = "r_record" /\ loc'[p].job = j /\ (loc'[p].settled => stage[j] = "settled")
          /\ \A q \in Procs : q # p => pc'[q] = pc[q] /\ loc'[q] = loc[q]
      <3>1. Begin(p, "r_record", r)
        BY <1>4 DEF RateRead
      <3> HIDE DEF r
      <3> QED
        BY <2>0, <3>1, ClientsAreProcs, ProcMoves
    <2>2. Completed(j)' /\ (stage[j] = "settled" => stage'[j] = "settled")
      BY <1>0, <1>4 DEF RateRead
    <2>3. Placed(p)'
      BY <2>1, <2>2 DEF Placed, Completed
    <2> QED
      BY <1>3, <2>1, <2>3, ClientsAreProcs
  <1>5. ASSUME NEW p \in Clients, NEW j \in Jobs, DisputeRead(p, j) PROVE AllPlaced'
    <2>1. /\ pc'[p] = "d_file" /\ loc'[p].job = j
          /\ \A q \in Procs : q # p => pc'[q] = pc[q] /\ loc'[q] = loc[q]
      BY <1>5, ClientsAreProcs, ProcMoves DEF DisputeRead, NoLoc
    <2>2. Completed(j)'
      BY <1>0, <1>5 DEF DisputeRead
    <2>3. Placed(p)'
      BY <2>1, <2>2 DEF Placed, Completed
    <2> QED
      BY <1>3, <2>1, <2>3, ClientsAreProcs
  <1>6. ASSUME NEW p \in Clients, RateRecord(p) PROVE AllPlaced'
    <2> DEFINE j == loc[p].job
    <2>1. p \in Procs /\ pc[p] = "r_record" /\ j \in Jobs /\ Completed(j)
      BY <1>0, <1>6, ClientsAreProcs DEF RateRecord, Placed
    <2>2. /\ \/ Finish(p)
             \/ Goto(p, "r_claw") /\ loc[p].settled /\ rated' = [rated EXCEPT ![j] = TRUE]
      BY <1>6 DEF RateRecord
    <2>3. CASE Finish(p)
      <3>1. pc'[p] = "idle" /\ \A q \in Procs : q # p => pc'[q] = pc[q] /\ loc'[q] = loc[q]
        BY <2>1, <2>3, ProcMoves
      <3>2. Placed(p)'
        BY <3>1 DEF Placed
      <3> QED
        BY <1>3, <2>1, <3>1, <3>2
    <2>4. CASE Goto(p, "r_claw") /\ loc[p].settled /\ rated' = [rated EXCEPT ![j] = TRUE]
      <3>1. /\ pc'[p] = "r_claw" /\ loc'[p] = loc[p]
            /\ \A q \in Procs : q # p => pc'[q] = pc[q] /\ loc'[q] = loc[q]
        BY <2>1, <2>4, ProcMoves
      <3>2. rated'[j] /\ stage[j] = "settled"
        BY <1>0, <2>1, <2>4 DEF Placed, Shape
      <3>3. Placed(p)'
        BY <1>0, <2>1, <3>1, <3>2 DEF Placed, Completed
      <3> QED
        BY <1>3, <2>1, <3>1, <3>3
    <2> QED
      BY <2>2, <2>3, <2>4
  <1>7. ASSUME NEW p \in Procs, Finish(p) PROVE AllPlaced'
    <2>1. pc'[p] = "idle" /\ \A q \in Procs : q # p => pc'[q] = pc[q] /\ loc'[q] = loc[q]
      BY <1>7, ProcMoves
    <2>2. Placed(p)'
      BY <2>1 DEF Placed
    <2> QED
      BY <1>3, <2>1, <2>2
  <1>8. ASSUME NEW p \in Procs, NEW l \in {"w_debit", "w_transfer"},
               Goto(p, l) \/ \E r : Begin(p, l, r)
        PROVE  AllPlaced'
    <2>1. pc'[p] = l /\ \A q \in Procs : q # p => pc'[q] = pc[q] /\ loc'[q] = loc[q]
      BY <1>8, ProcMoves
    <2>2. Placed(p)'
      BY <2>1 DEF Placed
    <2> QED
      BY <1>3, <2>1, <2>2
  <1>9. ASSUME NEW p \in Withdrawals,
               \/ \E a \in Amounts : WithdrawRead(p, a)
               \/ WithdrawDebit(p)
               \/ WithdrawTransfer(p)
        PROVE  AllPlaced'
    <2>1. p \in Procs
      BY ClientsAreProcs
    <2>2. Finish(p) \/ Goto(p, "w_transfer") \/ \E r : Begin(p, "w_debit", r)
      BY <1>9 DEF WithdrawRead, WithdrawDebit, WithdrawTransfer
    <2> QED
      BY <1>7, <1>8, <2>1, <2>2
  <1>10. ASSUME NEW p \in Clients,
                (\E pct \in CurvePct : RateClaw(p, pct)) \/ (\E s \in Sides : DisputeFile(p, s))
         PROVE  AllPlaced'
    BY <1>7, <1>10, ClientsAreProcs DEF RateClaw, DisputeFile
  <1> QED
    BY <1>2, <1>4, <1>5, <1>6, <1>9, <1>10
    DEF Next, Tick, set_wallet_session_budget, pre_call_charge, post_call_refund, complete_job,
        post_call_payout, release_expired_hold, post_dispute_settlement, sweep_to_parent

-----------------------------------------------------------------------------
(* The jobs. *)

Kept(j) == Locked(j) /\ Earned(j) /\ Held(j)

\* A step that leaves a job alone: it may be rated, and time may pass.
SameJob(j) ==
    /\ now' >= now
    /\ stage'[j] = stage[j] /\ completedAt'[j] = completedAt[j]
    /\ hold'[j] = hold[j] /\ holdUntil'[j] = holdUntil[j]
    /\ rated[j] => rated'[j]
    /\ clawback'[j] = clawback[j] /\ earned'[j] = earned[j]
    /\ dispute'[j] = dispute[j] /\ locked'[j] = locked[j] /\ deposited'[j] = deposited[j]

LEMMA JobTyped ==
    ASSUME Shape, NEW j \in Jobs
    PROVE  /\ now \in Int /\ completedAt[j] \in Int /\ holdUntil[j] \in Int /\ earned[j] \in Int
           /\ stage[j] \in Stages /\ hold[j] \in HoldStates
           /\ dispute[j] \in {"none", "caller", "agent", "closed"}
           /\ clawback[j] \in {"none", "applied", "underflow"}
           /\ locked[j] \in {0, Charge} /\ deposited[j] \in {0, FilingDeposit}
  BY DEF Shape

LEMMA JobFrame ==
    ASSUME Shape, Shape', NEW j \in Jobs, Kept(j), SameJob(j)
    PROVE  Kept(j)'
  <1>1. /\ now \in Int /\ now' \in Int /\ completedAt[j] \in Int /\ holdUntil[j] \in Int
        /\ Window \in Int /\ now' >= now
    BY ConstantsTyped DEF Shape, SameJob
  <1>2. Locked(j)'
    BY DEF SameJob, Kept, Locked, Completed
  <1>3. Earned(j)'
    BY DEF SameJob, Kept, Earned
  <1>4. Held(j)'
    BY <1>1 DEF SameJob, Kept, Held, Completed
  <1> QED
    BY <1>2, <1>3, <1>4 DEF Kept

LEMMA KeptByOne ==
    ASSUME Shape, Shape', JobsKept, NEW j \in Jobs, Kept(j)',
           \A i \in Jobs : i # j => SameJob(i)
    PROVE  JobsKept'
  <1>1. ASSUME NEW i \in Jobs PROVE Kept(i)'
    <2>1. CASE i = j
      BY <2>1
    <2>2. CASE i # j
      BY <2>2, JobFrame DEF JobsKept, Kept
    <2> QED
      BY <2>1, <2>2
  <1> QED
    BY <1>1 DEF JobsKept, Kept

LEMMA KeptOfJob ==
    ASSUME Shape, Shape', AllPlaced, JobsKept, NEW j \in Jobs,
           \/ \E k \in Keys : pre_call_charge(j, k)
           \/ post_call_refund(j)
           \/ complete_job(j)
           \/ post_call_payout(j)
           \/ release_expired_hold(j)
           \/ \E o \in Outcomes : post_dispute_settlement(j, o)
    PROVE  JobsKept'
  <1>0. /\ Payout \in Nat /\ Window \in Nat /\ Charge \in Nat /\ Charge > 0
        /\ now \in Int /\ completedAt[j] \in Int /\ holdUntil[j] \in Int /\ earned[j] \in Int
        /\ stage[j] \in Stages /\ dispute[j] \in {"none", "caller", "agent", "closed"}
        /\ Locked(j) /\ Earned(j) /\ Held(j)
    BY ConstantsTyped, JobTyped DEF JobsKept
  <1>1. /\ stage \in [Jobs -> Stages] /\ completedAt \in [Jobs -> Int]
        /\ hold \in [Jobs -> HoldStates] /\ earned \in [Jobs -> Int]
        /\ dispute \in [Jobs -> {"none", "caller", "agent", "closed"}]
        /\ locked \in [Jobs -> {0, Charge}] /\ deposited \in [Jobs -> {0, FilingDeposit}]
    BY DEF Shape
  <1> SUFFICES Kept(j)' /\ \A i \in Jobs : i # j => SameJob(i)
    BY KeptByOne
  <1>2. ASSUME NEW k \in Keys, pre_call_charge(j, k)
        PROVE  Kept(j)' /\ \A i \in Jobs : i # j => SameJob(i)
    <2>1. /\ stage[j] = "none" /\ stage' = [stage EXCEPT ![j] = "charged"]
          /\ UNCHANGED <<now, completedAt, earned, hold, holdUntil, rated, clawback,
                         dispute, locked, deposited>>
      BY <1>2 DEF pre_call_charge, holdVars, ratingVars, disputeVars
    <2>2. stage'[j] = "charged" /\ \A i \in Jobs : i # j => stage'[i] = stage[i]
      BY <1>1, <2>1
    <2>3. Locked(j)' /\ Earned(j)' /\ Held(j)'
      BY <1>0, <2>1, <2>2 DEF Locked, Earned, Held, Completed
    <2> QED
      BY <1>0, <2>1, <2>2, <2>3 DEF Kept, SameJob
  <1>3. ASSUME post_call_refund(j)
        PROVE  Kept(j)' /\ \A i \in Jobs : i # j => SameJob(i)
    <2>1. /\ stage[j] = "charged" /\ stage' = [stage EXCEPT ![j] = "refunded"]
          /\ UNCHANGED <<now, completedAt, earned, hold, holdUntil, rated, clawback,
                         dispute, locked, deposited>>
      BY <1>3 DEF post_call_refund, holdVars, ratingVars, disputeVars
    <2>2. stage'[j] = "refunded" /\ \A i \in Jobs : i # j => stage'[i] = stage[i]
      BY <1>1, <2>1
    <2>3. Locked(j)' /\ Earned(j)' /\ Held(j)'
      BY <1>0, <2>1, <2>2 DEF Locked, Earned, Held, Completed
    <2> QED
      BY <1>0, <2>1, <2>2, <2>3 DEF Kept, SameJob
  <1>4. ASSUME complete_job(j)
        PROVE  Kept(j)' /\ \A i \in Jobs : i # j => SameJob(i)
    <2>1. /\ stage[j] = "charged" /\ stage' = [stage EXCEPT ![j] = "complete"]
          /\ completedAt' = [completedAt EXCEPT ![j] = now]
          /\ UNCHANGED <<now, earned, hold, holdUntil, rated, clawback,
                         dispute, locked, deposited>>
      BY <1>4 DEF complete_job, moneyVars, holdVars, ratingVars, disputeVars
    <2>2. /\ stage'[j] = "complete" /\ completedAt'[j] = now
          /\ \A i \in Jobs : i # j => stage'[i] = stage[i] /\ completedAt'[i] = completedAt[i]
      BY <1>1, <2>1
    <2>3. Locked(j)' /\ Earned(j)' /\ Held(j)'
      BY <1>0, <2>1, <2>2 DEF Locked, Earned, Held, Completed, Sides
    <2> QED
      BY <1>0, <2>1, <2>2, <2>3 DEF Kept, SameJob
  <1>5. ASSUME post_call_payout(j)
        PROVE  Kept(j)' /\ \A i \in Jobs : i # j => SameJob(i)
    <2>1. /\ stage[j] = "complete" /\ dispute[j] = "none"
          /\ stage' = [stage EXCEPT ![j] = "settled"]
          /\ earned' = [earned EXCEPT ![j] = @ + Payout]
          /\ IF j \in Unheld THEN UNCHANGED holdVars ELSE create_hold(j)
          /\ UNCHANGED <<now, completedAt, rated, clawback, dispute, locked, deposited>>
      BY <1>5 DEF post_call_payout, ratingVars, disputeVars
    <2>2. /\ stage'[j] = "settled" /\ earned'[j] = earned[j] + Payout
          /\ \A i \in Jobs : i # j => stage'[i] = stage[i] /\ earned'[i] = earned[i]
      BY <1>1, <2>1
    <2>3. /\ \A i \in Jobs : i # j => hold'[i] = hold[i] /\ holdUntil'[i] = holdUntil[i]
          /\ Keepless(j) => hold' = hold
          /\ ~Keepless(j) => hold'[j] = "active" /\ holdUntil'[j] = now + Window
      BY <2>1, CreateTyped
    <2>4. hold[j] = "none" /\ clawback[j] = "none" /\ completedAt[j] <= now /\ earned[j] = 0
      BY <1>0, <2>1 DEF Held, Earned, Completed
    <2>5. Locked(j)' /\ Earned(j)'
      BY <1>0, <2>1, <2>2, <2>4 DEF Locked, Earned, Completed, Sides
    <2>6. Held(j)'
      <3>1. Keepless(j)' = Keepless(j)
        BY DEF Keepless, compute_hold_cents
      <3> QED
        BY <1>0, <2>1, <2>2, <2>3, <2>4, <3>1 DEF Held, Completed
    <2> QED
      BY <1>0, <2>1, <2>2, <2>3, <2>5, <2>6 DEF Kept, SameJob
  <1>6. ASSUME release_expired_hold(j)
        PROVE  Kept(j)' /\ \A i \in Jobs : i # j => SameJob(i)
    <2>1. /\ hold[j] = "active" /\ holdUntil[j] < now
          /\ hold' = [hold EXCEPT ![j] = "released"]
          /\ UNCHANGED <<now, earned, stage, completedAt, holdUntil, rated, clawback,
                         dispute, locked, deposited>>
      BY <1>6 DEF release_expired_hold, moneyVars, jobVars, ratingVars, disputeVars
    <2>2. hold'[j] = "released" /\ \A i \in Jobs : i # j => hold'[i] = hold[i]
      BY <1>1, <2>1
    <2>3. Locked(j)' /\ Earned(j)'
      BY <1>0, <2>1, <2>2 DEF Locked, Earned, Completed
    <2>4. Held(j)'
      BY <1>0, <2>1, <2>2 DEF Held, Completed
    <2> QED
      BY <1>0, <2>1, <2>2, <2>3, <2>4 DEF Kept, SameJob
  <1>7. ASSUME NEW o \in Outcomes, post_dispute_settlement(j, o)
        PROVE  Kept(j)' /\ \A i \in Jobs : i # j => SameJob(i)
    <2> DEFINE gain == IF o = "agent_wins" THEN Payout ELSE 0
               next == IF o = "void" /\ locked[j] = 0 THEN "voided" ELSE "settled"
    <2>1. /\ dispute[j] \in Sides /\ dispute' = [dispute EXCEPT ![j] = "closed"]
          /\ locked' = [locked EXCEPT ![j] = 0] /\ deposited' = [deposited EXCEPT ![j] = 0]
          /\ earned' = [earned EXCEPT ![j] = @ + gain]
          /\ stage' = [stage EXCEPT ![j] = next]
          /\ UNCHANGED <<now, completedAt, hold, holdUntil, rated, clawback>>
      BY <1>7 DEF post_dispute_settlement, holdVars, ratingVars
    <2>2. /\ dispute'[j] = "closed" /\ locked'[j] = 0 /\ deposited'[j] = 0
          /\ earned'[j] = earned[j] + gain /\ stage'[j] = next
          /\ \A i \in Jobs : i # j =>
                /\ dispute'[i] = dispute[i] /\ locked'[i] = locked[i]
                /\ deposited'[i] = deposited[i] /\ earned'[i] = earned[i]
                /\ stage'[i] = stage[i]
      BY <1>1, <2>1
    <2>3. Completed(j) /\ stage[j] # "voided" /\ hold[j] # "active"
      BY <1>0, <2>1 DEF Locked, Held, Sides
    <2>4. stage[j] = "settled" => next = "settled"
      BY <1>0, <2>1 DEF Locked
    <2>5. gain \in Nat /\ next \in {"voided", "settled"}
      BY <1>0
    <2> HIDE DEF gain, next
    <2>6. Locked(j)'
      BY <2>2, <2>5 DEF Locked, Completed, Sides
    <2>7. Earned(j)'
      <3>1. CASE stage[j] = "settled"
        BY <1>0, <2>1, <2>2, <2>4, <2>5, <3>1 DEF Earned, Sides
      <3>2. CASE stage[j] # "settled"
        <4>1. clawback[j] = "none" /\ earned[j] = 0
          BY <1>0, <3>2 DEF Earned
        <4>2. CASE next = "settled"
          BY <1>0, <2>1, <2>2, <2>5, <4>1, <4>2 DEF Earned
        <4>3. CASE next = "voided"
          <5>1. gain = 0
            BY <4>3 DEF gain, next
          <5> QED
            BY <2>1, <2>2, <4>1, <4>3, <5>1 DEF Earned
        <4> QED
          BY <2>5, <4>2, <4>3
      <3> QED
        BY <3>1, <3>2
    <2>8. Held(j)'
      BY <1>0, <2>1, <2>2, <2>3, <2>4, <2>5 DEF Held, Completed
    <2> QED
      BY <1>0, <2>1, <2>2, <2>6, <2>7, <2>8 DEF Kept, SameJob
  <1> QED
    BY <1>2, <1>3, <1>4, <1>5, <1>6, <1>7

LEMMA KeptOfClient ==
    ASSUME Shape, Shape', AllPlaced, JobsKept, NEW p \in Clients,
           \/ \E j \in Jobs : RateRead(p, j) \/ DisputeRead(p, j)
           \/ RateRecord(p)
           \/ \E pct \in CurvePct : RateClaw(p, pct)
           \/ \E side \in Sides : DisputeFile(p, side)
    PROVE  JobsKept'
  <1>0. Placed(p) /\ Payout \in Nat /\ Charge \in Nat /\ Window \in Nat /\ now \in Int
    BY ClientsAreProcs, ConstantsTyped DEF AllPlaced, Shape
  <1>1. ASSUME \A i \in Jobs : SameJob(i) PROVE JobsKept'
    BY <1>1, JobFrame DEF JobsKept, Kept
  <1>2. ASSUME NEW j \in Jobs, RateRead(p, j) \/ DisputeRead(p, j) PROVE JobsKept'
    <2>0. UNCHANGED <<now, stage, completedAt, hold, holdUntil, rated, clawback, earned,
                      dispute, locked, deposited>>
      BY <1>2
      DEF RateRead, DisputeRead, moneyVars, holdVars, jobVars, ratingVars, disputeVars
    <2>1. \A i \in Jobs : SameJob(i)
      BY <1>0, <2>0 DEF SameJob
    <2> QED
      BY <1>1, <2>1
  <1>3. CASE RateRecord(p)
    <2>0. rated' = rated \/ rated' = [rated EXCEPT ![loc[p].job] = TRUE]
      BY <1>3 DEF RateRecord
    <2>1. ASSUME NEW i \in Jobs, rated[i] PROVE rated'[i]
      BY <2>0, <2>1, Zenon DEF Shape
    <2>2. \A i \in Jobs : SameJob(i)
      BY <1>0, <1>3, <2>1 DEF RateRecord, SameJob, moneyVars, holdVars, jobVars, disputeVars
    <2> QED
      BY <1>1, <2>2
  <1>4. ASSUME NEW pct \in CurvePct, RateClaw(p, pct) PROVE JobsKept'
    <2> DEFINE cents == compute_clawback_cents(pct)
    <2>0. PICK j \in Jobs : j = loc[p].job
      BY <1>0, <1>4 DEF RateClaw, Placed
    <2>1. j \in Jobs /\ j = loc[p].job /\ stage[j] = "settled" /\ rated[j]
      BY <1>0, <1>4, <2>0 DEF RateClaw, Placed
    <2>2. cents \in Nat /\ cents <= Payout
      BY <1>4, <2>1, ClawEffect
    <2>3. UNCHANGED <<now, stage, completedAt, rated, dispute, locked, deposited>>
      BY <1>4 DEF RateClaw, jobVars, disputeVars
    <2>4. CASE UNCHANGED <<moneyVars, holdVars, clawback>>
      <3>1. \A i \in Jobs : SameJob(i)
        BY <1>0, <2>3, <2>4 DEF SameJob, moneyVars, holdVars
      <3> QED
        BY <1>1, <3>1
    <2>5. CASE /\ clawback' = [clawback EXCEPT ![j] = "underflow"]
               /\ clawback[j] # "applied"
               /\ UNCHANGED <<moneyVars, holdVars>>
      <3>1. clawback'[j] = "underflow" /\ \A i \in Jobs : i # j => clawback'[i] = clawback[i]
        BY <2>1, <2>5 DEF Shape
      <3>2. UNCHANGED <<earned, hold, holdUntil>>
        BY <2>5 DEF moneyVars, holdVars
      <3>3. Locked(j) /\ Earned(j) /\ Held(j)
        BY <2>1 DEF JobsKept
      <3>4. Locked(j)'
        BY <2>3, <3>3 DEF Locked, Completed
      <3>5. Earned(j)'
        BY <2>1, <2>3, <2>5, <3>1, <3>2, <3>3 DEF Earned
      <3>6. Held(j)'
        BY <2>3, <3>1, <3>2, <3>3 DEF Held, Completed
      <3>7. Kept(j)' /\ \A i \in Jobs : i # j => SameJob(i)
        BY <1>0, <2>3, <3>1, <3>2, <3>4, <3>5, <3>6 DEF Kept, SameJob
      <3> QED
        BY <2>1, <3>7, KeptByOne
    <2>6. CASE /\ clawback[j] # "applied"
               /\ consume_hold(j, cents)
               /\ earned' = [earned EXCEPT ![j] = @ - cents]
               /\ clawback' = [clawback EXCEPT ![j] = "applied"]
      <3>1. /\ clawback'[j] = "applied" /\ earned'[j] = earned[j] - cents
            /\ earned[j] \in Int
            /\ \A i \in Jobs : i # j => clawback'[i] = clawback[i] /\ earned'[i] = earned[i]
        BY <2>1, <2>6 DEF Shape
      <3>2. /\ holdUntil' = holdUntil
            /\ \A i \in Jobs : i # j => hold'[i] = hold[i]
            /\ hold[j] # "active" => hold' = hold
            /\ hold[j] = "active" => hold'[j] \in {"clawed_partial", "clawed_full"}
        BY <2>1, <2>2, <2>6, ConsumeTyped
      <3>3. Locked(j) /\ Earned(j) /\ Held(j)
        BY <2>1 DEF JobsKept
      <3>4. Locked(j)'
        BY <2>3, <3>3 DEF Locked, Completed
      <3> HIDE DEF cents
      <3>5. Earned(j)'
        BY <1>0, <2>1, <2>2, <2>3, <2>6, <3>1, <3>3 DEF Earned
      <3>6. Held(j)'
        BY <2>1, <2>3, <3>2, <3>3 DEF Held, Completed
      <3>7. Kept(j)' /\ \A i \in Jobs : i # j => SameJob(i)
        BY <1>0, <2>3, <3>1, <3>2, <3>4, <3>5, <3>6 DEF Kept, SameJob
      <3> QED
        BY <2>1, <3>7, KeptByOne
    <2> QED
      BY <1>4, <2>1, <2>4, <2>5, <2>6, ClawEffect
  <1>5. ASSUME NEW side \in Sides, DisputeFile(p, side) PROVE JobsKept'
    <2>0. PICK j \in Jobs : j = loc[p].job
      BY <1>0, <1>5 DEF DisputeFile, Placed
    <2>1. j \in Jobs /\ j = loc[p].job /\ Completed(j)
      BY <1>0, <1>5, <2>0 DEF DisputeFile, Placed
    <2>2. UNCHANGED <<now, stage, completedAt, rated, clawback>>
      BY <1>5 DEF DisputeFile, jobVars, ratingVars
    <2>3. CASE UNCHANGED <<moneyVars, holdVars, disputeVars>>
      <3>1. \A i \in Jobs : SameJob(i)
        BY <1>0, <2>2, <2>3 DEF SameJob, moneyVars, holdVars, disputeVars
      <3> QED
        BY <1>1, <3>1
    <2>4. CASE ~UNCHANGED <<moneyVars, holdVars, disputeVars>>
      <3> DEFINE lock == IF stage[j] = "settled" THEN Charge ELSE 0
      <3>1. /\ dispute[j] = "none" /\ dispute' = [dispute EXCEPT ![j] = side]
            /\ deposited' = [deposited EXCEPT ![j] = FilingDeposit]
            /\ locked' = [locked EXCEPT ![j] = lock]
        BY <1>5, <2>1, <2>4, FileEffect DEF Files
      <3>2. /\ dispute'[j] = side /\ deposited'[j] = FilingDeposit /\ locked'[j] = lock
            /\ \A i \in Jobs : i # j => /\ dispute'[i] = dispute[i] /\ locked'[i] = locked[i]
                                        /\ deposited'[i] = deposited[i]
        BY <2>1, <3>1 DEF Shape
      <3>3. Locked(j) /\ Earned(j) /\ Held(j) /\ earned[j] \in Int
        BY <2>1, JobTyped DEF JobsKept
      <3>4. side # "none" /\ side # "closed" /\ stage[j] # "voided"
        BY <3>1, <3>3 DEF Sides, Locked
      <3>5. Locked(j)'
        BY <2>1, <2>2, <3>2, <3>4 DEF Locked, Completed
      <3>6. CASE stage[j] = "settled"
        <4>1. consume_hold(j, Payout) /\ earned' = [earned EXCEPT ![j] = @ - Payout]
          BY <1>5, <2>1, <2>4, <3>6, FileEffect
        <4>2. /\ earned'[j] = earned[j] - Payout
              /\ \A i \in Jobs : i # j => earned'[i] = earned[i]
          BY <2>1, <4>1 DEF Shape
        <4>3. /\ holdUntil' = holdUntil
              /\ \A i \in Jobs : i # j => hold'[i] = hold[i]
              /\ hold[j] # "active" => hold' = hold
              /\ hold[j] = "active" => hold'[j] \in {"clawed_partial", "clawed_full"}
          BY <1>0, <2>1, <4>1, ConsumeTyped
        <4>4. Earned(j)'
          BY <1>0, <2>2, <3>1, <3>2, <3>3, <3>4, <3>6, <4>2 DEF Earned
        <4>5. Held(j)'
          BY <2>2, <3>2, <3>3, <3>4, <3>6, <4>3 DEF Held, Completed
        <4>6. Kept(j)' /\ \A i \in Jobs : i # j => SameJob(i)
          BY <1>0, <2>2, <3>2, <3>5, <4>2, <4>3, <4>4, <4>5 DEF Kept, SameJob
        <4> QED
          BY <2>1, <4>6, KeptByOne
      <3>7. CASE stage[j] # "settled"
        <4>1. UNCHANGED <<hold, holdUntil, earned>>
          BY <1>5, <2>1, <2>4, <3>7, FileEffect DEF holdVars
        <4>2. Earned(j)'
          BY <2>2, <3>3, <3>7, <4>1 DEF Earned
        <4>3. Held(j)'
          BY <2>2, <3>3, <3>7, <4>1 DEF Held, Completed
        <4>4. Kept(j)' /\ \A i \in Jobs : i # j => SameJob(i)
          BY <1>0, <2>2, <3>2, <3>5, <4>1, <4>2, <4>3 DEF Kept, SameJob
        <4> QED
          BY <2>1, <4>4, KeptByOne
      <3> QED
        BY <3>6, <3>7
    <2> QED
      BY <2>3, <2>4
  <1> QED
    BY <1>2, <1>3, <1>4, <1>5

LEMMA JobsKeptStep ==
    ASSUME Shape, AllPlaced, JobsKept, Next
    PROVE  JobsKept'
  <1>0. Shape' /\ now \in Int
    BY ShapeStep DEF Shape
  <1>1. ASSUME \/ Tick
               \/ set_wallet_session_budget
               \/ \E a \in Amounts : sweep_to_parent(a)
               \/ \E p \in Withdrawals :
                     \/ \E a \in Amounts : WithdrawRead(p, a)
                     \/ WithdrawDebit(p)
                     \/ WithdrawTransfer(p)
        PROVE  JobsKept'
    <2>0. now' = now + 1 \/ now' = now
      BY <1>1 DEF Tick, set_wallet_session_budget, sweep_to_parent, WithdrawRead,
                  WithdrawDebit, WithdrawTransfer
    <2>1. now' >= now
      BY <1>0, <2>0
    <2>2. UNCHANGED <<stage, completedAt, hold, holdUntil, rated, clawback, earned,
                      dispute, locked, deposited>>
      BY <1>1 DEF Tick, set_wallet_session_budget, sweep_to_parent, WithdrawRead,
                  WithdrawDebit, WithdrawTransfer, moneyVars, holdVars, jobVars, ratingVars,
                  disputeVars
    <2>3. \A i \in Jobs : SameJob(i)
      BY <2>1, <2>2 DEF SameJob
    <2> QED
      BY <1>0, <2>3, JobFrame DEF JobsKept, Kept
  <1> QED
    BY <1>0, <1>1, KeptOfJob, KeptOfClient DEF Next

-----------------------------------------------------------------------------
(* held_cents. *)

HoldsOf(w) == {j \in Active : Payee[j] = w}

LEMMA HoldsFinite ==
    ASSUME NEW w
    PROVE  IsFiniteSet(HoldsOf(w)) /\ Cardinality(HoldsOf(w)) \in Nat
  <1>1. HoldsOf(w) \subseteq Jobs
    BY DEF HoldsOf, Active
  <1> QED
    BY <1>1, ConstantsTyped, FS_Subset, FS_CardinalityType

\* A hold begins or ends with its cents.
LEMMA HoldMoves ==
    ASSUME Shape, HeldMatchesHolds, NEW j \in Jobs, NEW d \in {-1, 1},
           \A i \in Jobs : i # j => hold'[i] = hold[i],
           d = 1 => hold[j] # "active" /\ hold'[j] = "active",
           d = -1 => hold[j] = "active" /\ hold'[j] # "active",
           held' = [held EXCEPT ![Payee[j]] = @ + d * compute_hold_cents]
    PROVE  HeldMatchesHolds'
  <1> DEFINE c == compute_hold_cents
  <1>0. c \in Nat /\ held \in [Names -> Int] /\ Payee[j] \in Names
    BY HoldCents, SidesTyped DEF Shape
  <1>1. \A w \in Names : held[w] = Cardinality(HoldsOf(w)) * c
    BY DEF HeldMatchesHolds, HoldsOf
  <1> SUFFICES ASSUME NEW w \in Names PROVE held'[w] = Cardinality(HoldsOf(w)') * c
    BY DEF HeldMatchesHolds, HoldsOf
  <1>2. IsFiniteSet(HoldsOf(w)) /\ Cardinality(HoldsOf(w)) \in Nat
    BY HoldsFinite
  <1>3. CASE w # Payee[j]
    <2>1. HoldsOf(w)' = HoldsOf(w)
      BY <1>3 DEF HoldsOf, Active
    <2>2. held'[w] = held[w]
      BY <1>0, <1>3
    <2> QED
      BY <1>1, <2>1, <2>2
  <1>4. CASE w = Payee[j] /\ d = 1
    <2>1. j \notin HoldsOf(w) /\ HoldsOf(w)' = HoldsOf(w) \cup {j}
      BY <1>4 DEF HoldsOf, Active
    <2>2. Cardinality(HoldsOf(w)') = Cardinality(HoldsOf(w)) + 1
      BY <1>2, <2>1, FS_AddElement
    <2>3. held'[w] = held[w] + d * c
      BY <1>0, <1>4
    <2> DEFINE n == Cardinality(HoldsOf(w))  m == Cardinality(HoldsOf(w)')
    <2>4. n \in Nat /\ m = n + 1 /\ held[w] = n * c /\ held'[w] = held[w] + d * c
      BY <1>1, <1>2, <2>2, <2>3
    <2> HIDE DEF n, m, c
    <2>5. held'[w] = m * c
      BY <1>0, <1>4, <2>4
    <2> QED
      BY <2>5 DEF m
  <1>5. CASE w = Payee[j] /\ d = -1
    <2>1. j \in HoldsOf(w) /\ HoldsOf(w)' = HoldsOf(w) \ {j}
      BY <1>5 DEF HoldsOf, Active
    <2>2. Cardinality(HoldsOf(w)') = Cardinality(HoldsOf(w)) - 1
      BY <1>2, <2>1, FS_RemoveElement
    <2>3. held'[w] = held[w] + d * c
      BY <1>0, <1>5
    <2> DEFINE n == Cardinality(HoldsOf(w))  m == Cardinality(HoldsOf(w)')
    <2>4. n \in Nat /\ m = n - 1 /\ held[w] = n * c /\ held'[w] = held[w] + d * c
      BY <1>1, <1>2, <2>2, <2>3
    <2> HIDE DEF n, m, c
    <2>5. held'[w] = m * c
      BY <1>0, <1>5, <2>4
    <2> QED
      BY <2>5 DEF m
  <1> QED
    BY <1>3, <1>4, <1>5

LEMMA HeldConsumed ==
    ASSUME Shape, HeldMatchesHolds, NEW j \in Jobs, NEW cents \in Int, consume_hold(j, cents)
    PROVE  HeldMatchesHolds'
  <1>1. CASE hold[j] # "active"
    <2>1. UNCHANGED <<hold, held>>
      BY <1>1, ConsumeTyped
    <2> QED
      BY <2>1 DEF HeldMatchesHolds, Active
  <1>2. CASE hold[j] = "active"
    <2>1. /\ hold'[j] # "active" /\ \A i \in Jobs : i # j => hold'[i] = hold[i]
          /\ held' = [held EXCEPT ![Payee[j]] = @ - compute_hold_cents]
      BY <1>2, ConsumeTyped
    <2>2. held' = [held EXCEPT ![Payee[j]] = @ + (-1) * compute_hold_cents]
      <3> DEFINE c == compute_hold_cents  w == Payee[j]
      <3>1. c \in Nat /\ held \in [Names -> Int] /\ w \in Names
        BY HoldCents, SidesTyped DEF Shape
      <3> HIDE DEF c, w
      <3>2. held[w] - c = held[w] + (-1) * c
        BY <3>1
      <3>3. [held EXCEPT ![w] = @ - c] = [held EXCEPT ![w] = @ + (-1) * c]
        BY <3>2
      <3> QED
        BY <2>1, <3>3 DEF c, w
    <2>3. -1 \in {-1, 1} /\ -1 # 1
      OBVIOUS
    <2> QED
      BY <1>2, <2>1, <2>2, <2>3, HoldMoves
  <1> QED
    BY <1>1, <1>2

LEMMA HeldStep ==
    ASSUME Shape, AllPlaced, JobsKept, HeldMatchesHolds, Next
    PROVE  HeldMatchesHolds'
  <1>0. ASSUME UNCHANGED <<hold, held>> PROVE HeldMatchesHolds'
    BY <1>0 DEF HeldMatchesHolds, Active
  <1>1. ASSUME NEW j \in Jobs, post_call_payout(j) PROVE HeldMatchesHolds'
    <2>1. /\ IF j \in Unheld THEN UNCHANGED holdVars ELSE create_hold(j)
          /\ stage[j] = "complete"
      BY <1>1 DEF post_call_payout
    <2>2. hold[j] = "none"
      BY <2>1 DEF JobsKept, Held
    <2>3. CASE Keepless(j)
      BY <1>0, <2>1, <2>3, CreateTyped
    <2>4. CASE ~Keepless(j)
      <3>1. /\ \A i \in Jobs : i # j => hold'[i] = hold[i]
            /\ hold'[j] = "active"
            /\ held' = [held EXCEPT ![Payee[j]] = @ + compute_hold_cents]
        BY <2>1, <2>4, CreateTyped
      <3>2. held' = [held EXCEPT ![Payee[j]] = @ + 1 * compute_hold_cents]
        <4>1. 1 * compute_hold_cents = compute_hold_cents
          BY HoldCents
        <4> QED
          BY <3>1, <4>1
      <3>3. 1 \in {-1, 1} /\ 1 # -1
        OBVIOUS
      <3> QED
        BY <2>2, <3>1, <3>2, <3>3, HoldMoves
    <2> QED
      BY <2>3, <2>4
  <1>2. ASSUME NEW j \in Jobs, release_expired_hold(j) PROVE HeldMatchesHolds'
    <2>1. /\ hold[j] = "active" /\ hold' = [hold EXCEPT ![j] = "released"]
          /\ held' = [held EXCEPT ![Payee[j]] = @ - compute_hold_cents]
      BY <1>2 DEF release_expired_hold
    <2>2. hold'[j] # "active" /\ \A i \in Jobs : i # j => hold'[i] = hold[i]
      BY <2>1 DEF Shape
    <2>3. held' = [held EXCEPT ![Payee[j]] = @ + (-1) * compute_hold_cents]
      <3> DEFINE c == compute_hold_cents  w == Payee[j]
      <3>1. c \in Nat /\ held \in [Names -> Int] /\ w \in Names
        BY HoldCents, SidesTyped DEF Shape
      <3> HIDE DEF c, w
      <3>2. held[w] - c = held[w] + (-1) * c
        BY <3>1
      <3>3. [held EXCEPT ![w] = @ - c] = [held EXCEPT ![w] = @ + (-1) * c]
        BY <3>2
      <3> QED
        BY <2>1, <3>3 DEF c, w
    <2>4. -1 \in {-1, 1} /\ -1 # 1
      OBVIOUS
    <2> QED
      BY <2>1, <2>2, <2>3, <2>4, HoldMoves
  <1>3. ASSUME NEW p \in Clients, NEW pct \in CurvePct, RateClaw(p, pct)
        PROVE  HeldMatchesHolds'
    <2>1. PICK j \in Jobs : j = loc[p].job
      BY <1>3, ClientsAreProcs DEF RateClaw, AllPlaced, Placed
    <2>2. compute_clawback_cents(pct) \in Int
      BY ClawbackCents
    <2>3. UNCHANGED holdVars \/ consume_hold(j, compute_clawback_cents(pct))
      BY <1>3, <2>1, ClawEffect
    <2> QED
      BY <1>0, <2>1, <2>2, <2>3, HeldConsumed DEF holdVars
  <1>4. ASSUME NEW p \in Clients, NEW side \in Sides, DisputeFile(p, side)
        PROVE  HeldMatchesHolds'
    <2>1. PICK j \in Jobs : j = loc[p].job
      BY <1>4, ClientsAreProcs DEF DisputeFile, AllPlaced, Placed
    <2>2. Payout \in Int
      BY ConstantsTyped
    <2>3. UNCHANGED holdVars \/ consume_hold(j, Payout)
      BY <1>4, <2>1, FileEffect
    <2> QED
      BY <1>0, <2>1, <2>2, <2>3, HeldConsumed DEF holdVars
  <1> QED
    BY <1>0, <1>1, <1>2, <1>3, <1>4
    DEF Next, Tick, set_wallet_session_budget, pre_call_charge, post_call_refund, complete_job,
        post_dispute_settlement, RateRead, DisputeRead, RateRecord, sweep_to_parent,
        WithdrawRead, WithdrawDebit, WithdrawTransfer, holdVars

-----------------------------------------------------------------------------
(* Every cent is somewhere. *)

Stake(j) == Undistributed(j) + locked[j] + deposited[j]

BalanceTotal == SumFunction(balance)
StakeTotal == SumFunction([j \in Jobs |-> Stake(j)])
TransferTotal == SumFunction([p \in Withdrawals |-> InTransfer(p)])

Ordered == {j \in Jobs : stage[j] # "unordered"}

LEMMA TotalsTyped ==
    ASSUME Shape
    PROVE  /\ BalanceTotal = balance["caller"] + balance["agent"] + balance["owner"]
                             + balance["other"] + balance["platform"]
           /\ BalanceTotal \in Int /\ StakeTotal \in Int /\ TransferTotal \in Int
           /\ \A j \in Jobs : Stake(j) \in Int
           /\ \A p \in Withdrawals : InTransfer(p) \in Int
  <1>1. \A j \in Jobs : Stake(j) \in Int
    BY ConstantsTyped DEF Stake, Undistributed, Shape
  <1>2. \A p \in Withdrawals : InTransfer(p) \in Int
    BY ProcTyped, ClientsAreProcs DEF InTransfer
  <1>3. StakeTotal \in Int
    <2> DEFINE f == [j \in Jobs |-> Stake(j)]
    <2>1. DOMAIN f = Jobs /\ (\A j \in Jobs : f[j] \in Int) /\ IsFiniteSet(Jobs)
      BY <1>1, ConstantsTyped
    <2> HIDE DEF f
    <2>2. SumFunction(f) \in Int
      BY <2>1, SumTyped DEF SumFunction
    <2> QED
      BY <2>2 DEF f, StakeTotal
  <1>4. TransferTotal \in Int
    <2> DEFINE f == [p \in Withdrawals |-> InTransfer(p)]
    <2>1. DOMAIN f = Withdrawals /\ (\A p \in Withdrawals : f[p] \in Int)
          /\ IsFiniteSet(Withdrawals)
      BY <1>2, ConstantsTyped
    <2> HIDE DEF f
    <2>2. SumFunction(f) \in Int
      BY <2>1, SumTyped DEF SumFunction
    <2> QED
      BY <2>2 DEF f, TransferTotal
  <1>5. balance \in [Names -> Int]
    BY DEF Shape
  <1>6. BalanceTotal = balance["caller"] + balance["agent"] + balance["owner"]
                       + balance["other"] + balance["platform"]
    BY <1>5, BalanceSum DEF BalanceTotal
  <1>7. BalanceTotal \in Int
    BY <1>5, <1>6 DEF Names
  <1> QED
    BY <1>1, <1>2, <1>3, <1>4, <1>6, <1>7

LEMMA StakeMoves ==
    ASSUME Shape, Shape', NEW j \in Jobs, \A i \in Jobs : i # j => Stake(i)' = Stake(i)
    PROVE  StakeTotal' = StakeTotal + Stake(j)' - Stake(j)
  <1> DEFINE f == [i \in Jobs |-> Stake(i)]  g == [i \in Jobs |-> Stake(i)']
  <1>1. (\A i \in Jobs : Stake(i) \in Int) /\ (\A i \in Jobs : Stake(i)' \in Int)
    <2>1. \A i \in Jobs : Stake(i) \in Int
      BY TotalsTyped
    <2>2. \A i \in Jobs : Stake(i)' \in Int
      BY ConstantsTyped DEF Stake, Undistributed, Shape
    <2> QED
      BY <2>1, <2>2
  <1>2. /\ DOMAIN f = Jobs /\ DOMAIN g = Jobs /\ IsFiniteSet(Jobs)
        /\ \A i \in Jobs : f[i] \in Int /\ g[i] \in Int
        /\ \A i \in Jobs : i # j => g[i] = f[i]
        /\ f[j] = Stake(j) /\ g[j] = Stake(j)'
    BY <1>1, ConstantsTyped
  <1>3. StakeTotal = SumFunction(f) /\ StakeTotal' = SumFunction(g)
    BY DEF StakeTotal
  <1> HIDE DEF f, g
  <1>4. SumFunction(g) = SumFunction(f) + g[j] - f[j]
    BY <1>2, SumChange
  <1> QED
    BY <1>2, <1>3, <1>4

LEMMA TransferMoves ==
    ASSUME Shape, Shape', NEW p \in Withdrawals,
           \A q \in Withdrawals : q # p => InTransfer(q)' = InTransfer(q)
    PROVE  TransferTotal' = TransferTotal + InTransfer(p)' - InTransfer(p)
  <1> DEFINE f == [q \in Withdrawals |-> InTransfer(q)]
             g == [q \in Withdrawals |-> InTransfer(q)']
  <1>1. \A q \in Withdrawals : InTransfer(q) \in Int
    BY TotalsTyped
  <1>2. \A q \in Withdrawals : InTransfer(q)' \in Int
    <2>1. loc' \in [Procs -> Locals]
      BY DEF Shape
    <2> QED
      BY <2>1, ClientsAreProcs DEF InTransfer, Locals
  <1>3. /\ DOMAIN f = Withdrawals /\ DOMAIN g = Withdrawals /\ IsFiniteSet(Withdrawals)
        /\ \A q \in Withdrawals : f[q] \in Int /\ g[q] \in Int
        /\ \A q \in Withdrawals : q # p => g[q] = f[q]
        /\ f[p] = InTransfer(p) /\ g[p] = InTransfer(p)'
    BY <1>1, <1>2, ConstantsTyped
  <1>4. TransferTotal = SumFunction(f) /\ TransferTotal' = SumFunction(g)
    BY DEF TransferTotal
  <1> HIDE DEF f, g
  <1>5. SumFunction(g) = SumFunction(f) + g[p] - f[p]
    BY <1>3, SumChange
  <1> QED
    BY <1>3, <1>4, <1>5

\* A step that moves no transfer, and one that moves no stake.
LEMMA TransfersStay ==
    ASSUME Shape, \A q \in Withdrawals : InTransfer(q)' = InTransfer(q)
    PROVE  TransferTotal' = TransferTotal
  <1>1. [q \in Withdrawals |-> InTransfer(q)]' = [q \in Withdrawals |-> InTransfer(q)]
    OBVIOUS
  <1> QED
    BY <1>1 DEF TransferTotal

LEMMA StakesStay ==
    ASSUME Shape, \A j \in Jobs : Stake(j)' = Stake(j)
    PROVE  StakeTotal' = StakeTotal
  <1>1. [j \in Jobs |-> Stake(j)]' = [j \in Jobs |-> Stake(j)]
    OBVIOUS
  <1> QED
    BY <1>1 DEF StakeTotal

LEMMA WithdrawnTyped ==
    ASSUME Shape
    PROVE  Withdrawn \in Int /\ (sent' = sent => Withdrawn' = Withdrawn)
  BY DEF Withdrawn, Shape, Sent

LEMMA CentsMove ==
    ASSUME CentsConserved, Ordered' = Ordered,
           BalanceTotal' + Withdrawn' + StakeTotal' + TransferTotal'
             = BalanceTotal + Withdrawn + StakeTotal + TransferTotal
    PROVE  CentsConserved'
  <1>1. BalanceTotal + Withdrawn + StakeTotal + TransferTotal = SumFunction(Funds[Ordered])
    BY DEF CentsConserved, BalanceTotal, StakeTotal, TransferTotal, Stake, Ordered
  <1>2. BalanceTotal' + Withdrawn' + StakeTotal' + TransferTotal' = SumFunction(Funds[Ordered'])
    BY <1>1
  <1> QED
    BY <1>2 DEF CentsConserved, BalanceTotal, StakeTotal, TransferTotal, Stake, Ordered

\* The balances after a step add up too.
LEMMA BalanceNext ==
    ASSUME Shape, Shape'
    PROVE  /\ BalanceTotal' = balance'["caller"] + balance'["agent"] + balance'["owner"]
                              + balance'["other"] + balance'["platform"]
           /\ \A n \in Names : balance[n] \in Int /\ balance'[n] \in Int
  <1>1. balance' \in [Names -> Int] /\ balance \in [Names -> Int]
    BY DEF Shape
  <1> QED
    BY <1>1, BalanceSum DEF BalanceTotal

\* What wallet n gets of v cents that go to wallet x.
Part(n, x, v) == IF n = x THEN v ELSE 0

PartsAddUp(x, v) ==
    /\ \A n \in Names : Part(n, x, v) \in Int
    /\ Part("caller", x, v) + Part("agent", x, v) + Part("owner", x, v) + Part("other", x, v)
         + Part("platform", x, v) = v

LEMMA PartsSum ==
    ASSUME NEW x \in Names, NEW v \in Int
    PROVE  PartsAddUp(x, v)
  BY DEF PartsAddUp, Part, Names

LEMMA CentsOfJob ==
    ASSUME Shape, Shape', JobsKept, CentsConserved, Ordered' = Ordered, NEW j \in Jobs,
           \/ \E k \in Keys : pre_call_charge(j, k)
           \/ post_call_refund(j)
           \/ complete_job(j)
           \/ post_call_payout(j)
           \/ release_expired_hold(j)
           \/ \E o \in Outcomes : post_dispute_settlement(j, o)
    PROVE  CentsConserved'
  <1>0. /\ Payer[j] \in {"caller", "agent"} /\ Payee[j] \in {"agent", "other"}
        /\ Payer[j] # Payee[j]
        /\ Charge \in Nat /\ Payout \in Nat /\ Fee \in Nat /\ Charge = Payout + Fee
        /\ FilingDeposit \in Nat /\ Charge > 0
        /\ Withdrawn \in Int /\ Locked(j)
        /\ stage[j] \in Stages /\ locked[j] \in Int /\ deposited[j] \in Int
    BY SidesTyped, ConstantsTyped, WithdrawnTyped DEF JobsKept, Shape
  <1>1. /\ BalanceTotal = balance["caller"] + balance["agent"] + balance["owner"]
                          + balance["other"] + balance["platform"]
        /\ BalanceTotal' = balance'["caller"] + balance'["agent"] + balance'["owner"]
                           + balance'["other"] + balance'["platform"]
        /\ \A n \in {"caller", "agent", "owner", "other", "platform"} :
              balance[n] \in Int /\ balance'[n] \in Int
        /\ BalanceTotal \in Int /\ StakeTotal \in Int /\ TransferTotal \in Int
        /\ Stake(j) \in Int
    BY TotalsTyped, BalanceNext DEF Names
  <1>2. UNCHANGED <<sent, pc, loc>> /\ Withdrawn' = Withdrawn
    BY WithdrawnTyped
    DEF pre_call_charge, post_call_refund, complete_job, post_call_payout,
        release_expired_hold, post_dispute_settlement
  <1>3. TransferTotal' = TransferTotal
    BY <1>2, TransfersStay DEF InTransfer
  <1>4. ASSUME \A i \in Jobs : i # j => /\ stage'[i] = stage[i] /\ locked'[i] = locked[i]
                                        /\ deposited'[i] = deposited[i]
        PROVE  StakeTotal' = StakeTotal + Stake(j)' - Stake(j)
    BY <1>4, StakeMoves DEF Stake, Undistributed
  <1>5. SUFFICES BalanceTotal' + StakeTotal' = BalanceTotal + StakeTotal
    <2>1. BalanceTotal' \in Int
      BY <1>1
    <2>2. StakeTotal' \in Int
      <3> DEFINE f == [i \in Jobs |-> Stake(i)']
      <3>1. DOMAIN f = Jobs /\ (\A i \in Jobs : f[i] \in Int) /\ IsFiniteSet(Jobs)
        BY ConstantsTyped DEF Stake, Undistributed, Shape
      <3> HIDE DEF f
      <3>2. SumFunction(f) \in Int
        BY <3>1, SumTyped DEF SumFunction
      <3> QED
        BY <3>2 DEF f, StakeTotal
    <2> HIDE DEF BalanceTotal, StakeTotal
    <2>3. BalanceTotal' + Withdrawn' + StakeTotal' + TransferTotal'
            = BalanceTotal + Withdrawn + StakeTotal + TransferTotal
      BY <1>0, <1>1, <1>2, <1>3, <1>5, <2>1, <2>2
    <2> QED
      BY <2>3, CentsMove
  <1>6. ASSUME NEW k \in Keys, pre_call_charge(j, k)
        PROVE  BalanceTotal' + StakeTotal' = BalanceTotal + StakeTotal
    <2>1. PICK top \in Nat :
              /\ balance'[Payer[j]] = balance[Payer[j]] + top - Charge
              /\ balance'["owner"] = balance["owner"] - top
              /\ \A n \in Names : n \notin {Payer[j], "owner"} => balance'[n] = balance[n]
      BY <1>6, ChargeMoney
    <2>2. BalanceTotal' = BalanceTotal - Charge
      <3>1. CASE Payer[j] = "caller"
        <4>1. /\ balance'["caller"] = balance["caller"] + top - Charge
              /\ balance'["owner"] = balance["owner"] - top
              /\ balance'["agent"] = balance["agent"] /\ balance'["other"] = balance["other"]
              /\ balance'["platform"] = balance["platform"]
          BY <2>1, <3>1 DEF Names
        <4>2. Charge \in Int /\ top \in Int
          BY <1>0
        <4> QED
          BY <1>1, <4>1, <4>2
      <3>2. CASE Payer[j] = "agent"
        <4>1. /\ balance'["agent"] = balance["agent"] + top - Charge
              /\ balance'["owner"] = balance["owner"] - top
              /\ balance'["caller"] = balance["caller"] /\ balance'["other"] = balance["other"]
              /\ balance'["platform"] = balance["platform"]
          BY <2>1, <3>2 DEF Names
        <4> QED
          BY <1>0, <1>1, <4>1
      <3> QED
        BY <1>0, <3>1, <3>2
    <2>3. /\ stage[j] = "none" /\ stage'[j] = "charged"
          /\ \A i \in Jobs : i # j => stage'[i] = stage[i]
          /\ UNCHANGED <<locked, deposited>>
      BY <1>6 DEF pre_call_charge, Shape, disputeVars
    <2>4. Stake(j)' = Stake(j) + Charge
      BY <1>0, <2>3 DEF Stake, Undistributed
    <2>5. StakeTotal' = StakeTotal + Stake(j)' - Stake(j)
      BY <1>4, <2>3
    <2> QED
      BY <1>0, <1>1, <2>2, <2>4, <2>5
  <1>7. ASSUME post_call_refund(j)
        PROVE  BalanceTotal' + StakeTotal' = BalanceTotal + StakeTotal
    <2>1. /\ balance'[Payer[j]] = balance[Payer[j]] + Charge
          /\ \A n \in Names : n # Payer[j] => balance'[n] = balance[n]
      <3>1. balance' = [balance EXCEPT ![Payer[j]] = @ + Charge] /\ DOMAIN balance = Names
        BY <1>7 DEF post_call_refund, Shape
      <3> QED
        BY <1>0, <3>1 DEF Names
    <2>2. BalanceTotal' = BalanceTotal + Charge
      BY <1>0, <1>1, <2>1 DEF Names
    <2>3. /\ stage[j] = "charged" /\ stage'[j] = "refunded"
          /\ \A i \in Jobs : i # j => stage'[i] = stage[i]
          /\ UNCHANGED <<locked, deposited>>
      BY <1>7 DEF post_call_refund, Shape, disputeVars
    <2>4. Stake(j)' = Stake(j) - Charge
      BY <1>0, <2>3 DEF Stake, Undistributed
    <2>5. StakeTotal' = StakeTotal + Stake(j)' - Stake(j)
      BY <1>4, <2>3
    <2> QED
      BY <1>0, <1>1, <2>2, <2>4, <2>5
  <1>8. ASSUME complete_job(j)
        PROVE  BalanceTotal' + StakeTotal' = BalanceTotal + StakeTotal
    <2>1. BalanceTotal' = BalanceTotal
      BY <1>8 DEF complete_job, moneyVars, BalanceTotal
    <2>2. /\ stage[j] = "charged" /\ stage'[j] = "complete"
          /\ \A i \in Jobs : i # j => stage'[i] = stage[i]
          /\ UNCHANGED <<locked, deposited>>
      BY <1>8 DEF complete_job, Shape, disputeVars
    <2>3. Stake(j)' = Stake(j)
      BY <1>0, <2>2 DEF Stake, Undistributed
    <2>4. StakeTotal' = StakeTotal + Stake(j)' - Stake(j)
      BY <1>4, <2>2
    <2> QED
      BY <1>1, <2>1, <2>3, <2>4
  <1>9. ASSUME post_call_payout(j)
        PROVE  BalanceTotal' + StakeTotal' = BalanceTotal + StakeTotal
    <2>1. /\ balance'[Payee[j]] = balance[Payee[j]] + Payout
          /\ balance'["platform"] = balance["platform"] + Fee
          /\ \A n \in Names : n \notin {Payee[j], "platform"} => balance'[n] = balance[n]
      BY <1>9, PayoutMoney
    <2>2. BalanceTotal' = BalanceTotal + Charge
      BY <1>0, <1>1, <2>1 DEF Names
    <2>3. /\ stage[j] = "complete" /\ stage'[j] = "settled"
          /\ \A i \in Jobs : i # j => stage'[i] = stage[i]
          /\ UNCHANGED <<locked, deposited>>
      BY <1>9 DEF post_call_payout, Shape, disputeVars
    <2>4. Stake(j)' = Stake(j) - Charge
      BY <1>0, <2>3 DEF Stake, Undistributed
    <2>5. StakeTotal' = StakeTotal + Stake(j)' - Stake(j)
      BY <1>4, <2>3
    <2> QED
      BY <1>0, <1>1, <2>2, <2>4, <2>5
  <1>10. ASSUME release_expired_hold(j)
         PROVE  BalanceTotal' + StakeTotal' = BalanceTotal + StakeTotal
    <2>1. BalanceTotal' = BalanceTotal
      BY <1>10 DEF release_expired_hold, moneyVars, BalanceTotal
    <2>2. UNCHANGED <<stage, locked, deposited>>
      BY <1>10 DEF release_expired_hold, jobVars, disputeVars
    <2>3. StakeTotal' = StakeTotal
      BY <2>2, StakesStay DEF Stake, Undistributed
    <2> QED
      BY <2>1, <2>3
  <1>11. ASSUME NEW o \in Outcomes, post_dispute_settlement(j, o)
         PROVE  BalanceTotal' + StakeTotal' = BalanceTotal + StakeTotal
    <2> DEFINE c == CallerShare(j, o)  h == Home(j, o)  d == deposited[j]
               wins == o = "agent_wins"
               next == IF o = "void" /\ locked[j] = 0 THEN "voided" ELSE "settled"
    <2>1. /\ h \in Names /\ h # Payee[j] /\ c \in Nat
          /\ balance' = [n \in Names |->
                 balance[n]
                 + (IF n = Payer[j] THEN c ELSE 0)
                 + (IF n = Payee[j] /\ wins THEN Payout ELSE 0)
                 + (IF n = "platform" /\ wins THEN Fee ELSE 0)
                 + (IF n = h THEN d ELSE 0)]
      BY <1>11, RulingMoney
    <2>2. o \in {"caller_wins", "agent_wins", "void"}
      BY WalletsAssumption
    <2>3. /\ dispute[j] \in Sides /\ locked'[j] = 0 /\ deposited'[j] = 0 /\ stage'[j] = next
          /\ \A i \in Jobs : i # j => /\ stage'[i] = stage[i] /\ locked'[i] = locked[i]
                                      /\ deposited'[i] = deposited[i]
      BY <1>11 DEF post_dispute_settlement, Shape
    <2>4. StakeTotal' = StakeTotal + Stake(j)' - Stake(j)
      BY <1>4, <2>3
    <2>5. /\ stage[j] \in {"complete", "settled"}
          /\ locked[j] = IF stage[j] = "settled" THEN Charge ELSE 0
      BY <1>0, <2>3 DEF Locked, Sides, Completed
    <2>6. /\ Stake(j) = Charge + d
          /\ Stake(j)' = IF next = "voided" THEN Charge ELSE 0
      BY <1>0, <2>3, <2>5 DEF Stake, Undistributed
    <2>7. c + (IF wins THEN Charge ELSE 0) = IF next = "voided" THEN 0 ELSE Charge
      BY <1>0, <2>2, <2>5 DEF CallerShare
    <2>8. d \in Int /\ next \in {"voided", "settled"} /\ wins \in BOOLEAN
      BY <1>0
    <2> HIDE DEF c, h, d, next, wins
    <2>9. BalanceTotal' = BalanceTotal + c + (IF wins THEN Charge ELSE 0) + d
      <3> DEFINE gain == IF wins THEN Payout ELSE 0  fee == IF wins THEN Fee ELSE 0
      <3>1. gain \in Int /\ fee \in Int /\ gain + fee = IF wins THEN Charge ELSE 0
        BY <1>0
      <3>2. ASSUME NEW n \in Names
            PROVE  balance'[n] = balance[n] + (IF n = Payer[j] THEN c ELSE 0)
                                 + (IF n = Payee[j] THEN gain ELSE 0)
                                 + (IF n = "platform" THEN fee ELSE 0)
                                 + (IF n = h THEN d ELSE 0)
        BY <2>1
      <3> HIDE DEF gain, fee
      <3>3. \A n \in Names : balance'[n] = balance[n] + Part(n, Payer[j], c)
                 + Part(n, Payee[j], gain) + Part(n, "platform", fee) + Part(n, h, d)
        BY <3>2 DEF Part
      <3>4. Payer[j] \in Names /\ Payee[j] \in Names /\ "platform" \in Names
        BY <1>0 DEF Names
      <3>5. /\ PartsAddUp(Payer[j], c) /\ PartsAddUp(Payee[j], gain)
            /\ PartsAddUp("platform", fee) /\ PartsAddUp(h, d)
        BY <2>1, <2>8, <3>1, <3>4, PartsSum
      <3> DEFINE Put(n) == Part(n, Payer[j], c) + Part(n, Payee[j], gain)
                           + Part(n, "platform", fee) + Part(n, h, d)
      <3>6. \A n \in {"caller", "agent", "owner", "other", "platform"} :
               /\ Part(n, Payer[j], c) \in Int /\ Part(n, Payee[j], gain) \in Int
               /\ Part(n, "platform", fee) \in Int /\ Part(n, h, d) \in Int
        BY <3>5 DEF PartsAddUp, Names
      <3>7. \A n \in {"caller", "agent", "owner", "other", "platform"} :
               Put(n) \in Int /\ balance'[n] = balance[n] + Put(n)
        BY <1>1, <3>3, <3>6 DEF Names
      <3>8. Put("caller") + Put("agent") + Put("owner") + Put("other") + Put("platform")
              = c + gain + fee + d
        BY <2>1, <2>8, <3>1, <3>5, <3>6 DEF PartsAddUp
      <3> HIDE DEF Put
      <3>9. BalanceTotal' = BalanceTotal + (Put("caller") + Put("agent") + Put("owner")
                                            + Put("other") + Put("platform"))
        BY <1>1, <3>7
      <3> QED
        BY <1>1, <2>1, <2>8, <3>1, <3>8, <3>9
    <2> QED
      BY <1>0, <1>1, <2>1, <2>4, <2>6, <2>7, <2>8, <2>9
  <1> QED
    BY <1>6, <1>7, <1>8, <1>9, <1>10, <1>11

\* A client's request is no transfer, wherever it is.
LEMMA ClientTransfers ==
    ASSUME Shape, NEW p \in Clients, Next,
           \/ \E j \in Jobs : RateRead(p, j) \/ DisputeRead(p, j)
           \/ RateRecord(p)
           \/ \E pct \in CurvePct : RateClaw(p, pct)
           \/ \E side \in Sides : DisputeFile(p, side)
    PROVE  TransferTotal' = TransferTotal
  <1>1. /\ pc[p] # "w_transfer"
        /\ \/ Finish(p) \/ Goto(p, "r_claw")
           \/ \E r : Begin(p, "r_record", r) \/ Begin(p, "d_file", r)
    BY DEF RateRead, DisputeRead, RateRecord, RateClaw, DisputeFile, Begin
  <1>2. /\ pc'[p] # "w_transfer"
        /\ \A q \in Procs : q # p => pc'[q] = pc[q] /\ loc'[q] = loc[q]
    BY <1>1, ProcMoves, ClientsAreProcs
  <1>3. \A q \in Withdrawals : InTransfer(q)' = InTransfer(q)
    BY <1>1, <1>2, ClientsAreProcs DEF InTransfer
  <1> QED
    BY <1>3, TransfersStay

LEMMA CentsOfClient ==
    ASSUME Shape, Shape', AllPlaced, JobsKept, CentsConserved, Ordered' = Ordered,
           NEW p \in Clients, Next,
           \/ \E j \in Jobs : RateRead(p, j) \/ DisputeRead(p, j)
           \/ RateRecord(p)
           \/ \E pct \in CurvePct : RateClaw(p, pct)
           \/ \E side \in Sides : DisputeFile(p, side)
    PROVE  CentsConserved'
  <1>0. Placed(p)
    BY ClientsAreProcs DEF AllPlaced
  <1>1. /\ BalanceTotal = balance["caller"] + balance["agent"] + balance["owner"]
                          + balance["other"] + balance["platform"]
        /\ BalanceTotal' = balance'["caller"] + balance'["agent"] + balance'["owner"]
                           + balance'["other"] + balance'["platform"]
        /\ \A n \in {"caller", "agent", "owner", "other", "platform"} :
              balance[n] \in Int /\ balance'[n] \in Int
        /\ BalanceTotal \in Int /\ StakeTotal \in Int /\ TransferTotal \in Int
        /\ BalanceTotal' \in Int
    BY TotalsTyped, BalanceNext DEF Names
  <1>2. TransferTotal' = TransferTotal
    BY ClientTransfers
  <1>3. Withdrawn' = Withdrawn /\ Withdrawn \in Int /\ UNCHANGED stage
    <2>1. sent' = sent /\ UNCHANGED stage
      BY DEF RateRead, DisputeRead, RateRecord, RateClaw, DisputeFile, jobVars
    <2> QED
      BY <2>1, WithdrawnTyped
  <1>4. ASSUME StakeTotal' \in Int, BalanceTotal' + StakeTotal' = BalanceTotal + StakeTotal
        PROVE  CentsConserved'
    <2>1. BalanceTotal' + Withdrawn' + StakeTotal' + TransferTotal'
            = BalanceTotal + Withdrawn + StakeTotal + TransferTotal
      BY <1>1, <1>2, <1>3, <1>4
    <2> QED
      BY <2>1, CentsMove
  <1>5. ASSUME UNCHANGED <<balance, locked, deposited>> PROVE CentsConserved'
    <2>1. StakeTotal' = StakeTotal
      BY <1>3, <1>5, StakesStay DEF Stake, Undistributed
    <2>2. BalanceTotal' = BalanceTotal
      BY <1>5 DEF BalanceTotal
    <2> QED
      BY <1>1, <1>4, <2>1, <2>2
  <1>6. ASSUME (\E j \in Jobs : RateRead(p, j) \/ DisputeRead(p, j)) \/ RateRecord(p)
        PROVE  CentsConserved'
    BY <1>5, <1>6 DEF RateRead, DisputeRead, RateRecord, moneyVars, disputeVars
  <1>7. ASSUME NEW pct \in CurvePct, RateClaw(p, pct) PROVE CentsConserved'
    <2> DEFINE cents == compute_clawback_cents(pct)
    <2>1. PICK j \in Jobs : j = loc[p].job
      BY <1>0, <1>7 DEF RateClaw, Placed
    <2>2. UNCHANGED <<locked, deposited>>
      BY <1>7 DEF RateClaw, disputeVars
    <2>3. CASE UNCHANGED moneyVars
      BY <1>5, <2>2, <2>3 DEF moneyVars
    <2>4. CASE balance[Payee[j]] >= cents /\ apply_curve_clawback(j, cents)
      <3>1. cents \in Nat
        BY ClawbackCents
      <3>2. /\ balance'[Payee[j]] = balance[Payee[j]] - cents
            /\ balance'[Payer[j]] = balance[Payer[j]] + cents
            /\ \A n \in Names : n \notin {Payee[j], Payer[j]} => balance'[n] = balance[n]
        BY <2>4, <3>1, ClawbackMoney
      <3>3. /\ Payer[j] \in {"caller", "agent"} /\ Payee[j] \in {"agent", "other"}
            /\ Payer[j] # Payee[j]
        BY SidesTyped
      <3> HIDE DEF cents
      <3>4. BalanceTotal' = BalanceTotal
        BY <1>1, <3>1, <3>2, <3>3 DEF Names
      <3>5. StakeTotal' = StakeTotal
        BY <1>3, <2>2, StakesStay DEF Stake, Undistributed
      <3> QED
        BY <1>1, <1>4, <3>4, <3>5
    <2> QED
      BY <1>7, <2>1, <2>3, <2>4, ClawEffect
  <1>8. ASSUME NEW side \in Sides, DisputeFile(p, side) PROVE CentsConserved'
    <2>1. PICK j \in Jobs : j = loc[p].job
      BY <1>0, <1>8 DEF DisputeFile, Placed
    <2>2. CASE UNCHANGED <<moneyVars, holdVars, disputeVars>>
      BY <1>5, <2>2 DEF moneyVars, disputeVars
    <2>3. CASE ~UNCHANGED <<moneyVars, holdVars, disputeVars>>
      <3> DEFINE lock == IF stage[j] = "settled" THEN Charge ELSE 0
                 pay == IF stage[j] = "settled" THEN Payout ELSE 0
                 fee == IF stage[j] = "settled" THEN Fee ELSE 0
                 f == Filer(j, side)
      <3>1. /\ Files(j, side) /\ dispute[j] = "none"
            /\ deposited' = [deposited EXCEPT ![j] = FilingDeposit]
            /\ locked' = [locked EXCEPT ![j] = lock]
            /\ balance' = [n \in Names |->
                        balance[n]
                        - (IF n = Filer(j, side) THEN FilingDeposit ELSE 0)
                        - (IF n = Payee[j] /\ stage[j] = "settled" THEN Payout ELSE 0)
                        - (IF n = "platform" /\ stage[j] = "settled" THEN Fee ELSE 0)]
        BY <1>8, <2>1, <2>3, FileEffect DEF Files
      <3>2. /\ locked[j] = 0 /\ deposited[j] = 0 /\ FilingDeposit \in Nat /\ Charge \in Nat
            /\ Payout \in Nat /\ Fee \in Nat /\ Charge = Payout + Fee
        BY <3>1, ConstantsTyped DEF JobsKept, Locked, Sides
      <3>3. /\ locked'[j] = lock /\ deposited'[j] = FilingDeposit
            /\ \A i \in Jobs : i # j => locked'[i] = locked[i] /\ deposited'[i] = deposited[i]
        BY <3>1 DEF Shape
      <3>4. StakeTotal' = StakeTotal + Stake(j)' - Stake(j)
        BY <1>3, <3>3, StakeMoves DEF Stake, Undistributed
      <3>5. lock \in Nat /\ pay \in Nat /\ fee \in Nat /\ lock = pay + fee
        BY <3>2
      <3> HIDE DEF lock
      <3>6. Stake(j)' = Stake(j) + lock + FilingDeposit /\ Stake(j) \in Int
        BY <1>3, <3>2, <3>3, <3>5 DEF Stake, Undistributed
      <3>7. /\ balance'[f] = balance[f] - FilingDeposit
            /\ balance'[Payee[j]] = balance[Payee[j]] - pay
            /\ balance'["platform"] = balance["platform"] - fee
            /\ \A n \in Names : n \notin {f, Payee[j], "platform"} => balance'[n] = balance[n]
        BY <3>1, FileMoney
      <3>8. /\ f \in {"caller", "agent", "owner"} /\ Payee[j] \in {"agent", "other"}
            /\ f # Payee[j]
        BY SidesTyped DEF Filer, Sides
      <3> HIDE DEF pay, fee, f
      <3>9. BalanceTotal' = BalanceTotal - FilingDeposit - pay - fee
        <4>1. CASE f = "caller"
          <5>1. /\ balance'["caller"] = balance["caller"] - FilingDeposit
                /\ balance'["platform"] = balance["platform"] - fee
                /\ balance'["owner"] = balance["owner"]
            BY <3>7, <3>8, <4>1 DEF Names
          <5>2. balance'["agent"] + balance'["other"] = balance["agent"] + balance["other"] - pay
            <6>1. CASE Payee[j] = "agent"
              <7>1. balance'["agent"] = balance["agent"] - pay /\ balance'["other"] = balance["other"]
                BY <3>7, <4>1, <6>1 DEF Names
              <7> QED
                BY <1>1, <3>2, <3>5, <7>1
            <6>2. CASE Payee[j] = "other"
              <7>1. balance'["other"] = balance["other"] - pay /\ balance'["agent"] = balance["agent"]
                BY <3>7, <4>1, <6>2 DEF Names
              <7> QED
                BY <1>1, <3>2, <3>5, <7>1
            <6> QED
              BY <3>8, <6>1, <6>2
          <5>3. /\ pay \in Int /\ fee \in Int /\ FilingDeposit \in Int
                /\ balance["caller"] \in Int /\ balance["agent"] \in Int
                /\ balance["owner"] \in Int /\ balance["other"] \in Int
                /\ balance["platform"] \in Int
                /\ balance'["agent"] \in Int /\ balance'["other"] \in Int
            BY <1>1, <3>2, <3>5
          <5>4. BalanceTotal' = balance["caller"] - FilingDeposit
                                + (balance["agent"] + balance["other"] - pay)
                                + balance["owner"] + (balance["platform"] - fee)
            BY <1>1, <5>1, <5>2, <5>3
          <5> QED
            BY <1>1, <5>3, <5>4
        <4>2. CASE f = "agent"
          <5>1. /\ Payee[j] = "other" /\ balance'["agent"] = balance["agent"] - FilingDeposit
                /\ balance'["other"] = balance["other"] - pay
                /\ balance'["platform"] = balance["platform"] - fee
                /\ balance'["caller"] = balance["caller"] /\ balance'["owner"] = balance["owner"]
            BY <3>7, <3>8, <4>2 DEF Names
          <5> QED
            BY <1>1, <3>2, <3>5, <5>1
        <4>3. CASE f = "owner"
          BY <1>1, <3>2, <3>5, <3>7, <3>8, <4>3 DEF Names
        <4> QED
          BY <3>8, <4>1, <4>2, <4>3
      <3>10. StakeTotal' \in Int /\ BalanceTotal' + StakeTotal' = BalanceTotal + StakeTotal
        BY <1>1, <3>2, <3>4, <3>5, <3>6, <3>9
      <3> QED
        BY <1>4, <3>10
    <2> QED
      BY <2>2, <2>3
  <1> QED
    BY <1>6, <1>7, <1>8

LEMMA CentsOfOwner ==
    ASSUME Shape, Shape', CentsConserved, Ordered' = Ordered,
           \/ Tick
           \/ set_wallet_session_budget
           \/ \E a \in Amounts : sweep_to_parent(a)
           \/ \E p \in Withdrawals :
                 \/ \E a \in Amounts : WithdrawRead(p, a)
                 \/ WithdrawDebit(p)
                 \/ WithdrawTransfer(p)
    PROVE  CentsConserved'
  <1>1. /\ BalanceTotal = balance["caller"] + balance["agent"] + balance["owner"]
                          + balance["other"] + balance["platform"]
        /\ BalanceTotal' = balance'["caller"] + balance'["agent"] + balance'["owner"]
                           + balance'["other"] + balance'["platform"]
        /\ \A n \in {"caller", "agent", "owner", "other", "platform"} :
              balance[n] \in Int /\ balance'[n] \in Int
        /\ BalanceTotal \in Int /\ StakeTotal \in Int /\ TransferTotal \in Int
        /\ BalanceTotal' \in Int
    BY TotalsTyped, BalanceNext DEF Names
  <1>2. StakeTotal' = StakeTotal
    <2>1. UNCHANGED <<stage, locked, deposited>>
      BY DEF Tick, set_wallet_session_budget, sweep_to_parent, WithdrawRead, WithdrawDebit,
             WithdrawTransfer, jobVars, disputeVars
    <2> QED
      BY <2>1, StakesStay DEF Stake, Undistributed
  <1>3. /\ Withdrawn \in Int /\ (sent' = sent => Withdrawn' = Withdrawn)
        /\ balance \in [Names -> Nat] /\ "owner" \in Names /\ "agent" \in Names
    BY WithdrawnTyped DEF Shape, Names
  <1>4. ASSUME BalanceTotal' + Withdrawn' + TransferTotal' = BalanceTotal + Withdrawn + TransferTotal,
               TransferTotal' \in Int, Withdrawn' \in Int
        PROVE  CentsConserved'
    <2>1. BalanceTotal' + Withdrawn' + StakeTotal' + TransferTotal'
            = BalanceTotal + Withdrawn + StakeTotal + TransferTotal
      BY <1>1, <1>2, <1>3, <1>4
    <2> QED
      BY <2>1, CentsMove
  <1>5. ASSUME Tick \/ set_wallet_session_budget PROVE CentsConserved'
    <2>1. UNCHANGED <<balance, sent, pc, loc>>
      BY <1>5 DEF Tick, set_wallet_session_budget, moneyVars
    <2>2. TransferTotal' = TransferTotal
      BY <2>1, TransfersStay DEF InTransfer
    <2>3. BalanceTotal' = BalanceTotal
      BY <2>1 DEF BalanceTotal
    <2> QED
      BY <1>1, <1>3, <1>4, <2>1, <2>2, <2>3
  <1>6. ASSUME NEW a \in Amounts, sweep_to_parent(a) PROVE CentsConserved'
    <2>1. a \in Int
      BY ConstantsTyped
    <2>2. /\ UNCHANGED <<sent, pc, loc>>
          /\ balance' = [balance EXCEPT !["agent"] = @ - a, !["owner"] = @ + a]
      BY <1>6 DEF sweep_to_parent
    <2>3. TransferTotal' = TransferTotal
      BY <2>2, TransfersStay DEF InTransfer
    <2>4. /\ balance'["agent"] = balance["agent"] - a /\ balance'["owner"] = balance["owner"] + a
          /\ \A n \in Names : n \notin {"agent", "owner"} => balance'[n] = balance[n]
      BY <1>3, <2>2
    <2>5. BalanceTotal' = BalanceTotal
      BY <1>1, <2>1, <2>4 DEF Names
    <2> QED
      BY <1>1, <1>3, <1>4, <2>2, <2>3, <2>5
  <1>7. ASSUME NEW p \in Withdrawals, NEW a \in Amounts, WithdrawRead(p, a) PROVE CentsConserved'
    <2>1. pc[p] = "idle" /\ (\E r : Begin(p, "w_debit", r)) /\ UNCHANGED <<balance, sent>>
      BY <1>7 DEF WithdrawRead, Begin, moneyVars
    <2>2. /\ pc'[p] = "w_debit"
          /\ \A q \in Procs : q # p => pc'[q] = pc[q] /\ loc'[q] = loc[q]
      BY <2>1, ProcMoves, ClientsAreProcs
    <2>3. \A q \in Withdrawals : InTransfer(q)' = InTransfer(q)
      BY <2>1, <2>2, ClientsAreProcs DEF InTransfer
    <2>4. TransferTotal' = TransferTotal
      BY <2>3, TransfersStay
    <2>5. BalanceTotal' = BalanceTotal
      BY <2>1 DEF BalanceTotal
    <2> QED
      BY <1>1, <1>3, <1>4, <2>1, <2>4, <2>5
  <1>8. ASSUME NEW p \in Withdrawals, WithdrawDebit(p) PROVE CentsConserved'
    <2> DEFINE a == loc[p].amount
    <2>1. p \in Procs /\ a \in Nat
      BY ClientsAreProcs, ProcTyped
    <2>2. pc[p] = "w_debit" /\ sent' = sent
      BY <1>8 DEF WithdrawDebit
    <2>3. CASE Finish(p) /\ UNCHANGED balance
      <3>1. /\ pc'[p] = "idle"
            /\ \A q \in Procs : q # p => pc'[q] = pc[q] /\ loc'[q] = loc[q]
        BY <2>1, <2>3, ProcMoves
      <3>2. \A q \in Withdrawals : InTransfer(q)' = InTransfer(q)
        BY <2>2, <3>1, ClientsAreProcs DEF InTransfer
      <3>3. TransferTotal' = TransferTotal
        BY <3>2, TransfersStay
      <3>4. BalanceTotal' = BalanceTotal
        BY <2>3 DEF BalanceTotal
      <3> QED
        BY <1>1, <1>3, <1>4, <2>2, <3>3, <3>4
    <2>4. CASE Goto(p, "w_transfer") /\ balance' = [balance EXCEPT !["owner"] = @ - a]
      <3>1. /\ pc'[p] = "w_transfer" /\ loc'[p] = loc[p]
            /\ \A q \in Procs : q # p => pc'[q] = pc[q] /\ loc'[q] = loc[q]
        BY <2>1, <2>4, ProcMoves
      <3>2. \A q \in Withdrawals : q # p => InTransfer(q)' = InTransfer(q)
        BY <3>1, ClientsAreProcs DEF InTransfer
      <3>3. TransferTotal' = TransferTotal + InTransfer(p)' - InTransfer(p)
        BY <3>2, TransferMoves
      <3>4. InTransfer(p)' = a /\ InTransfer(p) = 0
        BY <2>2, <3>1 DEF InTransfer
      <3>5. /\ balance'["owner"] = balance["owner"] - a
            /\ \A n \in Names : n # "owner" => balance'[n] = balance[n]
        BY <1>3, <2>4
      <3> HIDE DEF a
      <3>6. BalanceTotal' = BalanceTotal - a
        BY <1>1, <2>1, <3>5 DEF Names
      <3> QED
        BY <1>1, <1>3, <1>4, <2>1, <2>2, <3>3, <3>4, <3>6
    <2> QED
      BY <1>8, <2>3, <2>4 DEF WithdrawDebit
  <1>9. ASSUME NEW p \in Withdrawals, WithdrawTransfer(p) PROVE CentsConserved'
    <2> DEFINE a == loc[p].amount
    <2>1. p \in Procs /\ a \in Nat
      BY ClientsAreProcs, ProcTyped
    <2>2. pc[p] = "w_transfer" /\ Finish(p)
      BY <1>9 DEF WithdrawTransfer
    <2>3. /\ pc'[p] = "idle"
          /\ \A q \in Procs : q # p => pc'[q] = pc[q] /\ loc'[q] = loc[q]
      BY <2>1, <2>2, ProcMoves
    <2>4. \A q \in Withdrawals : q # p => InTransfer(q)' = InTransfer(q)
      BY <2>3, ClientsAreProcs DEF InTransfer
    <2>5. TransferTotal' = TransferTotal + InTransfer(p)' - InTransfer(p)
      BY <2>4, TransferMoves
    <2>6. InTransfer(p)' = 0 /\ InTransfer(p) = a
      BY <2>2, <2>3 DEF InTransfer
    <2>7. /\ sent \in Sent
          /\ \/ sent' = [sent EXCEPT !.bank = @ + a] /\ UNCHANGED balance
             \/ balance' = [balance EXCEPT !["owner"] = @ + a] /\ UNCHANGED sent
             \/ /\ balance' = [balance EXCEPT !["owner"] = @ + a]
                /\ sent' = [sent EXCEPT !.bank = @ + a, !.twice = @ + a]
             \/ sent' = [sent EXCEPT !.lost = @ + a] /\ UNCHANGED balance
      BY <1>9 DEF WithdrawTransfer, Shape
    <2> HIDE DEF a
    <2>8. \/ Withdrawn' = Withdrawn + a /\ UNCHANGED balance
          \/ Withdrawn' = Withdrawn /\ balance' = [balance EXCEPT !["owner"] = @ + a]
      <3>1. sent.bank \in Int /\ sent.twice \in Int /\ sent.lost \in Int
        BY <2>7 DEF Sent
      <3>2. ASSUME sent' = [sent EXCEPT !.bank = @ + a] PROVE Withdrawn' = Withdrawn + a
        <4>1. sent'.bank = sent.bank + a /\ sent'.twice = sent.twice /\ sent'.lost = sent.lost
          BY <2>7, <3>2 DEF Sent
        <4> QED
          BY <2>1, <3>1, <4>1 DEF Withdrawn
      <3>3. ASSUME sent' = [sent EXCEPT !.bank = @ + a, !.twice = @ + a]
            PROVE  Withdrawn' = Withdrawn
        <4>1. sent'.bank = sent.bank + a /\ sent'.twice = sent.twice + a /\ sent'.lost = sent.lost
          BY <2>7, <3>3 DEF Sent
        <4> QED
          BY <2>1, <3>1, <4>1 DEF Withdrawn
      <3>4. ASSUME sent' = [sent EXCEPT !.lost = @ + a] PROVE Withdrawn' = Withdrawn + a
        <4>1. sent'.bank = sent.bank /\ sent'.twice = sent.twice /\ sent'.lost = sent.lost + a
          BY <2>7, <3>4 DEF Sent
        <4> QED
          BY <2>1, <3>1, <4>1 DEF Withdrawn
      <3>5. UNCHANGED sent => Withdrawn' = Withdrawn
        BY DEF Withdrawn
      <3> QED
        BY <2>7, <3>2, <3>3, <3>4, <3>5
    <2>9. CASE Withdrawn' = Withdrawn + a /\ UNCHANGED balance
      <3>1. BalanceTotal' = BalanceTotal
        BY <2>9 DEF BalanceTotal
      <3> HIDE DEF Withdrawn
      <3> QED
        BY <1>1, <1>3, <1>4, <2>1, <2>5, <2>6, <2>9, <3>1
    <2>10. CASE Withdrawn' = Withdrawn /\ balance' = [balance EXCEPT !["owner"] = @ + a]
      <3>1. /\ balance'["owner"] = balance["owner"] + a
            /\ \A n \in Names : n # "owner" => balance'[n] = balance[n]
        BY <1>3, <2>10
      <3>2. BalanceTotal' = BalanceTotal + a
        BY <1>1, <2>1, <3>1 DEF Names
      <3> QED
        BY <1>1, <1>3, <1>4, <2>1, <2>5, <2>6, <2>10, <3>2
    <2> QED
      BY <2>8, <2>9, <2>10
  <1> QED
    BY <1>5, <1>6, <1>7, <1>8, <1>9

LEMMA CentsStep ==
    ASSUME Shape, AllPlaced, JobsKept, CentsConserved, Next
    PROVE  CentsConserved'
  <1>1. Shape'
    BY ShapeStep
  <1>2. Ordered' = Ordered
    BY StagesGrow DEF Ordered
  <1> QED
    BY <1>1, <1>2, CentsOfJob, CentsOfClient, CentsOfOwner DEF Next

-----------------------------------------------------------------------------
(* The rows. *)

\* What the rows say of a job stays true of it.
RowJobsStay ==
    \A j \in Jobs :
        /\ stage[j] \notin {"unordered", "none"} => stage'[j] \notin {"unordered", "none"}
        /\ stage[j] = "refunded" => stage'[j] = "refunded"
        /\ dispute[j] # "none" => dispute'[j] # "none"

LEMMA OldRowsKnown ==
    ASSUME RowsKnown, RowJobsStay, rows \subseteq rows', IsFiniteSet(rows'), NEW r \in rows
    PROVE  RowKnown(r)'
  <1>1. RowKnown(r) /\ IsFiniteSet(rows)
    BY DEF RowsKnown
  <1>2. /\ Cardinality(rows) <= Cardinality(rows')
        /\ Cardinality(rows) \in Nat /\ Cardinality(rows') \in Nat
    BY <1>1, FS_Subset, FS_CardinalityType
  <1> DEFINE c == Cardinality(rows)  d == Cardinality(rows')
  <1>3. c \in Nat /\ d \in Nat /\ c <= d
    BY <1>2
  <1>4. r.kind = "sweep" => r.id \in Nat /\ r.id < c
    BY <1>1 DEF RowKnown
  <1> HIDE DEF c, d
  <1>5. r.kind = "sweep" => r.id \in Nat /\ r.id < d
    BY <1>3, <1>4
  <1>6. r.kind = "sweep" => r.id \in Nat /\ r.id < Cardinality(rows')
    BY <1>5 DEF d
  <1> QED
    BY <1>1, <1>6 DEF RowKnown, RowJobsStay

\* Rows of the other kinds disturb nothing.
LEMMA PlainRows ==
    ASSUME RowsKnown, RowJobsStay, NEW N, IsFiniteSet(N), rows' = rows \cup N,
           \A r \in N : RowKnown(r)' /\ r.kind \notin {"call", "refund"},
           \A j \in Jobs : stage'[j] \notin {"unordered", "none"} =>
                              stage[j] \notin {"unordered", "none"}
    PROVE  RowsKnown'
  <1>1. IsFiniteSet(rows')
    BY FS_Union DEF RowsKnown
  <1>2. \A r \in rows' : RowKnown(r)'
    BY <1>1, OldRowsKnown
  <1>3. \A r \in rows' : r.kind \in {"call", "refund"} => r \in rows
    OBVIOUS
  <1> QED
    BY <1>1, <1>2, <1>3 DEF RowsKnown

LEMMA RowsStayKnown ==
    ASSUME RowsKnown, RowJobsStay, rows' = rows,
           \A j \in Jobs : stage'[j] \notin {"unordered", "none"} =>
                              stage[j] \notin {"unordered", "none"}
    PROVE  RowsKnown'
  <1>1. IsFiniteSet({}) /\ rows' = rows \cup {}
    BY FS_EmptySet
  <1> QED
    BY <1>1, PlainRows

\* The key of a job is the key of its call row.
LEMMA KeyOfRow ==
    ASSUME NEW R, NEW r \in R, NEW j, r.kind = "call", r.id = j,
           \A p, q \in R : p.kind = "call" /\ q.kind = "call" /\ p.id = q.id => p = q
    PROVE  (CHOOSE q \in R : q.kind = "call" /\ q.id = j) = r
  OBVIOUS

LEMMA KeyOfIs ==
    ASSUME RowsKnown, NEW r \in rows, r.kind = "call"
    PROVE  KeyOf(r.id) = r.key
  <1>1. (CHOOSE q \in rows : q.kind = "call" /\ q.id = r.id) = r
    BY KeyOfRow DEF RowsKnown
  <1> QED
    BY <1>1 DEF KeyOf

LEMMA KeyOfNext ==
    ASSUME RowsKnown', NEW r \in rows', r.kind = "call"
    PROVE  KeyOf(r.id)' = r.key
  <1>1. (CHOOSE q \in rows' : q.kind = "call" /\ q.id = r.id) = r
    BY KeyOfRow DEF RowsKnown
  <1> QED
    BY <1>1 DEF KeyOf

LEMMA CallRowOf ==
    ASSUME RowsKnown, NEW j \in Jobs, stage[j] \notin {"unordered", "none"}
    PROVE  \E r \in rows : /\ r.kind = "call" /\ r.id = j /\ KeyOf(j) = r.key
                           /\ r.key \in Keys
  <1>1. PICK r \in rows : r.kind = "call" /\ r.id = j
    BY DEF RowsKnown
  <1>2. r.key \in Keys
    BY <1>1 DEF RowsKnown, RowKnown
  <1> QED
    BY <1>1, <1>2, KeyOfIs

\* A job keeps its key.
LEMMA KeyStays ==
    ASSUME RowsKnown, RowsKnown', rows \subseteq rows', NEW j \in Jobs,
           stage[j] \notin {"unordered", "none"}
    PROVE  KeyOf(j)' = KeyOf(j)
  <1>1. PICK r \in rows : r.kind = "call" /\ r.id = j /\ KeyOf(j) = r.key
    BY CallRowOf
  <1> QED
    BY <1>1, KeyOfNext

LEMMA RowsCharged ==
    ASSUME Shape, RowsKnown, NEW j \in Jobs, NEW k \in Keys, pre_call_charge(j, k)
    PROVE  /\ RowsKnown'
           /\ LET new == Row(Payer[j], "charge", 0 - Charge, k, "call", j)
              IN  /\ new \notin rows /\ new \in rows' /\ rows \subseteq rows'
                  /\ \A r \in rows' : r \in rows \/ r = new \/ r.kind = "guarantor"
                  /\ \A r \in rows' : r \in rows \/ r = new \/ r.key = NoKey
  <1> DEFINE w == Payer[j]
             top == Backstop(w, Charge)
             new == Row(w, "charge", 0 - Charge, k, "call", j)
             more == Row(w, "deposit", top, NoKey, "guarantor", j)
             N == IF top = 0 THEN {} ELSE {more}
  <1>1. /\ stage[j] = "none" /\ rows' = rows \cup {new} \cup N
        /\ stage' = [stage EXCEPT ![j] = "charged"] /\ dispute' = dispute
    BY DEF pre_call_charge, disputeVars
  <1>2. /\ stage'[j] = "charged" /\ \A i \in Jobs : i # j => stage'[i] = stage[i]
    BY <1>1 DEF Shape
  <1>3. /\ new.kind = "call" /\ new.id = j /\ new.wallet = w /\ new.type = "charge"
        /\ new.amount = 0 - Charge /\ new.key = k
    BY DEF Row
  <1>4. \A r \in N : r.kind = "guarantor" /\ r.amount = top /\ r.key = NoKey
    BY DEF Row
  <1>5. top \in Nat /\ Charge \in Nat /\ 0 - Charge \in Int
    BY BackstopTyped, ConstantsTyped
  <1>6. IsFiniteSet(N) /\ IsFiniteSet({new})
    BY FS_EmptySet, FS_Singleton
  <1> HIDE DEF new, N, w, top, more
  <1>7. IsFiniteSet(rows \cup {new}) /\ IsFiniteSet(rows')
    BY <1>1, <1>6, FS_Union DEF RowsKnown
  <1>8. \A r \in rows : r.kind = "call" => r.id # j
    BY <1>1 DEF RowsKnown, RowKnown
  <1>9. \A r \in rows : r.kind = "refund" => r.id # j
    BY <1>1 DEF RowsKnown, RowKnown
  <1>10. new \notin rows
    BY <1>3, <1>8
  <1>11. RowJobsStay
    BY <1>1, <1>2 DEF RowJobsStay
  <1>12. \A r \in rows : RowKnown(r)'
    BY <1>1, <1>7, <1>11, OldRowsKnown
  <1>13. \A r \in {new} : RowKnown(r)'
    BY <1>2, <1>3, <1>5 DEF RowKnown, w
  <1>14. \A r \in N : RowKnown(r)'
    BY <1>4, <1>5 DEF RowKnown
  <1>15. \A r \in rows' : r.kind = "call" => r \in rows \/ r = new
    BY <1>1, <1>4
  <1>16. \A r \in rows' : r.kind = "refund" => r \in rows
    BY <1>1, <1>3, <1>4
  <1>17. \A r \in rows' : RowKnown(r)'
    BY <1>1, <1>12, <1>13, <1>14
  <1>18. \A r, q \in rows' : r.kind = "call" /\ q.kind = "call" /\ r.id = q.id => r = q
    BY <1>3, <1>8, <1>15 DEF RowsKnown
  <1>19. \A r, q \in rows' : r.kind = "refund" /\ q.kind = "call" /\ r.id = q.id => r.key = q.key
    BY <1>3, <1>9, <1>15, <1>16 DEF RowsKnown
  <1>20. \A i \in Jobs : stage'[i] \notin {"unordered", "none"} =>
             \E r \in rows' : r.kind = "call" /\ r.id = i
    BY <1>1, <1>2, <1>3 DEF RowsKnown
  <1>21. RowsKnown'
    BY <1>7, <1>17, <1>18, <1>19, <1>20 DEF RowsKnown
  <1>22. /\ new \in rows' /\ rows \subseteq rows'
         /\ \A r \in rows' : r \in rows \/ r = new \/ r.kind = "guarantor"
         /\ \A r \in rows' : r \in rows \/ r = new \/ r.key = NoKey
    BY <1>1, <1>4
  <1> QED
    BY <1>10, <1>21, <1>22 DEF new, w

LEMMA RowsRefunded ==
    ASSUME Shape, RowsKnown, NEW j \in Jobs, post_call_refund(j)
    PROVE  /\ RowsKnown'
           /\ LET new == Row(Payer[j], "refund", Charge, KeyOf(j), "refund", j)
              IN  new \notin rows /\ rows' = rows \cup {new}
           /\ KeyOf(j) \in Keys
  <1> DEFINE w == Payer[j]  k == KeyOf(j)
             new == Row(w, "refund", Charge, k, "refund", j)
  <1>1. /\ stage[j] = "charged" /\ rows' = rows \cup {new}
        /\ stage' = [stage EXCEPT ![j] = "refunded"] /\ dispute' = dispute
    BY DEF post_call_refund, disputeVars
  <1>2. /\ stage'[j] = "refunded" /\ \A i \in Jobs : i # j => stage'[i] = stage[i]
    BY <1>1 DEF Shape
  <1>3. /\ new.kind = "refund" /\ new.id = j /\ new.wallet = w /\ new.type = "refund"
        /\ new.amount = Charge /\ new.key = k
    BY DEF Row
  <1>4. Charge \in Int /\ k \in Keys
    BY <1>1, CallRowOf, ConstantsTyped
  <1> HIDE DEF new, w
  <1>5. IsFiniteSet(rows')
    BY <1>1, FS_AddElement DEF RowsKnown
  <1>6. \A r \in rows : r.kind = "refund" => r.id # j
    BY <1>1 DEF RowsKnown, RowKnown
  <1>7. new \notin rows
    BY <1>3, <1>6
  <1>8. RowJobsStay
    BY <1>1, <1>2 DEF RowJobsStay
  <1>9. \A r \in rows : RowKnown(r)'
    BY <1>1, <1>5, <1>8, OldRowsKnown
  <1>10. \A r \in {new} : RowKnown(r)'
    BY <1>2, <1>3, <1>4 DEF RowKnown, w
  <1>11. \A r \in rows' : RowKnown(r)'
    BY <1>1, <1>9, <1>10
  <1>12. \A r \in rows' : r.kind = "call" => r \in rows
    BY <1>1, <1>3
  <1>13. \A q \in rows : q.kind = "call" /\ q.id = j => q.key = k
    BY KeyOfIs
  <1> HIDE DEF k
  <1>14. \A r, q \in rows' : r.kind = "call" /\ q.kind = "call" /\ r.id = q.id => r = q
    BY <1>12 DEF RowsKnown
  <1>15. \A r, q \in rows' : r.kind = "refund" /\ q.kind = "call" /\ r.id = q.id => r.key = q.key
    BY <1>1, <1>3, <1>12, <1>13 DEF RowsKnown
  <1>16. \A i \in Jobs : stage'[i] \notin {"unordered", "none"} =>
             \E r \in rows' : r.kind = "call" /\ r.id = i
    BY <1>1, <1>2, <1>3 DEF RowsKnown
  <1>17. RowsKnown'
    BY <1>5, <1>11, <1>14, <1>15, <1>16 DEF RowsKnown
  <1> QED
    BY <1>1, <1>4, <1>7, <1>17 DEF new, k, w

\* The rows of every other step are of the other kinds and have no key.
PlainStep ==
    \E N : /\ rows' = rows \cup N /\ IsFiniteSet(N)
           /\ \A r \in N : r.kind \notin {"call", "refund"} /\ r.key = NoKey

LEMMA RowsRuled ==
    ASSUME Shape, RowsKnown, JobsKept, NEW j \in Jobs, NEW o \in Outcomes,
           post_dispute_settlement(j, o)
    PROVE  /\ RowsKnown' /\ PlainStep
           /\ \A r \in rows' : r \in rows \/ r.kind = "ruling"
  <1> DEFINE c == CallerShare(j, o)
             new == Row(Payer[j], "refund", c, NoKey, "ruling", j)
             N == IF c = 0 THEN {} ELSE {new}
  <1>1. rows' = rows \cup N
    BY DEF post_dispute_settlement
  <1>2. c \in Int
    BY RulingMoney
  <1>3. \A r \in N : r.kind = "ruling" /\ r.amount = c /\ r.key = NoKey
    BY DEF Row
  <1>4. IsFiniteSet(N)
    BY FS_EmptySet, FS_Singleton
  <1>5. /\ dispute[j] \in Sides /\ dispute' = [dispute EXCEPT ![j] = "closed"]
        /\ stage' = [stage EXCEPT ![j] = IF o = "void" /\ locked[j] = 0
                                         THEN "voided" ELSE "settled"]
    BY DEF post_dispute_settlement
  <1>6. Completed(j)
    BY <1>5 DEF JobsKept, Locked, Sides
  <1>7. /\ stage'[j] \in {"voided", "settled"} /\ dispute'[j] = "closed"
        /\ \A i \in Jobs : i # j => stage'[i] = stage[i] /\ dispute'[i] = dispute[i]
    BY <1>5 DEF Shape
  <1> HIDE DEF c, new, N
  <1>8. RowJobsStay
    BY <1>6, <1>7 DEF RowJobsStay, Completed
  <1>9. \A r \in N : RowKnown(r)' /\ r.kind \notin {"call", "refund"}
    BY <1>2, <1>3 DEF RowKnown
  <1>10. \A i \in Jobs : stage'[i] \notin {"unordered", "none"} =>
                            stage[i] \notin {"unordered", "none"}
    BY <1>6, <1>7 DEF Completed
  <1>11. RowsKnown'
    BY <1>1, <1>4, <1>8, <1>9, <1>10, PlainRows
  <1>12. PlainStep
    BY <1>1, <1>3, <1>4 DEF PlainStep
  <1> QED
    BY <1>1, <1>3, <1>11, <1>12

\* Steps that change no job's stage.
LEMMA RowsClawed ==
    ASSUME Shape, RowsKnown, AllPlaced, NEW p \in Clients, NEW pct \in CurvePct,
           RateClaw(p, pct)
    PROVE  /\ RowsKnown' /\ PlainStep
           /\ \A r \in rows' : r \in rows \/ r.kind = "clawback"
  <1>1. PICK j \in Jobs : j = loc[p].job
    BY ClientsAreProcs DEF RateClaw, AllPlaced, Placed
  <1> DEFINE cents == compute_clawback_cents(pct)
             N == IF rows' = rows THEN {} ELSE ClawbackRows(j, cents)
  <1>2. rows' = rows \cup N
    BY <1>1, ClawEffect DEF moneyVars
  <1>3. cents \in Nat
    BY ClawbackCents
  <1>4. 0 - cents \in Int
    BY <1>3
  <1>5. \A r \in N : r.kind = "clawback" /\ r.amount \in Int /\ r.key = NoKey
    BY <1>3, <1>4 DEF Row, ClawbackRows
  <1>6. IsFiniteSet(N)
    <2> DEFINE a == Row(Payee[j], "charge", 0 - cents, NoKey, "clawback", j)
               b == Row(Payer[j], "refund", cents, NoKey, "clawback", j)
    <2>1. IsFiniteSet({a})
      BY FS_Singleton
    <2>2. IsFiniteSet({a} \cup {b})
      BY <2>1, FS_AddElement
    <2>3. ClawbackRows(j, cents) = {a} \cup {b}
      BY DEF ClawbackRows
    <2> QED
      BY <2>2, <2>3, FS_EmptySet
  <1> HIDE DEF N
  <1>7. UNCHANGED <<stage, dispute>>
    BY DEF RateClaw, jobVars, disputeVars
  <1>8. RowJobsStay
    BY <1>7 DEF RowJobsStay
  <1>9. \A r \in N : RowKnown(r)' /\ r.kind \notin {"call", "refund"}
    BY <1>5 DEF RowKnown
  <1>10. RowsKnown'
    BY <1>2, <1>6, <1>7, <1>8, <1>9, PlainRows
  <1>11. PlainStep
    BY <1>2, <1>5, <1>6 DEF PlainStep
  <1> QED
    BY <1>2, <1>5, <1>10, <1>11

LEMMA RowsFiled ==
    ASSUME Shape, RowsKnown, AllPlaced, NEW p \in Clients, NEW side \in Sides,
           DisputeFile(p, side), NEW j \in Jobs, j = loc[p].job,
           ~UNCHANGED <<moneyVars, holdVars, disputeVars>>
    PROVE  /\ RowsKnown' /\ PlainStep
           /\ LET new == Row(Filer(j, side), "charge", 0 - FilingDeposit, NoKey, "deposit", j)
              IN  /\ new \notin rows /\ new \in rows' /\ rows \subseteq rows'
                  /\ \A r \in rows' : r \in rows \/ r = new \/ r.kind = "lock"
  <1> DEFINE f == Filer(j, side)
             new == Row(f, "charge", 0 - FilingDeposit, NoKey, "deposit", j)
             lock == Row(Payee[j], "charge", 0 - Payout, NoKey, "lock", j)
             L == IF stage[j] = "settled" THEN {lock} ELSE {}
             N == {new} \cup L
  <1>1. /\ rows' = rows \cup {new} \cup L
        /\ dispute[j] = "none" /\ dispute' = [dispute EXCEPT ![j] = side]
    BY FileEffect DEF Files
  <1>2. FilingDeposit \in Nat /\ Payout \in Nat
    BY ConstantsTyped
  <1>3. 0 - FilingDeposit \in Int /\ 0 - Payout \in Int
    BY <1>2
  <1>4. /\ new.kind = "deposit" /\ new.amount \in Int /\ new.key = NoKey /\ new.id = j
        /\ \A r \in L : r.kind = "lock" /\ r.amount \in Int /\ r.key = NoKey
    BY <1>3 DEF Row
  <1>5. IsFiniteSet(L) /\ IsFiniteSet({new})
    BY FS_EmptySet, FS_Singleton
  <1> HIDE DEF new, L
  <1>6. IsFiniteSet(N)
    BY <1>5, FS_Union
  <1>7. \A r \in N : /\ r.kind \in {"deposit", "lock"} /\ r.amount \in Int /\ r.key = NoKey
                     /\ r.kind = "deposit" => r.id = j
    BY <1>4
  <1>8. rows' = rows \cup N
    BY <1>1
  <1> HIDE DEF N
  <1>9. stage' = stage /\ dispute'[j] # "none"
        /\ \A i \in Jobs : i # j => dispute'[i] = dispute[i]
    BY <1>1 DEF DisputeFile, jobVars, Shape, Sides
  <1>10. RowJobsStay
    BY <1>1, <1>9 DEF RowJobsStay
  <1>11. \A r \in N : RowKnown(r)' /\ r.kind \notin {"call", "refund"}
    BY <1>7, <1>9 DEF RowKnown
  <1>12. RowsKnown'
    BY <1>6, <1>8, <1>9, <1>10, <1>11, PlainRows
  <1>13. PlainStep
    BY <1>6, <1>7, <1>8 DEF PlainStep
  <1>14. new \notin rows
    BY <1>1, <1>4 DEF RowsKnown, RowKnown
  <1>15. new \in rows' /\ rows \subseteq rows'
         /\ \A r \in rows' : r \in rows \/ r = new \/ r.kind = "lock"
    BY <1>1, <1>4
  <1> QED
    BY <1>12, <1>13, <1>14, <1>15 DEF new

LEMMA RowsSwept ==
    ASSUME Shape, RowsKnown, NEW a \in Amounts, sweep_to_parent(a)
    PROVE  /\ RowsKnown' /\ PlainStep
           /\ LET new == Row("agent", "charge", 0 - a, NoKey, "sweep", Cardinality(rows))
              IN  new \notin rows /\ rows' = rows \cup {new}
  <1> DEFINE c == Cardinality(rows)
             new == Row("agent", "charge", 0 - a, NoKey, "sweep", c)
  <1>1. rows' = rows \cup {new} /\ UNCHANGED <<stage, dispute>>
    BY DEF sweep_to_parent, jobVars, disputeVars
  <1>2. a \in Nat /\ c \in Nat /\ IsFiniteSet(rows)
    BY ConstantsTyped, FS_CardinalityType DEF RowsKnown
  <1>3. 0 - a \in Int
    BY <1>2
  <1>4. new.kind = "sweep" /\ new.amount \in Int /\ new.key = NoKey /\ new.id = c
    BY <1>3 DEF Row
  <1>5. \A r \in rows : r.kind = "sweep" => r.id \in Nat /\ r.id < c
    BY DEF RowsKnown, RowKnown
  <1> HIDE DEF new
  <1>6. \A r \in rows : r.kind = "sweep" => r.id # c
    <2> HIDE DEF c
    <2> QED
      BY <1>2, <1>5
  <1>7. new \notin rows
    BY <1>4, <1>6
  <1>8. Cardinality(rows') = c + 1
    BY <1>1, <1>2, <1>7, FS_AddElement
  <1>9. RowJobsStay
    BY <1>1 DEF RowJobsStay
  <1>10. new.id \in Nat /\ new.id < Cardinality(rows')
    <2> HIDE DEF c
    <2> QED
      BY <1>2, <1>4, <1>8
  <1>11. \A r \in {new} : RowKnown(r)'
    BY <1>4, <1>10 DEF RowKnown
  <1>12. IsFiniteSet({new}) /\ \A r \in {new} : RowKnown(r)' /\ r.kind \notin {"call", "refund"}
    BY <1>4, <1>11, FS_Singleton
  <1>13. RowsKnown'
    BY <1>1, <1>9, <1>12, PlainRows
  <1>14. PlainStep
    BY <1>1, <1>4, <1>12 DEF PlainStep
  <1> QED
    BY <1>1, <1>7, <1>13, <1>14 DEF new

\* A charge that was made and not given back.
Live(j) == stage[j] \notin {"unordered", "none", "refunded"}

\* Every step but a charge and a refund.
LEMMA RowsOther ==
    ASSUME Shape, AllPlaced, JobsKept, RowsKnown, Next,
           ~\E j \in Jobs : post_call_refund(j) \/ \E k \in Keys : pre_call_charge(j, k)
    PROVE  RowsKnown' /\ PlainStep /\ \A j \in Jobs : Live(j)' <=> Live(j)
  <1>0. stage \in [Jobs -> Stages]
    BY DEF Shape
  <1>1. ASSUME rows' = rows, dispute' = dispute,
               stage' = stage \/ \E j \in Jobs : /\ Live(j)
                                                 /\ \E s \in {"complete", "settled"} :
                                                       stage' = [stage EXCEPT ![j] = s]
        PROVE  RowsKnown' /\ PlainStep /\ \A j \in Jobs : Live(j)' <=> Live(j)
    <2>1. ASSUME NEW i \in Jobs
          PROVE  stage'[i] = stage[i] \/ (Live(i) /\ stage'[i] \in {"complete", "settled"})
      <3>1. CASE stage' = stage
        BY <3>1 DEF Live
      <3>2. ASSUME NEW j \in Jobs, Live(j), NEW s \in {"complete", "settled"},
                   stage' = [stage EXCEPT ![j] = s]
            PROVE  stage'[i] = stage[i] \/ (Live(i) /\ stage'[i] \in {"complete", "settled"})
        <4>1. CASE i = j
          BY <1>0, <3>2, <4>1
        <4>2. CASE i # j
          BY <1>0, <3>2, <4>2 DEF Live
        <4> QED
          BY <4>1, <4>2
      <3> QED
        BY <1>1, <3>1, <3>2
    <2>2. RowJobsStay /\ \A j \in Jobs : stage'[j] \notin {"unordered", "none"} =>
                                            stage[j] \notin {"unordered", "none"}
      BY <1>1, <2>1 DEF RowJobsStay, Live
    <2>3. RowsKnown'
      BY <1>1, <2>2, RowsStayKnown
    <2>4. rows' = rows \cup {} /\ IsFiniteSet({})
      BY <1>1, FS_EmptySet
    <2>5. PlainStep
      BY <2>4 DEF PlainStep
    <2> QED
      BY <2>1, <2>3, <2>5 DEF Live
  <1>2. ASSUME NEW j \in Jobs, complete_job(j) \/ post_call_payout(j) \/ release_expired_hold(j)
        PROVE  RowsKnown' /\ PlainStep /\ \A i \in Jobs : Live(i)' <=> Live(i)
    <2>1. rows' = rows /\ dispute' = dispute
      BY <1>2 DEF complete_job, post_call_payout, release_expired_hold, moneyVars, disputeVars
    <2>2. \/ stage' = stage
          \/ Live(j) /\ \E s \in {"complete", "settled"} : stage' = [stage EXCEPT ![j] = s]
      BY <1>2 DEF complete_job, post_call_payout, release_expired_hold, jobVars, Live
    <2> QED
      BY <1>1, <2>1, <2>2
  <1>3. ASSUME NEW j \in Jobs, NEW o \in Outcomes, post_dispute_settlement(j, o)
        PROVE  RowsKnown' /\ PlainStep /\ \A i \in Jobs : Live(i)' <=> Live(i)
    <2>1. RowsKnown' /\ PlainStep
      BY <1>3, RowsRuled
    <2>2. /\ dispute[j] \in Sides
          /\ stage' = [stage EXCEPT ![j] = IF o = "void" /\ locked[j] = 0
                                           THEN "voided" ELSE "settled"]
      BY <1>3 DEF post_dispute_settlement
    <2>3. Completed(j)
      BY <2>2 DEF JobsKept, Locked, Sides
    <2> QED
      BY <1>0, <2>1, <2>2, <2>3 DEF Completed, Live
  <1>4. ASSUME NEW p \in Clients, NEW pct \in CurvePct, RateClaw(p, pct)
        PROVE  RowsKnown' /\ PlainStep /\ \A i \in Jobs : Live(i)' <=> Live(i)
    <2>1. RowsKnown' /\ PlainStep
      BY <1>4, RowsClawed
    <2> QED
      BY <1>4, <2>1 DEF RateClaw, jobVars, Live
  <1>5. ASSUME NEW p \in Clients, NEW side \in Sides, DisputeFile(p, side)
        PROVE  RowsKnown' /\ PlainStep /\ \A i \in Jobs : Live(i)' <=> Live(i)
    <2>1. PICK j \in Jobs : j = loc[p].job
      BY <1>5, ClientsAreProcs DEF DisputeFile, AllPlaced, Placed
    <2>2. stage' = stage
      BY <1>5 DEF DisputeFile, jobVars
    <2>3. CASE UNCHANGED <<moneyVars, holdVars, disputeVars>>
      BY <1>1, <2>2, <2>3 DEF moneyVars, disputeVars
    <2>4. CASE ~UNCHANGED <<moneyVars, holdVars, disputeVars>>
      BY <1>5, <2>1, <2>2, <2>4, RowsFiled DEF Live
    <2> QED
      BY <2>3, <2>4
  <1>6. ASSUME NEW a \in Amounts, sweep_to_parent(a)
        PROVE  RowsKnown' /\ PlainStep /\ \A i \in Jobs : Live(i)' <=> Live(i)
    <2>1. RowsKnown' /\ PlainStep
      BY <1>6, RowsSwept
    <2> QED
      BY <1>6, <2>1 DEF sweep_to_parent, jobVars, Live
  <1>7. ASSUME UNCHANGED <<rows, dispute, stage>>
        PROVE  RowsKnown' /\ PlainStep /\ \A i \in Jobs : Live(i)' <=> Live(i)
    BY <1>1, <1>7
  <1> QED
    BY <1>2, <1>3, <1>4, <1>5, <1>6, <1>7
    DEF Next, Tick, set_wallet_session_budget, RateRead, DisputeRead, RateRecord, WithdrawRead,
        WithdrawDebit, WithdrawTransfer, moneyVars, jobVars, disputeVars

-----------------------------------------------------------------------------
(* The cap of a key. *)

LEMMA RowSumGrows ==
    ASSUME NEW S, IsFiniteSet(S), \A r \in S : r.amount \in Int,
           NEW r, r \notin S, r.amount \in Int
    PROVE  RowSum(S \cup {r}) = RowSum(S) + r.amount /\ RowSum(S) \in Int
  <1> DEFINE f == [q \in S |-> q.amount]  g == [q \in S \cup {r} |-> q.amount]
  <1>1. /\ IsFiniteSet(DOMAIN f) /\ r \notin DOMAIN f /\ DOMAIN g = DOMAIN f \cup {r}
        /\ g[r] = r.amount /\ g[r] \in Int
        /\ \A y \in DOMAIN f : f[y] \in Int /\ g[y] = f[y]
    OBVIOUS
  <1>2. RowSum(S) = SumFunction(f) /\ RowSum(S \cup {r}) = SumFunction(g)
    BY DEF RowSum
  <1> HIDE DEF f, g
  <1>3. SumFunction(f) \in Int /\ SumFunction(g) = SumFunction(f) + g[r]
    BY <1>1, SumGrow
  <1> QED
    BY <1>1, <1>2, <1>3

LEMMA RowSumTyped ==
    ASSUME NEW S, IsFiniteSet(S), \A r \in S : r.amount \in Int
    PROVE  RowSum(S) \in Int
  <1> DEFINE f == [q \in S |-> q.amount]
  <1>1. DOMAIN f = S /\ \A y \in S : f[y] \in Int
    OBVIOUS
  <1>2. RowSum(S) = SumFunction(f)
    BY DEF RowSum
  <1> HIDE DEF f
  <1>3. SumFunction(f) = SumFunctionOnSet(f, S)
    BY <1>1 DEF SumFunction
  <1> QED
    BY <1>1, <1>2, <1>3, SumTyped

LEMMA KeySetsTyped ==
    ASSUME RowsKnown, NEW k, NEW w
    PROVE  /\ IsFiniteSet(KeyRows(k, w)) /\ \A r \in KeyRows(k, w) : r.amount \in Int
           /\ RowSum(KeyRows(k, w)) \in Int
           /\ IsFiniteSet(KeyJobs(k, w)) /\ Cardinality(KeyJobs(k, w)) \in Nat
  <1>1. KeyRows(k, w) \subseteq rows /\ KeyJobs(k, w) \subseteq Jobs
    BY DEF KeyRows, KeyJobs
  <1>2. /\ IsFiniteSet(KeyRows(k, w)) /\ IsFiniteSet(KeyJobs(k, w))
        /\ \A r \in KeyRows(k, w) : r.amount \in Int
    BY <1>1, ConstantsTyped, FS_Subset DEF RowsKnown, RowKnown
  <1> QED
    BY <1>2, FS_CardinalityType, RowSumTyped

LEMMA KeyPlain ==
    ASSUME RowsKnown, RowsKnown', KeySpend, PlainStep, \A j \in Jobs : Live(j)' <=> Live(j)
    PROVE  KeySpend'
  <1>1. ASSUME NEW k \in Keys, NEW w \in {"caller", "agent"}
        PROVE  KeyRows(k, w)' = KeyRows(k, w) /\ KeyJobs(k, w)' = KeyJobs(k, w)
    <2>1. \A r \in rows' : r \in rows \/ r.key # k
      BY ConstantsTyped DEF PlainStep
    <2>2. rows \subseteq rows'
      BY DEF PlainStep
    <2>3. \A j \in Jobs : Live(j) => KeyOf(j)' = KeyOf(j)
      BY <2>2, KeyStays DEF Live
    <2>4. KeyRows(k, w)' = KeyRows(k, w)
      BY <2>1, <2>2 DEF KeyRows
    <2>5. KeyJobs(k, w)' = KeyJobs(k, w)
      BY <2>3 DEF KeyJobs, Live
    <2> QED
      BY <2>4, <2>5
  <1> QED
    BY <1>1 DEF KeySpend

LEMMA KeyCharged ==
    ASSUME Shape, RowsKnown, KeySpend, NEW j \in Jobs, NEW k \in Keys, pre_call_charge(j, k)
    PROVE  KeySpend'
  <1> DEFINE new == Row(Payer[j], "charge", 0 - Charge, k, "call", j)
  <1>1. /\ RowsKnown' /\ new \notin rows /\ new \in rows' /\ rows \subseteq rows'
        /\ \A r \in rows' : r \in rows \/ r = new \/ r.key = NoKey
    BY RowsCharged
  <1>2. /\ new.kind = "call" /\ new.id = j /\ new.wallet = Payer[j] /\ new.type = "charge"
        /\ new.amount = 0 - Charge /\ new.key = k
    BY DEF Row
  <1>3. /\ stage[j] = "none" /\ stage'[j] = "charged"
        /\ \A i \in Jobs : i # j => stage'[i] = stage[i]
    BY DEF pre_call_charge, Shape
  <1> HIDE DEF new
  <1>4. KeyOf(j)' = k
    BY <1>1, <1>2, KeyOfNext
  <1>5. \A i \in Jobs : i # j /\ Live(i) => KeyOf(i)' = KeyOf(i)
    BY <1>1, KeyStays DEF Live
  <1> SUFFICES ASSUME NEW q \in Keys, NEW w \in {"caller", "agent"}
               PROVE  RowSum(KeyRows(q, w)') = 0 - Charge * Cardinality(KeyJobs(q, w)')
    BY DEF KeySpend
  <1>6. /\ RowSum(KeyRows(q, w)) = 0 - Charge * Cardinality(KeyJobs(q, w))
        /\ IsFiniteSet(KeyRows(q, w)) /\ \A r \in KeyRows(q, w) : r.amount \in Int
        /\ RowSum(KeyRows(q, w)) \in Int
        /\ IsFiniteSet(KeyJobs(q, w)) /\ Cardinality(KeyJobs(q, w)) \in Nat
    BY KeySetsTyped DEF KeySpend
  <1>7. NoKey # q
    BY ConstantsTyped
  <1>8. CASE q = k /\ w = Payer[j]
    <2>1. KeyRows(q, w)' = KeyRows(q, w) \cup {new} /\ new \notin KeyRows(q, w)
      BY <1>1, <1>2, <1>7, <1>8 DEF KeyRows
    <2>2. KeyJobs(q, w)' = KeyJobs(q, w) \cup {j} /\ j \notin KeyJobs(q, w)
      BY <1>3, <1>4, <1>5, <1>8 DEF KeyJobs, Live
    <2>3. RowSum(KeyRows(q, w)') = RowSum(KeyRows(q, w)) + new.amount
      <3>1. new.amount \in Int
        BY <1>2, ConstantsTyped
      <3> QED
        BY <1>6, <2>1, <3>1, RowSumGrows
    <2>4. Cardinality(KeyJobs(q, w)') = Cardinality(KeyJobs(q, w)) + 1
      BY <1>6, <2>2, FS_AddElement
    <2> DEFINE n == Cardinality(KeyJobs(q, w))  m == Cardinality(KeyJobs(q, w)')
               s == RowSum(KeyRows(q, w))  t == RowSum(KeyRows(q, w)')
    <2>5. /\ n \in Nat /\ m = n + 1 /\ s \in Int /\ s = 0 - Charge * n /\ t = s + (0 - Charge)
          /\ Charge \in Nat
      BY <1>2, <1>6, <2>3, <2>4, ConstantsTyped
    <2> HIDE DEF n, m, s, t
    <2>6. Charge * m = Charge * n + Charge /\ Charge * n \in Int
      BY <2>5
    <2>7. t = 0 - Charge * m
      BY <2>5, <2>6
    <2> QED
      BY <2>7 DEF t, m
  <1>9. CASE ~(q = k /\ w = Payer[j])
    <2>1. KeyRows(q, w)' = KeyRows(q, w)
      BY <1>1, <1>2, <1>7, <1>9 DEF KeyRows
    <2>2. KeyJobs(q, w)' = KeyJobs(q, w)
      BY <1>3, <1>4, <1>5, <1>9 DEF KeyJobs, Live
    <2> QED
      BY <1>6, <2>1, <2>2
  <1> QED
    BY <1>8, <1>9

LEMMA KeyRefunded ==
    ASSUME Shape, RowsKnown, KeySpend, NEW j \in Jobs, post_call_refund(j)
    PROVE  KeySpend'
  <1> DEFINE new == Row(Payer[j], "refund", Charge, KeyOf(j), "refund", j)
  <1>0. PICK k \in Keys : k = KeyOf(j)
    BY RowsRefunded
  <1>1. RowsKnown' /\ new \notin rows /\ rows' = rows \cup {new}
    BY RowsRefunded
  <1>2. /\ new.kind = "refund" /\ new.wallet = Payer[j] /\ new.type = "refund"
        /\ new.amount = Charge /\ new.key = k
    BY <1>0 DEF Row
  <1>3. /\ stage[j] = "charged" /\ stage'[j] = "refunded"
        /\ \A i \in Jobs : i # j => stage'[i] = stage[i]
    BY DEF post_call_refund, Shape
  <1> HIDE DEF new
  <1>5. \A i \in Jobs : Live(i) => KeyOf(i)' = KeyOf(i)
    BY <1>1, KeyStays DEF Live
  <1> SUFFICES ASSUME NEW q \in Keys, NEW w \in {"caller", "agent"}
               PROVE  RowSum(KeyRows(q, w)') = 0 - Charge * Cardinality(KeyJobs(q, w)')
    BY DEF KeySpend
  <1>6. /\ RowSum(KeyRows(q, w)) = 0 - Charge * Cardinality(KeyJobs(q, w))
        /\ IsFiniteSet(KeyRows(q, w)) /\ \A r \in KeyRows(q, w) : r.amount \in Int
        /\ RowSum(KeyRows(q, w)) \in Int
        /\ IsFiniteSet(KeyJobs(q, w)) /\ Cardinality(KeyJobs(q, w)) \in Nat
    BY KeySetsTyped DEF KeySpend
  <1>8. CASE q = k /\ w = Payer[j]
    <2>1. KeyRows(q, w)' = KeyRows(q, w) \cup {new} /\ new \notin KeyRows(q, w)
      BY <1>1, <1>2, <1>8 DEF KeyRows
    <2>2. KeyJobs(q, w)' = KeyJobs(q, w) \ {j} /\ j \in KeyJobs(q, w)
      BY <1>0, <1>3, <1>5, <1>8 DEF KeyJobs, Live
    <2>3. RowSum(KeyRows(q, w)') = RowSum(KeyRows(q, w)) + new.amount
      <3>1. new.amount \in Int
        BY <1>2, ConstantsTyped
      <3> QED
        BY <1>6, <2>1, <3>1, RowSumGrows
    <2>4. Cardinality(KeyJobs(q, w)') = Cardinality(KeyJobs(q, w)) - 1
      BY <1>6, <2>2, FS_RemoveElement
    <2> DEFINE n == Cardinality(KeyJobs(q, w))  m == Cardinality(KeyJobs(q, w)')
               s == RowSum(KeyRows(q, w))  t == RowSum(KeyRows(q, w)')
    <2>5. /\ n \in Nat /\ m = n - 1 /\ s \in Int /\ s = 0 - Charge * n /\ t = s + Charge
          /\ Charge \in Nat
      BY <1>2, <1>6, <2>3, <2>4, ConstantsTyped
    <2> HIDE DEF n, m, s, t
    <2>6. Charge * m = Charge * n - Charge /\ Charge * n \in Int
      BY <2>5
    <2>7. t = 0 - Charge * m
      BY <2>5, <2>6
    <2> QED
      BY <2>7 DEF t, m
  <1>9. CASE ~(q = k /\ w = Payer[j])
    <2>1. KeyRows(q, w)' = KeyRows(q, w)
      BY <1>1, <1>2, <1>9 DEF KeyRows
    <2>2. KeyJobs(q, w)' = KeyJobs(q, w)
      BY <1>0, <1>3, <1>5, <1>9 DEF KeyJobs, Live
    <2> QED
      BY <1>6, <2>1, <2>2
  <1> QED
    BY <1>8, <1>9

LEMMA RowsStep ==
    ASSUME Shape, AllPlaced, JobsKept, RowsKnown, KeySpend, Next
    PROVE  RowsKnown' /\ KeySpend'
  <1>1. ASSUME NEW j \in Jobs, NEW k \in Keys, pre_call_charge(j, k)
        PROVE  RowsKnown' /\ KeySpend'
    BY <1>1, RowsCharged, KeyCharged
  <1>2. ASSUME NEW j \in Jobs, post_call_refund(j) PROVE RowsKnown' /\ KeySpend'
    BY <1>2, RowsRefunded, KeyRefunded
  <1>3. ASSUME ~\E j \in Jobs : post_call_refund(j) \/ \E k \in Keys : pre_call_charge(j, k)
        PROVE  RowsKnown' /\ KeySpend'
    BY <1>3, RowsOther, KeyPlain
  <1> QED
    BY <1>1, <1>2, <1>3

-----------------------------------------------------------------------------
(* What the agent earned. *)

EarnedTotal == SumFunction([j \in AgentJobs |-> earned[j]])

SpentTotal == RowSum(SpentRows)

LEMMA AgentJobsFinite == IsFiniteSet(AgentJobs) /\ AgentJobs \subseteq Jobs
  <1>1. AgentJobs \subseteq Jobs
    BY DEF AgentJobs
  <1> QED
    BY <1>1, ConstantsTyped, FS_Subset

LEMMA EarnedTyped ==
    ASSUME Shape
    PROVE  EarnedTotal \in Int
  <1> DEFINE f == [j \in AgentJobs |-> earned[j]]
  <1>1. DOMAIN f = AgentJobs /\ IsFiniteSet(AgentJobs) /\ \A j \in AgentJobs : f[j] \in Int
    BY AgentJobsFinite DEF Shape
  <1> HIDE DEF f
  <1>2. SumFunction(f) = SumFunctionOnSet(f, AgentJobs)
    BY <1>1 DEF SumFunction
  <1>3. SumFunction(f) \in Int
    BY <1>1, <1>2, SumTyped
  <1> QED
    BY <1>3 DEF f, EarnedTotal

LEMMA SpentTyped ==
    ASSUME RowsKnown
    PROVE  /\ IsFiniteSet(SpentRows) /\ \A r \in SpentRows : r.amount \in Int
           /\ SpentTotal \in Int
  <1>1. SpentRows \subseteq rows
    BY DEF SpentRows
  <1>2. IsFiniteSet(SpentRows) /\ \A r \in SpentRows : r.amount \in Int
    BY <1>1, FS_Subset DEF RowsKnown, RowKnown
  <1> QED
    BY <1>2, RowSumTyped DEF SpentTotal

LEMMA EarnedMoves ==
    ASSUME Shape, Shape', NEW j \in Jobs, \A i \in Jobs : i # j => earned'[i] = earned[i]
    PROVE  EarnedTotal' = EarnedTotal + (IF Payee[j] = "agent" THEN earned'[j] - earned[j] ELSE 0)
  <1> DEFINE f == [i \in AgentJobs |-> earned[i]]  g == [i \in AgentJobs |-> earned'[i]]
  <1>1. /\ DOMAIN f = AgentJobs /\ DOMAIN g = AgentJobs /\ IsFiniteSet(AgentJobs)
        /\ \A i \in AgentJobs : f[i] \in Int /\ g[i] \in Int
        /\ \A i \in AgentJobs : i # j => g[i] = f[i]
    BY AgentJobsFinite DEF Shape
  <1>2. EarnedTotal = SumFunction(f) /\ EarnedTotal' = SumFunction(g) /\ EarnedTotal \in Int
    BY EarnedTyped DEF EarnedTotal, AgentJobs
  <1>3. CASE Payee[j] = "agent"
    <2>1. j \in AgentJobs
      BY <1>3 DEF AgentJobs
    <2>2. f[j] = earned[j] /\ g[j] = earned'[j] /\ f[j] \in Int /\ g[j] \in Int
      BY <1>1, <2>1
    <2> HIDE DEF f, g
    <2>3. SumFunction(g) = SumFunction(f) + g[j] - f[j]
      BY <1>1, <2>1, SumChange
    <2> QED
      BY <1>2, <1>3, <2>2, <2>3
  <1>4. CASE Payee[j] # "agent"
    <2>1. j \notin AgentJobs
      BY <1>4 DEF AgentJobs
    <2>2. f = g
      BY <1>1, <2>1
    <2> HIDE DEF f, g
    <2> QED
      BY <1>2, <1>4, <2>2
  <1> QED
    BY <1>3, <1>4

LEMMA EarnedStays ==
    ASSUME earned' = earned
    PROVE  EarnedTotal' = EarnedTotal
  BY DEF EarnedTotal, AgentJobs

\* The rows of the agent's spending after a step.
IsSpent(r) == r.wallet = "agent" /\ r.kind \in {"call", "sweep", "deposit"}

LEMMA SpentStays ==
    ASSUME rows \subseteq rows', \A r \in rows' : r \in rows \/ ~IsSpent(r)
    PROVE  SpentTotal' = SpentTotal
  <1>1. SpentRows' = SpentRows
    BY DEF SpentRows, IsSpent
  <1> QED
    BY <1>1 DEF SpentTotal

LEMMA SpentGrows ==
    ASSUME RowsKnown, NEW r, r \notin rows, r \in rows', rows \subseteq rows',
           IsSpent(r), r.amount \in Int,
           \A q \in rows' : q \in rows \/ q = r \/ ~IsSpent(q)
    PROVE  SpentTotal' = SpentTotal + r.amount
  <1>1. SpentRows' = SpentRows \cup {r} /\ r \notin SpentRows
    BY DEF SpentRows, IsSpent
  <1>2. RowSum(SpentRows \cup {r}) = RowSum(SpentRows) + r.amount
    BY <1>1, SpentTyped, RowSumGrows
  <1> QED
    BY <1>1, <1>2 DEF SpentTotal

LEMMA EarningsMove ==
    ASSUME Shape, Shape', RowsKnown, EarningsThere,
           NEW e \in Int, EarnedTotal' = EarnedTotal + e,
           NEW s \in Int, SpentTotal' = SpentTotal + s,
           balance'["agent"] >= balance["agent"] + e + s
    PROVE  EarningsThere'
  <1>1. /\ EarnedTotal \in Int /\ SpentTotal \in Int
        /\ balance["agent"] \in Int /\ balance'["agent"] \in Int
    BY EarnedTyped, SpentTyped DEF Shape, Names
  <1>2. EarnedTotal <= balance["agent"] - SpentTotal
    BY DEF EarningsThere, EarnedTotal, SpentTotal
  <1>3. EarnedTotal' <= balance'["agent"] - SpentTotal'
    BY <1>1, <1>2
  <1> QED
    BY <1>3 DEF EarningsThere, EarnedTotal, SpentTotal

LEMMA EarningsOfJob ==
    ASSUME Shape, Shape', AllPlaced, JobsKept, RowsKnown, EarningsThere, NEW j \in Jobs,
           \/ \E k \in Keys : pre_call_charge(j, k)
           \/ post_call_refund(j)
           \/ complete_job(j)
           \/ post_call_payout(j)
           \/ release_expired_hold(j)
           \/ \E o \in Outcomes : post_dispute_settlement(j, o)
    PROVE  EarningsThere'
  <1>0. /\ Charge \in Nat /\ Payout \in Nat /\ 0 - Charge \in Int /\ 0 \in Int
        /\ Payer[j] \in Names /\ Payee[j] \in Names /\ Payer[j] # Payee[j]
        /\ balance \in [Names -> Nat] /\ balance["agent"] \in Int /\ "agent" \in Names
        /\ SpentTotal \in Int /\ EarnedTotal \in Int
        /\ SpentTotal + 0 = SpentTotal /\ EarnedTotal + 0 = EarnedTotal
        /\ earned \in [Jobs -> Int]
        /\ Payer[j] # "owner" /\ Payee[j] # "platform"
    BY ConstantsTyped, SidesTyped, SpentTyped, EarnedTyped DEF Shape, Names
  <1>1. ASSUME NEW k \in Keys, pre_call_charge(j, k) PROVE EarningsThere'
    <2> DEFINE new == Row(Payer[j], "charge", 0 - Charge, k, "call", j)
    <2>1. EarnedTotal' = EarnedTotal + 0
      BY <1>0, <1>1, EarnedStays DEF pre_call_charge
    <2>2. PICK top \in Nat :
             /\ balance'[Payer[j]] = balance[Payer[j]] + top - Charge
             /\ \A n \in Names : n \notin {Payer[j], "owner"} => balance'[n] = balance[n]
      BY <1>1, ChargeMoney
    <2>3. /\ new \notin rows /\ new \in rows' /\ rows \subseteq rows'
          /\ \A r \in rows' : r \in rows \/ r = new \/ r.kind = "guarantor"
      BY <1>1, RowsCharged
    <2>4. new.wallet = Payer[j] /\ new.kind = "call" /\ new.amount = 0 - Charge
      BY DEF Row
    <2> HIDE DEF new
    <2>5. CASE Payer[j] = "agent"
      <3>1. SpentTotal' = SpentTotal + new.amount
        BY <1>0, <2>3, <2>4, <2>5, SpentGrows DEF IsSpent
      <3>2. balance'["agent"] >= balance["agent"] + 0 + (0 - Charge)
        BY <1>0, <2>2, <2>5
      <3> QED
        BY <1>0, <2>1, <2>4, <3>1, <3>2, EarningsMove
    <2>6. CASE Payer[j] # "agent"
      <3>1. SpentTotal' = SpentTotal + 0
        BY <1>0, <2>3, <2>4, <2>6, SpentStays DEF IsSpent
      <3>2. balance'["agent"] >= balance["agent"] + 0 + 0
        BY <1>0, <2>2, <2>6
      <3> QED
        BY <1>0, <2>1, <3>1, <3>2, EarningsMove
    <2> QED
      BY <2>5, <2>6
  <1>2. CASE post_call_refund(j)
    <2> DEFINE new == Row(Payer[j], "refund", Charge, KeyOf(j), "refund", j)
    <2>1. EarnedTotal' = EarnedTotal + 0
      BY <1>0, <1>2, EarnedStays DEF post_call_refund
    <2>2. rows' = rows \cup {new} /\ balance' = [balance EXCEPT ![Payer[j]] = @ + Charge]
      BY <1>2 DEF post_call_refund
    <2>3. new.kind = "refund"
      BY DEF Row
    <2> HIDE DEF new
    <2>4. SpentTotal' = SpentTotal + 0
      BY <1>0, <2>2, <2>3, SpentStays DEF IsSpent
    <2>5. balance'["agent"] >= balance["agent"] + 0 + 0
      BY <1>0, <2>2
    <2> QED
      BY <1>0, <2>1, <2>4, <2>5, EarningsMove
  <1>3. CASE complete_job(j) \/ release_expired_hold(j)
    <2>1. UNCHANGED <<balance, rows, earned>>
      BY <1>3 DEF complete_job, release_expired_hold, moneyVars
    <2> QED
      BY <2>1 DEF EarningsThere, SpentRows, AgentJobs
  <1>4. CASE post_call_payout(j)
    <2>1. earned' = [earned EXCEPT ![j] = @ + Payout] /\ rows' = rows
      BY <1>4 DEF post_call_payout
    <2>2. earned'[j] = earned[j] + Payout /\ \A i \in Jobs : i # j => earned'[i] = earned[i]
      BY <1>0, <2>1
    <2>3. EarnedTotal' = EarnedTotal + (IF Payee[j] = "agent" THEN Payout ELSE 0)
      <3>1. earned'[j] - earned[j] = Payout
        BY <1>0, <2>2
      <3> QED
        BY <2>2, <3>1, EarnedMoves
    <2>4. SpentTotal' = SpentTotal + 0
      BY <1>0, <2>1, SpentStays
    <2>5. /\ balance'[Payee[j]] = balance[Payee[j]] + Payout
          /\ \A n \in Names : n \notin {Payee[j], "platform"} => balance'[n] = balance[n]
      BY <1>4, PayoutMoney
    <2>6. balance'["agent"] >= balance["agent"] + (IF Payee[j] = "agent" THEN Payout ELSE 0) + 0
      BY <1>0, <2>5
    <2>7. (IF Payee[j] = "agent" THEN Payout ELSE 0) \in Int
      BY <1>0
    <2> QED
      BY <1>0, <2>3, <2>4, <2>6, <2>7, EarningsMove
  <1>5. ASSUME NEW o \in Outcomes, post_dispute_settlement(j, o) PROVE EarningsThere'
    <2> DEFINE gain == IF o = "agent_wins" THEN Payout ELSE 0
               c == CallerShare(j, o)  h == Home(j, o)
    <2>1. earned' = [earned EXCEPT ![j] = @ + gain]
      BY <1>5 DEF post_dispute_settlement
    <2>2. gain \in Nat
      BY <1>0
    <2>3. /\ rows \subseteq rows' /\ \A r \in rows' : r \in rows \/ r.kind = "ruling"
      <3>1. \A r \in rows' : r \in rows \/ r.kind = "ruling"
        BY <1>5, RowsRuled
      <3>2. rows \subseteq rows'
        BY <1>5 DEF post_dispute_settlement
      <3> QED
        BY <3>1, <3>2
    <2>4. SpentTotal' = SpentTotal + 0
      BY <1>0, <2>3, SpentStays DEF IsSpent
    <2>5. /\ c \in Nat /\ deposited[j] \in Nat
          /\ balance' = [n \in Names |->
                 balance[n]
                 + (IF n = Payer[j] THEN c ELSE 0)
                 + (IF n = Payee[j] /\ o = "agent_wins" THEN Payout ELSE 0)
                 + (IF n = "platform" /\ o = "agent_wins" THEN Fee ELSE 0)
                 + (IF n = h THEN deposited[j] ELSE 0)]
      BY <1>5, RulingMoney, ConstantsTyped DEF Shape
    <2> HIDE DEF c, h
    <2>6. balance'["agent"] >= balance["agent"] + (IF Payee[j] = "agent" THEN gain ELSE 0) + 0
      <3>1. balance'["agent"] = balance["agent"]
                 + (IF "agent" = Payer[j] THEN c ELSE 0)
                 + (IF Payee[j] = "agent" THEN gain ELSE 0)
                 + 0
                 + (IF "agent" = h THEN deposited[j] ELSE 0)
        BY <1>0, <2>5
      <3>2. \A x \in {0, c, gain, deposited[j]} : x \in Nat
        BY <2>2, <2>5
      <3> HIDE DEF gain
      <3> QED
        BY <1>0, <3>1, <3>2
    <2> HIDE DEF gain
    <2>7. earned'[j] = earned[j] + gain /\ \A i \in Jobs : i # j => earned'[i] = earned[i]
      BY <1>0, <2>1
    <2>8. EarnedTotal' = EarnedTotal + (IF Payee[j] = "agent" THEN gain ELSE 0)
      <3>1. earned'[j] - earned[j] = gain
        BY <1>0, <2>2, <2>7
      <3> QED
        BY <2>7, <3>1, EarnedMoves
    <2>9. (IF Payee[j] = "agent" THEN gain ELSE 0) \in Int
      BY <2>2
    <2> QED
      BY <1>0, <2>4, <2>6, <2>8, <2>9, EarningsMove
  <1> QED
    BY <1>1, <1>2, <1>3, <1>4, <1>5

LEMMA EarningsOfClient ==
    ASSUME Shape, Shape', AllPlaced, JobsKept, RowsKnown, EarningsThere, NEW p \in Clients,
           \/ \E j \in Jobs : RateRead(p, j) \/ DisputeRead(p, j)
           \/ RateRecord(p)
           \/ \E pct \in CurvePct : RateClaw(p, pct)
           \/ \E side \in Sides : DisputeFile(p, side)
    PROVE  EarningsThere'
  <1>0. /\ Payout \in Nat /\ FilingDeposit \in Nat /\ 0 \in Int /\ "agent" \in Names
        /\ balance \in [Names -> Nat] /\ balance["agent"] \in Int
        /\ SpentTotal \in Int /\ EarnedTotal \in Int
        /\ SpentTotal + 0 = SpentTotal /\ EarnedTotal + 0 = EarnedTotal
        /\ earned \in [Jobs -> Int]
    BY ConstantsTyped, SpentTyped, EarnedTyped DEF Shape, Names
  <1>1. ASSUME UNCHANGED moneyVars PROVE EarningsThere'
    BY <1>1 DEF EarningsThere, SpentRows, AgentJobs, moneyVars
  <1>2. ASSUME (\E j \in Jobs : RateRead(p, j) \/ DisputeRead(p, j)) \/ RateRecord(p)
        PROVE  EarningsThere'
    BY <1>1, <1>2 DEF RateRead, DisputeRead, RateRecord
  <1>3. ASSUME NEW pct \in CurvePct, RateClaw(p, pct) PROVE EarningsThere'
    <2> DEFINE cents == compute_clawback_cents(pct)
    <2>1. PICK j \in Jobs : j = loc[p].job
      BY <1>3, ClientsAreProcs DEF RateClaw, AllPlaced, Placed
    <2>2. CASE /\ balance[Payee[j]] >= cents /\ apply_curve_clawback(j, cents)
               /\ rows' = rows \cup ClawbackRows(j, cents)
               /\ earned' = [earned EXCEPT ![j] = @ - cents]
      <3> DEFINE e == IF Payee[j] = "agent" THEN 0 - cents ELSE 0
      <3>1. cents \in Nat /\ Payee[j] # Payer[j]
        BY ClawbackCents, SidesTyped
      <3>2. /\ balance'[Payee[j]] = balance[Payee[j]] - cents
            /\ balance'[Payer[j]] = balance[Payer[j]] + cents
            /\ \A n \in Names : n \notin {Payee[j], Payer[j]} => balance'[n] = balance[n]
        BY <2>2, <3>1, ClawbackMoney
      <3>3. \A r \in rows' : r \in rows \/ r.kind = "clawback"
        BY <1>3, RowsClawed
      <3>4. SpentTotal' = SpentTotal + 0
        BY <1>0, <2>2, <3>3, SpentStays DEF IsSpent
      <3> HIDE DEF cents
      <3>5. earned'[j] = earned[j] - cents /\ \A i \in Jobs : i # j => earned'[i] = earned[i]
        BY <1>0, <2>2
      <3>6. EarnedTotal' = EarnedTotal + e
        <4>1. earned'[j] - earned[j] = 0 - cents
          BY <1>0, <3>1, <3>5
        <4> QED
          BY <3>5, <4>1, EarnedMoves
      <3>7. e \in Int
        BY <3>1
      <3>8. balance'["agent"] >= balance["agent"] + e + 0
        BY <1>0, <3>1, <3>2
      <3> HIDE DEF e
      <3> QED
        BY <1>0, <3>4, <3>6, <3>7, <3>8, EarningsMove
    <2> QED
      BY <1>1, <1>3, <2>1, <2>2, ClawEffect
  <1>4. ASSUME NEW side \in Sides, DisputeFile(p, side) PROVE EarningsThere'
    <2>1. PICK j \in Jobs : j = loc[p].job
      BY <1>4, ClientsAreProcs DEF DisputeFile, AllPlaced, Placed
    <2>2. CASE ~UNCHANGED <<moneyVars, holdVars, disputeVars>>
      <3> DEFINE f == Filer(j, side)
                 new == Row(f, "charge", 0 - FilingDeposit, NoKey, "deposit", j)
                 pay == IF stage[j] = "settled" THEN Payout ELSE 0
                 e == IF Payee[j] = "agent" THEN 0 - pay ELSE 0
                 s == IF f = "agent" THEN 0 - FilingDeposit ELSE 0
      <3>1. /\ new \notin rows /\ new \in rows' /\ rows \subseteq rows'
            /\ \A r \in rows' : r \in rows \/ r = new \/ r.kind = "lock"
        BY <1>4, <2>1, <2>2, RowsFiled
      <3>2. new.wallet = f /\ new.kind = "deposit" /\ new.amount = 0 - FilingDeposit
        BY DEF Row
      <3>3. /\ balance'[f] = balance[f] - FilingDeposit
            /\ balance'[Payee[j]] = balance[Payee[j]] - pay
            /\ \A n \in Names : n \notin {f, Payee[j], "platform"} => balance'[n] = balance[n]
        BY <1>4, <2>1, <2>2, FileEffect, FileMoney
      <3>4. f # Payee[j] /\ f # "platform" /\ Payee[j] # "platform"
        BY SidesTyped
      <3>5. pay \in Nat /\ 0 - FilingDeposit \in Int
        BY <1>0
      <3>6. /\ stage[j] = "settled" => earned' = [earned EXCEPT ![j] = @ - Payout]
            /\ stage[j] # "settled" => earned' = earned
        BY <1>4, <2>1, <2>2, FileEffect
      <3>7. earned'[j] = earned[j] - pay /\ \A i \in Jobs : i # j => earned'[i] = earned[i]
        BY <1>0, <3>6
      <3> HIDE DEF f, new, pay
      <3>8. EarnedTotal' = EarnedTotal + e
        <4>1. earned'[j] - earned[j] = 0 - pay
          BY <1>0, <3>5, <3>7
        <4> QED
          BY <3>7, <4>1, EarnedMoves
      <3>9. SpentTotal' = SpentTotal + s
        <4>1. CASE f = "agent"
          <5>1. SpentTotal' = SpentTotal + new.amount
            BY <3>1, <3>2, <3>5, <4>1, SpentGrows DEF IsSpent
          <5> QED
            BY <3>2, <4>1, <5>1
        <4>2. CASE f # "agent"
          <5>1. SpentTotal' = SpentTotal
            BY <3>1, <3>2, <4>2, SpentStays DEF IsSpent
          <5> QED
            BY <1>0, <4>2, <5>1
        <4> QED
          BY <4>1, <4>2
      <3>10. e \in Int /\ s \in Int
        BY <3>5
      <3>11. balance'["agent"] >= balance["agent"] + e + s
        BY <1>0, <3>3, <3>4, <3>5
      <3> HIDE DEF e, s
      <3> QED
        BY <3>8, <3>9, <3>10, <3>11, EarningsMove
    <2> QED
      BY <1>1, <2>2
  <1> QED
    BY <1>2, <1>3, <1>4

LEMMA EarningsOfOwner ==
    ASSUME Shape, Shape', RowsKnown, EarningsThere,
           \/ Tick
           \/ set_wallet_session_budget
           \/ \E a \in Amounts : sweep_to_parent(a)
           \/ \E p \in Withdrawals :
                 \/ \E a \in Amounts : WithdrawRead(p, a)
                 \/ WithdrawDebit(p)
                 \/ WithdrawTransfer(p)
    PROVE  EarningsThere'
  <1>0. balance \in [Names -> Nat] /\ "agent" \in Names /\ "owner" \in Names
        /\ EarnedTotal \in Int
    BY EarnedTyped DEF Shape, Names
  <1>1. ASSUME NEW a \in Amounts, sweep_to_parent(a) PROVE EarningsThere'
    <2> DEFINE new == Row("agent", "charge", 0 - a, NoKey, "sweep", Cardinality(rows))
    <2>1. a \in Nat /\ 0 - a \in Int
      BY ConstantsTyped
    <2>2. new \notin rows /\ rows' = rows \cup {new}
      BY <1>1, RowsSwept
    <2>3. new.wallet = "agent" /\ new.kind = "sweep" /\ new.amount = 0 - a
      BY DEF Row
    <2> HIDE DEF new
    <2>4. SpentTotal' = SpentTotal + new.amount
      BY <2>1, <2>2, <2>3, SpentGrows DEF IsSpent
    <2>5. EarnedTotal' = EarnedTotal + 0
      BY <1>0, <1>1, EarnedStays DEF sweep_to_parent
    <2>6. balance' = [balance EXCEPT !["agent"] = @ - a, !["owner"] = @ + a]
      BY <1>1 DEF sweep_to_parent
    <2>7. balance'["agent"] >= balance["agent"] + 0 + (0 - a)
      BY <1>0, <2>1, <2>6
    <2> QED
      BY <2>1, <2>3, <2>4, <2>5, <2>7, EarningsMove
  <1>2. ASSUME ~\E a \in Amounts : sweep_to_parent(a) PROVE EarningsThere'
    <2>1. /\ UNCHANGED <<rows, earned>>
          /\ \/ UNCHANGED balance
             \/ \E x : balance' = [balance EXCEPT !["owner"] = x]
      BY <1>2 DEF Tick, set_wallet_session_budget, WithdrawRead, WithdrawDebit,
                  WithdrawTransfer, moneyVars
    <2>2. balance'["agent"] = balance["agent"]
      BY <1>0, <2>1
    <2> QED
      BY <2>1, <2>2 DEF EarningsThere, SpentRows, AgentJobs
  <1> QED
    BY <1>1, <1>2

LEMMA EarningsStep ==
    ASSUME Shape, AllPlaced, JobsKept, RowsKnown, EarningsThere, Next
    PROVE  EarningsThere'
  <1>1. Shape'
    BY ShapeStep
  <1> QED
    BY <1>1, EarningsOfJob, EarningsOfClient, EarningsOfOwner DEF Next

-----------------------------------------------------------------------------
(* The invariant. *)

-----------------------------------------------------------------------------
(* The invariant. *)

LEMMA InitHolds ==
    ASSUME Init
    PROVE  IInv
  <1>0. PICK order \in Orders :
           /\ stage = [j \in Jobs |-> IF j \in order THEN "none" ELSE "unordered"]
           /\ balance = Funds[order]
    BY DEF Init
  <1>1. /\ order \subseteq Jobs /\ Funds[order] \in [Names -> Nat]
        /\ MaxNow \in Nat /\ FilingDeposit \in Nat /\ Charge \in Nat
    BY WalletsAssumption, ConstantsTyped
  <1>2. \A j \in Jobs : stage[j] \in {"none", "unordered"}
    BY <1>0
  <1>3. Shape
    <2>1. /\ now \in 0 .. MaxNow /\ sessionAt \in 0 .. MaxNow
          /\ balance \in [Names -> Nat] /\ held \in [Names -> Int]
      BY <1>0, <1>1 DEF Init
    <2>2. /\ stage \in [Jobs -> Stages] /\ completedAt \in [Jobs -> Int]
          /\ hold \in [Jobs -> HoldStates] /\ holdUntil \in [Jobs -> Int]
          /\ rated \in [Jobs -> BOOLEAN]
      BY <1>0 DEF Init, Stages, HoldStates, Never
    <2>3. /\ clawback \in [Jobs -> {"none", "applied", "underflow"}]
          /\ dispute \in [Jobs -> {"none", "caller", "agent", "closed"}]
          /\ locked \in [Jobs -> {0, Charge}] /\ deposited \in [Jobs -> {0, FilingDeposit}]
          /\ sent \in Sent /\ earned \in [Jobs -> Int]
      BY DEF Init, Sent
    <2>4. pc \in [Procs -> Labels]
      BY DEF Init, Labels
    <2>5. loc \in [Procs -> Locals]
      <3>1. NoLoc \in Locals
        BY DEF NoLoc, Locals
      <3> QED
        BY <3>1 DEF Init
    <2> QED
      BY <2>1, <2>2, <2>3, <2>4, <2>5 DEF Shape
  <1>4. AllPlaced
    BY DEF Init, AllPlaced, Placed
  <1>5. JobsKept
    <2> SUFFICES ASSUME NEW j \in Jobs PROVE Locked(j) /\ Earned(j) /\ Held(j)
      BY DEF JobsKept
    <2>1. /\ dispute[j] = "none" /\ locked[j] = 0 /\ deposited[j] = 0 /\ clawback[j] = "none"
          /\ earned[j] = 0 /\ hold[j] = "none" /\ stage[j] \in {"none", "unordered"}
      BY <1>2 DEF Init
    <2> QED
      BY <2>1 DEF Locked, Earned, Held, Completed, Sides
  <1>6. RowsKnown
    BY <1>2, FS_EmptySet DEF Init, RowsKnown
  <1>7. HeldMatchesHolds
    <2> SUFFICES ASSUME NEW w \in Names
                 PROVE  held[w] = Cardinality({j \in Active : Payee[j] = w}) * compute_hold_cents
      BY DEF HeldMatchesHolds
    <2>1. {j \in Active : Payee[j] = w} = {}
      BY DEF Init, Active
    <2>2. Cardinality({j \in Active : Payee[j] = w}) = 0
      BY <2>1, FS_EmptySet, Zenon
    <2>3. held[w] = 0
      BY DEF Init
    <2> QED
      BY <2>2, <2>3, HoldCents
  <1>8. CentsConserved
    <2>1. Ordered = order
      BY <1>0, <1>1 DEF Ordered
    <2>2. BalanceTotal = SumFunction(Funds[Ordered]) /\ BalanceTotal \in Int
      BY <1>0, <1>3, <2>1, TotalsTyped DEF BalanceTotal
    <2>3. StakeTotal = 0
      <3> DEFINE f == [j \in Jobs |-> Stake(j)]
      <3>1. ASSUME NEW j \in Jobs PROVE Stake(j) = 0
        BY <1>2 DEF Stake, Undistributed, Init
      <3>2. DOMAIN f = Jobs /\ (\A j \in Jobs : f[j] = 0) /\ IsFiniteSet(Jobs)
        BY <3>1, ConstantsTyped
      <3> HIDE DEF f
      <3>3. SumFunction(f) = 0
        BY <3>2, ZeroSum
      <3> QED
        BY <3>3 DEF f, StakeTotal
    <2>4. TransferTotal = 0
      <3> DEFINE f == [p \in Withdrawals |-> InTransfer(p)]
      <3>1. ASSUME NEW p \in Withdrawals PROVE InTransfer(p) = 0
        BY ClientsAreProcs DEF InTransfer, Init
      <3>2. DOMAIN f = Withdrawals /\ (\A p \in Withdrawals : f[p] = 0)
            /\ IsFiniteSet(Withdrawals)
        BY <3>1, ConstantsTyped
      <3> HIDE DEF f
      <3>3. SumFunction(f) = 0
        BY <3>2, ZeroSum
      <3> QED
        BY <3>3 DEF f, TransferTotal
    <2>5. Withdrawn = 0
      BY DEF Init, Withdrawn
    <2>6. BalanceTotal + Withdrawn + StakeTotal + TransferTotal = SumFunction(Funds[Ordered])
      BY <2>2, <2>3, <2>4, <2>5
    <2> QED
      BY <2>6 DEF CentsConserved, BalanceTotal, StakeTotal, TransferTotal, Stake, Ordered
  <1>9. \A S : S = {} => RowSum(S) = 0
    <2> SUFFICES ASSUME NEW S, S = {} PROVE RowSum(S) = 0
      OBVIOUS
    <2> DEFINE f == [q \in S |-> q.amount]
    <2>1. DOMAIN f = S /\ (\A x \in S : f[x] = 0)
      OBVIOUS
    <2>2. IsFiniteSet(S)
      BY FS_EmptySet, Zenon
    <2>3. RowSum(S) = SumFunction(f)
      BY DEF RowSum
    <2> HIDE DEF f
    <2> QED
      BY <2>1, <2>2, <2>3, ZeroSum
  <1>10. KeySpend
    <2> SUFFICES ASSUME NEW k \in Keys, NEW w \in {"caller", "agent"}
                 PROVE  RowSum(KeyRows(k, w)) = 0 - Charge * Cardinality(KeyJobs(k, w))
      BY DEF KeySpend
    <2>1. KeyRows(k, w) = {} /\ KeyJobs(k, w) = {}
      BY <1>2 DEF KeyRows, KeyJobs, Init
    <2>2. RowSum(KeyRows(k, w)) = 0
      BY <1>9, <2>1
    <2>3. Cardinality(KeyJobs(k, w)) = 0
      BY <2>1, FS_EmptySet, Zenon
    <2>4. 0 - Charge * 0 = 0
      BY <1>1
    <2> QED
      BY <2>2, <2>3, <2>4
  <1>11. EarningsThere
    <2>1. SpentRows = {}
      BY DEF SpentRows, Init
    <2>2. RowSum(SpentRows) = 0
      BY <1>9, <2>1
    <2>3. EarnedTotal = 0
      <3> DEFINE f == [j \in AgentJobs |-> earned[j]]
      <3>1. DOMAIN f = AgentJobs /\ (\A j \in AgentJobs : f[j] = 0) /\ IsFiniteSet(AgentJobs)
        BY AgentJobsFinite DEF Init
      <3> HIDE DEF f
      <3>2. SumFunction(f) = 0
        BY <3>1, ZeroSum
      <3> QED
        BY <3>2 DEF f, EarnedTotal
    <2>4. balance["agent"] \in Nat
      BY <1>3 DEF Shape, Names
    <2> QED
      BY <2>2, <2>3, <2>4 DEF EarningsThere, EarnedTotal
  <1> QED
    BY <1>3, <1>4, <1>5, <1>6, <1>7, <1>8, <1>10, <1>11 DEF IInv

LEMMA StepHolds ==
    ASSUME IInv, [Next]_vars
    PROVE  IInv'
  <1>1. CASE Next
    <2>1. Shape' /\ AllPlaced' /\ JobsKept' /\ RowsKnown'
      BY <1>1, ShapeStep, AllPlacedStep, JobsKeptStep, RowsStep DEF IInv
    <2>2. HeldMatchesHolds' /\ CentsConserved' /\ KeySpend' /\ EarningsThere'
      BY <1>1, HeldStep, CentsStep, RowsStep, EarningsStep DEF IInv
    <2> QED
      BY <2>1, <2>2 DEF IInv
  <1>2. CASE UNCHANGED vars
    <2>1. UNCHANGED <<now, balance, held, rows, sessionAt, stage, completedAt, hold, holdUntil,
                      rated, clawback, dispute, locked, deposited, sent, earned, pc, loc>>
      BY <1>2 DEF vars, moneyVars, holdVars, jobVars, ratingVars, disputeVars
    <2>2. Shape' /\ AllPlaced'
      BY <2>1 DEF IInv, Shape, AllPlaced, Placed, Completed
    <2>3. JobsKept'
      BY <2>1 DEF IInv, JobsKept, Locked, Earned, Held, Completed
    <2>4. RowsKnown'
      BY <2>1 DEF IInv, RowsKnown, RowKnown
    <2>5. HeldMatchesHolds' /\ CentsConserved'
      BY <2>1 DEF IInv, HeldMatchesHolds, Active, CentsConserved, Withdrawn, Undistributed, InTransfer
    <2>6. KeySpend' /\ EarningsThere'
      <3>1. \A k \in Keys, w \in {"caller", "agent"} : KeyRows(k, w)' = KeyRows(k, w)
        BY <2>1 DEF KeyRows
      <3>2. \A k \in Keys, w \in {"caller", "agent"} : KeyJobs(k, w)' = KeyJobs(k, w)
        BY <2>1 DEF KeyJobs, KeyOf
      <3>3. SpentRows' = SpentRows
        BY <2>1 DEF SpentRows
      <3>4. KeySpend'
        BY <3>1, <3>2 DEF IInv, KeySpend
      <3> QED
        BY <2>1, <3>3, <3>4 DEF IInv, EarningsThere, AgentJobs
    <2> QED
      BY <2>2, <2>3, <2>4, <2>5, <2>6 DEF IInv
  <1> QED
    BY <1>1, <1>2

LEMMA IInvAlways == Spec => []IInv
  <1>1. Init => IInv
    BY InitHolds
  <1>2. IInv /\ [Next]_vars => IInv'
    BY StepHolds
  <1> QED
    BY <1>1, <1>2, PTL DEF Spec

-----------------------------------------------------------------------------
(* The theorems. *)

\* Every balance, held balance, escrow and timestamp keeps its type: in particular
\* no wallet is ever overdrawn and no hold is released that was not created.
THEOREM TypeCorrect == Spec => []TypeOK
  <1>1. ASSUME IInv PROVE TypeOK
    <2>1. held \in [Names -> Nat]
      <3>1. held \in [Names -> Int]
        BY <1>1 DEF IInv, Shape
      <3>2. ASSUME NEW w \in Names PROVE held[w] \in Nat
        <4> DEFINE n == Cardinality(HoldsOf(w))  c == compute_hold_cents
        <4>1. held[w] = n * c /\ n \in Nat /\ c \in Nat
          BY <1>1, HoldsFinite, HoldCents DEF IInv, HeldMatchesHolds, HoldsOf
        <4> HIDE DEF n, c
        <4> QED
          BY <4>1
      <3> QED
        BY <3>1, <3>2
    <2>2. Shape
      BY <1>1 DEF IInv
    <2> QED
      BY <2>1, <2>2 DEF TypeOK, Shape, HoldStates, Sent, Locals
  <1>2. IInv => TypeOK
    BY <1>1
  <1> QED
    BY <1>2, IInvAlways, PTL

\* The cached held_cents of a wallet is the sum of its active holds, however the
\* rating, the dispute and the sweeper that end them fall.
THEOREM HeldMatchesHoldsAlways == Spec => []HeldMatchesHolds
  <1>1. IInv => HeldMatchesHolds
    BY DEF IInv
  <1> QED
    BY <1>1, IInvAlways, PTL

\* While a settled job can still be disputed its payout is held or was clawed back.
THEOREM OpenWindowIsHeldAlways == Spec => []OpenWindowIsHeld
  <1>1. ASSUME IInv, NEW j \in Jobs \ Unheld, stage[j] = "settled", dispute[j] = "none",
               now <= Deadline(j), compute_hold_cents # 0
        PROVE  hold[j] \notin {"none", "released"}
    <2>1. /\ Held(j) /\ completedAt[j] \in Int /\ now \in Int /\ Window \in Int
          /\ FileWindow \in Int
      BY <1>1, JobTyped, ConstantsTyped DEF IInv, JobsKept
    <2>2. hold[j] # "none" /\ (hold[j] = "released" => completedAt[j] + Window < now)
      BY <1>1, <2>1 DEF Held, Keepless
    <2>3. Deadline(j) <= completedAt[j] + Window /\ Deadline(j) \in Int
      BY <2>1, DeadlineBefore
    <2> QED
      BY <1>1, <2>1, <2>2, <2>3
  <1>2. IInv => OpenWindowIsHeld
    BY <1>1 DEF OpenWindowIsHeld
  <1> QED
    BY <1>2, IInvAlways, PTL

\* A job takes more from its agent than it brought only when it was rated and
\* disputed at once.
THEOREM AgentLosesOnceAlways == Spec => []AgentLosesOnce
  <1>1. ASSUME IInv, NEW j \in Jobs, earned[j] < 0 PROVE rated[j] /\ dispute[j] # "none"
    <2>1. Earned(j) /\ earned[j] \in Int /\ Payout \in Nat
      BY <1>1, JobTyped, ConstantsTyped DEF IInv, JobsKept
    <2>2. stage[j] = "settled" /\ dispute[j] # "none" /\ clawback[j] = "applied"
      BY <1>1, <2>1 DEF Earned
    <2> QED
      BY <2>1, <2>2 DEF Earned
  <1>2. IInv => AgentLosesOnce
    BY <1>1 DEF AgentLosesOnce
  <1> QED
    BY <1>2, IInvAlways, PTL

\* Charges, refunds, payouts, clawbacks, rulings, sweeps and withdrawals move cents
\* and neither make nor lose any.
THEOREM CentsConservedAlways == Spec => []CentsConserved
  <1>1. IInv => CentsConserved
    BY DEF IInv
  <1> QED
    BY <1>1, IInvAlways, PTL

\* The spend that the cap of a key is compared with is the price of its charges that
\* were not refunded.
THEOREM KeySpendExactAlways == Spec => []KeySpendExact
  <1>1. ASSUME IInv, NEW k \in Keys, NEW w \in {"caller", "agent"}
        PROVE  NetSpent(w, {r \in rows : r.key = k}) = Charge * Cardinality(KeyJobs(k, w))
    <2> DEFINE S == {r \in {q \in rows : q.key = k} : /\ r.wallet = w
                                                      /\ r.type \in {"charge", "refund"}}
               n == Cardinality(KeyJobs(k, w))  s == RowSum(KeyRows(k, w))
    <2>1. S = KeyRows(k, w)
      BY DEF KeyRows
    <2>2. n \in Nat /\ Charge \in Nat /\ s = 0 - Charge * n
      BY <1>1, KeySetsTyped, ConstantsTyped DEF IInv, KeySpend
    <2>3. NetSpent(w, {r \in rows : r.key = k}) = IF 0 - s < 0 THEN 0 ELSE 0 - s
      BY <2>1 DEF NetSpent
    <2> HIDE DEF n, s
    <2>4. Charge * n \in Nat
      BY <2>2
    <2>5. NetSpent(w, {r \in rows : r.key = k}) = Charge * n
      BY <2>2, <2>3, <2>4
    <2> QED
      BY <2>5 DEF n
  <1>2. IInv => KeySpendExact
    BY <1>1 DEF KeySpendExact, KeyJobs
  <1> QED
    BY <1>2, IInvAlways, PTL

\* Held cents are in the agent's balance, but for what it or its owner spent and what
\* a job that was clawed back and disputed at once took twice.
THEOREM HoldsBackedAlways == Spec => []HoldsBackedUnlessSpent
  <1>1. ASSUME IInv PROVE HoldsBackedUnlessSpent
    <2> DEFINE f == [j \in AgentJobs |-> earned[j]]  g == [j \in AgentJobs |-> Overdrawn(j)]
               c == compute_hold_cents  A == HoldsOf("agent")
    <2>1. /\ Shape /\ JobsKept /\ RowsKnown /\ HeldMatchesHolds /\ EarningsThere
          /\ c \in Nat /\ c <= Payout /\ Payout \in Nat /\ IsFiniteSet(AgentJobs)
      BY <1>1, HoldCents, ConstantsTyped, AgentJobsFinite DEF IInv
    <2>2. ASSUME NEW j \in AgentJobs
          PROVE  /\ f[j] \in Int /\ g[j] \in Int /\ f[j] + g[j] >= 0
                 /\ j \in A => f[j] + g[j] >= c
      <3>1. earned[j] \in Int /\ j \in Jobs
        BY <2>1, AgentJobsFinite DEF Shape
      <3>2. f[j] = earned[j] /\ g[j] = IF earned[j] < 0 THEN 0 - earned[j] ELSE 0
        BY DEF Overdrawn
      <3>3. ASSUME j \in A PROVE earned[j] >= Payout
        <4>1. hold[j] = "active" /\ Held(j) /\ Earned(j)
          BY <2>1, <3>1, <3>3 DEF HoldsOf, Active, JobsKept
        <4>2. stage[j] = "settled" /\ dispute[j] = "none" /\ clawback[j] # "applied"
          BY <4>1 DEF Held
        <4> QED
          BY <2>1, <3>1, <4>1, <4>2 DEF Earned
      <3> HIDE DEF f, g, c, A
      <3> QED
        BY <2>1, <3>1, <3>2, <3>3
    <2>3. A \in SUBSET AgentJobs
      BY DEF HoldsOf, Active, AgentJobs
    <2>4. held["agent"] = Cardinality(A) * c
      BY <2>1 DEF HeldMatchesHolds, HoldsOf, Names
    <2>5. /\ SumFunction(f) = SumFunctionOnSet(f, AgentJobs)
          /\ SumFunction(g) = SumFunctionOnSet(g, AgentJobs)
      BY DEF SumFunction
    <2>6. SumFunction(f) <= balance["agent"] - RowSum(SpentRows)
      BY <2>1 DEF EarningsThere
    <2>7. balance["agent"] \in Int /\ RowSum(SpentRows) \in Int
      BY <2>1, SpentTyped DEF Shape, Names, SpentTotal
    <2> HIDE DEF f, g, A, c
    <2>8. Cardinality(A) * c <= SumFunctionOnSet(f, AgentJobs) + SumFunctionOnSet(g, AgentJobs)
      BY <2>1, <2>2, <2>3, SumBound
    <2>9. SumFunction(f) \in Int /\ SumFunction(g) \in Int
      <3>1. (\A x \in AgentJobs : f[x] \in Int) /\ (\A x \in AgentJobs : g[x] \in Int)
        BY <2>2
      <3> QED
        BY <2>1, <2>5, <3>1, SumTyped
    <2>10. Cardinality(A) * c \in Int
      <3>1. Cardinality(A) \in Nat
        BY HoldsFinite DEF A
      <3> QED
        BY <2>1, <3>1
    <2> DEFINE h == held["agent"]  b == balance["agent"]  s == RowSum(SpentRows)
               u == SumFunction(f)  v == SumFunction(g)
    <2>11. h \in Int /\ h <= u + v /\ u <= b - s /\ u \in Int /\ v \in Int /\ b \in Int /\ s \in Int
      BY <2>4, <2>5, <2>6, <2>7, <2>8, <2>9, <2>10
    <2> HIDE DEF h, b, s, u, v
    <2>12. h <= b - s + v
      BY <2>11
    <2> QED
      BY <2>12 DEF h, b, s, v, g, HoldsBackedUnlessSpent, SpentRows, AgentJobs
  <1>2. IInv => HoldsBackedUnlessSpent
    BY <1>1
  <1> QED
    BY <1>2, IInvAlways, PTL
=============================================================================
