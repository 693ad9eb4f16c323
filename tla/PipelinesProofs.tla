----------------------------- MODULE PipelinesProofs -----------------------------
(* Kahn's algorithm on every graph, and what a run keeps for every number of *)
(* nodes, funds and faults.                                                  *)
EXTENDS Pipelines, SequenceTheorems, FiniteSetTheorems, WellFoundedInduction, TLAPS

-----------------------------------------------------------------------------
(* What the proofs are about. *)

\* The elements of a sequence.
Placed(s) == {s[i] : i \in 1 .. Len(s)}

Distinct(s) == \A i, j \in 1 .. Len(s) : s[i] = s[j] => i = j

\* Behind every node of the sequence comes no dependency of it.
Ranked(s) == \A i \in 1 .. Len(s) : \A d \in deps[s[i]] : \E j \in 1 .. i - 1 : s[j] = d

\* What holds after every round of the queue: indegree counts the dependencies
\* that are not ordered, and what has none left is ordered or queued, once.
Kahn(st) ==
    /\ st.queue \in Seq(Nodes) /\ st.ordered \in Seq(Nodes)
    /\ Distinct(st.queue) /\ Distinct(st.ordered)
    /\ Placed(st.queue) \cap Placed(st.ordered) = {}
    /\ st.indegree = [m \in Nodes |-> Cardinality(deps[m] \ Placed(st.ordered))]
    /\ Placed(st.queue) \cup Placed(st.ordered)
         = {m \in Nodes : deps[m] \subseteq Placed(st.ordered)}
    /\ Ranked(st.ordered)

\* The sequence of a run: every node once, behind its dependencies.
Proper(s) == Len(s) = N /\ Placed(s) = Nodes /\ Distinct(s) /\ Ranked(s)

InStep == {"create", "fetch", "complete", "payout", "settle", "price", "record",
           "fail", "refund", "close"}

\* Where a run is.
RunKept ==
    /\ pc = "start" <=> run = "new"
    /\ run \in {"new", "rejected"} => at = 1 /\ order = << >>
    /\ run = "rejected" => pc = "done"
    /\ run # "new" => (run = "rejected" <=> Cyclic)
    /\ run \notin {"new", "rejected"} => Proper(order)
    /\ pc \in InStep => at <= N /\ charge[order[at]] # "none"
    /\ run = "complete" => at = N + 1

\* The steps before the present one are the recorded ones, and only they and it
\* are charged.
StepsKept ==
    /\ results = {order[i] : i \in 1 .. at - 1}
    /\ \A n \in Nodes : charge[n] # "none" =>
          \E i \in 1 .. at : i <= Len(order) /\ order[i] = n /\ (pc = "charge" => i < at)

\* Who can have a job and its settlement.
JobsKept ==
    \A n \in Nodes :
        /\ worker[n] # "none" => job[n] # "none"
        /\ job[n] # "none" => charge[n] # "none"
        /\ settled[n] => charge[n] \in {"paid", "refunded"}

\* Somebody else than the thread has ended the job, or can.
Others(n) == worker[n] # "none" \/ n \in closed

Accounted(n) == charge[n] = "paid" \/ (charge[n] = "refunded" /\ Others(n))

\* A step that is past is paid, and a refund is of the step the run failed at,
\* unless somebody else ended its job.
PaidKept ==
    /\ \A i \in 1 .. at - 1 : Accounted(order[i])
    /\ pc \in {"settle", "price", "record"} => Accounted(order[at])
    /\ pc = "close" => charge[order[at]] \in {"paid", "refunded"}
    /\ \A n \in Nodes : charge[n] = "refunded" =>
          Others(n) \/ (at <= N /\ n = order[at] /\ pc \in {"close", "abort", "done"})

\* The charges that are not given back, and the wallet.
Kept == {n \in Nodes : charge[n] \in {"held", "paid"}}

FundsKept == funds + Cardinality(Kept) <= Funds

IInv == TypeOK /\ RunKept /\ StepsKept /\ JobsKept /\ PaidKept /\ FundsKept


-----------------------------------------------------------------------------
(* Sorting. *)

\* A non-empty set of natural numbers has a least element.
LEMMA LeastOf ==
    ASSUME NEW S \in SUBSET Nat, S # {}
    PROVE  \E n \in S : \A m \in S : n <= m
  <1>1. PICK n \in S : \A m \in S : ~(<<m, n>> \in OpToRel(<, Nat))
    BY NatLessThanWellFounded, WFMin
  <1>2. ASSUME NEW m \in S PROVE n <= m
    <2>1. ~(m < n)
      BY <1>1 DEF OpToRel
    <2> QED
      BY <2>1
  <1> QED
    BY <1>2

\* The elements of a finite set of numbers can be put in their order.
LEMMA SortedExists ==
    ASSUME NEW S \in SUBSET Nat, IsFiniteSet(S)
    PROVE  \E s \in SetToSeqs(S) : IsSorted(s, <)
  <1> DEFINE Rises(T, s) == /\ s \in [1 .. Cardinality(T) -> T]
                            /\ \A i, j \in 1 .. Cardinality(T) : i < j => s[i] < s[j]
             Has(T) == \E s : Rises(T, s)
             Bad == {n \in Nat : \E T \in SUBSET Nat :
                                    IsFiniteSet(T) /\ Cardinality(T) = n /\ ~Has(T)}
  <1>1. Cardinality(S) \in Nat
    BY FS_CardinalityType
  <1>2. ASSUME Bad # {} PROVE FALSE
    <2>1. PICK n \in Bad : \A k \in Bad : n <= k
      BY <1>2, LeastOf, Bad \in SUBSET Nat
    <2>2. PICK T \in SUBSET Nat : IsFiniteSet(T) /\ Cardinality(T) = n /\ ~Has(T)
      BY <2>1
    <2>3. n # 0
      <3> SUFFICES ASSUME n = 0 PROVE FALSE
        OBVIOUS
      <3> DEFINE e == [i \in 1 .. 0 |-> 0]
      <3>1. Rises(T, e)
        BY <2>2
      <3> QED
        BY <2>2, <3>1
    <2>4. T # {}
      BY <2>2, <2>3, FS_EmptySet
    <2>5. PICK m \in T : \A x \in T : m <= x
      BY <2>4, LeastOf
    <2>6. /\ T \ {m} \in SUBSET Nat /\ IsFiniteSet(T \ {m})
          /\ Cardinality(T \ {m}) = n - 1 /\ n - 1 \in Nat
      BY <2>1, <2>2, <2>3, <2>5, FS_RemoveElement
    <2>7. n - 1 \notin Bad
      BY <2>1, <2>6
    <2>8. PICK t : Rises(T \ {m}, t)
      BY <2>6, <2>7
    <2> DEFINE s == [i \in 1 .. n |-> IF i = 1 THEN m ELSE t[i - 1]]
    <2>9. ASSUME NEW i \in 1 .. n, i # 1 PROVE i - 1 \in 1 .. n - 1 /\ s[i] = t[i - 1] /\ s[i] \in T \ {m}
      <3>1. i - 1 \in 1 .. n - 1
        BY <2>1, <2>9
      <3> QED
        BY <2>6, <2>8, <2>9, <3>1
    <2>10. s \in [1 .. n -> T]
      BY <2>9
    <2>11. ASSUME NEW i \in 1 .. n, NEW j \in 1 .. n, i < j PROVE s[i] < s[j]
      <3>1. j # 1
        BY <2>11
      <3>2. s[j] = t[j - 1] /\ s[j] \in T \ {m} /\ j - 1 \in 1 .. n - 1
        BY <2>9, <3>1
      <3>3. CASE i = 1
        <4>1. s[i] = m /\ m \in Nat /\ s[j] \in Nat /\ m <= s[j] /\ m # s[j]
          BY <2>2, <2>5, <3>2, <3>3
        <4> HIDE DEF s
        <4> QED
          BY <4>1
      <3>4. CASE i # 1
        <4>1. s[i] = t[i - 1] /\ i - 1 \in 1 .. n - 1
          BY <2>9, <3>4
        <4>2. i - 1 < j - 1
          BY <2>11
        <4> QED
          BY <2>6, <2>8, <3>2, <4>1, <4>2
      <3> QED
        BY <3>3, <3>4
    <2>12. Rises(T, s)
      BY <2>2, <2>10, <2>11
    <2> QED
      BY <2>2, <2>12
  <1>3. PICK s : Rises(S, s)
    BY <1>1, <1>2
  <1> DEFINE c == Cardinality(S)
  <1> HIDE DEF c
  <1>4. c \in Nat /\ s \in [1 .. c -> S] /\ \A i, j \in 1 .. c : i < j => s[i] < s[j]
    BY <1>1, <1>3 DEF c
  <1>5. ASSUME NEW i \in 1 .. c, NEW j \in 1 .. c, i # j PROVE s[i] # s[j]
    <2>0. i < j \/ j < i
      BY <1>4, <1>5
    <2>1. s[i] \in Nat /\ s[j] \in Nat
      BY <1>4
    <2>2. s[i] < s[j] \/ s[j] < s[i]
      BY <1>4, <2>0
    <2> QED
      BY <2>1, <2>2
  <1>6. s \in SetToSeqs(S)
    BY <1>4, <1>5 DEF SetToSeqs, c
  <1>7. Len(s) = c
    BY <1>4
  <1>8. IsSorted(s, <)
    BY <1>4, <1>7 DEF IsSorted
  <1> QED
    BY <1>6, <1>8

\* A sorted set holds every element once.
LEMMA SortedPlaces ==
    ASSUME NEW S \in SUBSET Nat, IsFiniteSet(S)
    PROVE  Sorted(S) \in Seq(S) /\ Placed(Sorted(S)) = S /\ Distinct(Sorted(S))
  <1> DEFINE s == Sorted(S)  c == Cardinality(S)
  <1>1. s \in SetToSeqs(S)
    BY SortedExists DEF Sorted
  <1>2. c \in Nat
    BY FS_CardinalityType
  <1> HIDE DEF s
  <1>3. s \in [1 .. c -> S] /\ \A i, j \in 1 .. c : i # j => s[i] # s[j]
    BY <1>1 DEF SetToSeqs
  <1> HIDE DEF c
  <1>4. s \in Seq(S) /\ Len(s) = c
    BY <1>2, <1>3
  <1>5. Distinct(s)
    BY <1>3, <1>4 DEF Distinct
  <1>6. Placed(s) \subseteq S
    BY <1>3, <1>4 DEF Placed
  <1>7. ASSUME NEW x \in S PROVE x \in Placed(s)
    <2> SUFFICES ASSUME x \notin Placed(s) PROVE FALSE
      OBVIOUS
    <2>1. s \in [1 .. c -> S \ {x}]
      BY <1>3, <1>4 DEF Placed
    <2>2. IsFiniteSet(S \ {x}) /\ Cardinality(S \ {x}) = c - 1
      BY FS_RemoveElement DEF c
    <2>3. IsFiniteSet(1 .. c) /\ Cardinality(1 .. c) = c
      BY <1>2, FS_Interval
    <2>4. \E i, j \in 1 .. c : i # j /\ s[i] = s[j]
      BY <1>2, <2>1, <2>2, <2>3, FS_PigeonHole
    <2> QED
      BY <1>3, <2>4
  <1> QED
    BY <1>4, <1>5, <1>6, <1>7 DEF s


-----------------------------------------------------------------------------
(* The elements of the sequences that the rounds build. *)

LEMMA AppendPlaces ==
    ASSUME NEW S, NEW s \in Seq(S), NEW e \in S
    PROVE  /\ Placed(Append(s, e)) = Placed(s) \cup {e}
           /\ Distinct(s) /\ e \notin Placed(s) => Distinct(Append(s, e))
  <1> DEFINE t == Append(s, e)  l == Len(s)
  <1>1. /\ l \in Nat /\ Len(t) = l + 1 /\ t[l + 1] = e
        /\ \A i \in 1 .. l : t[i] = s[i]
    BY AppendProperties, LenProperties
  <1> HIDE DEF t
  <1>2. Placed(s) = {s[i] : i \in 1 .. l} /\ Placed(t) = {t[i] : i \in 1 .. l + 1}
    BY <1>1 DEF Placed
  <1>3. Distinct(s) <=> \A i, j \in 1 .. l : s[i] = s[j] => i = j
    BY DEF Distinct
  <1>4. Distinct(t) <=> \A i, j \in 1 .. l + 1 : t[i] = t[j] => i = j
    BY <1>1 DEF Distinct
  <1> HIDE DEF l
  <1>5. Placed(t) = Placed(s) \cup {e}
    <2>1. ASSUME NEW i \in 1 .. l + 1 PROVE t[i] \in Placed(s) \cup {e}
      <3>1. i \in 1 .. l \/ i = l + 1
        BY <1>1
      <3> QED
        BY <1>1, <1>2, <3>1
    <2>2. ASSUME NEW i \in 1 .. l PROVE s[i] \in Placed(t)
      <3>1. i \in 1 .. l + 1
        BY <1>1
      <3> QED
        BY <1>1, <1>2, <3>1
    <2>3. e \in Placed(t)
      <3>1. l + 1 \in 1 .. l + 1
        BY <1>1
      <3> QED
        BY <1>1, <1>2, <3>1
    <2> QED
      BY <1>2, <2>1, <2>2, <2>3
  <1>6. ASSUME Distinct(s), e \notin Placed(s) PROVE Distinct(t)
    <2> SUFFICES ASSUME NEW i \in 1 .. l + 1, NEW j \in 1 .. l + 1, t[i] = t[j] PROVE i = j
      BY <1>4
    <2>1. (i \in 1 .. l \/ i = l + 1) /\ (j \in 1 .. l \/ j = l + 1)
      BY <1>1
    <2>2. \A k \in 1 .. l : t[k] # e
      BY <1>1, <1>2, <1>6
    <2> QED
      BY <1>1, <1>3, <1>6, <2>1, <2>2
  <1> QED
    BY <1>5, <1>6 DEF t

LEMMA TailPlaces ==
    ASSUME NEW S, NEW s \in Seq(S), s # << >>, Distinct(s)
    PROVE  /\ Head(s) \in S /\ Tail(s) \in Seq(S)
           /\ Head(s) \in Placed(s) /\ Placed(Tail(s)) = Placed(s) \ {Head(s)}
           /\ Distinct(Tail(s))
  <1> DEFINE t == Tail(s)  l == Len(s)
  <1>1. /\ Head(s) \in S /\ t \in Seq(S) /\ Head(s) = s[1]
        /\ l \in Nat \ {0} /\ Len(t) = l - 1 /\ \A i \in 1 .. l - 1 : t[i] = s[i + 1]
    BY HeadTailProperties, LenProperties, EmptySeq
  <1> HIDE DEF t
  <1>2. Placed(s) = {s[i] : i \in 1 .. l} /\ Placed(t) = {t[i] : i \in 1 .. l - 1}
    BY <1>1 DEF Placed
  <1>3. \A i, j \in 1 .. l : s[i] = s[j] => i = j
    BY DEF Distinct
  <1>4. Distinct(t) <=> \A i, j \in 1 .. l - 1 : t[i] = t[j] => i = j
    BY <1>1 DEF Distinct
  <1> HIDE DEF l
  <1>5. s[1] \in Placed(s)
    BY <1>1, <1>2
  <1>6. ASSUME NEW i \in 1 .. l - 1 PROVE i + 1 \in 1 .. l /\ i + 1 # 1 /\ t[i] = s[i + 1]
    BY <1>1
  <1>7. ASSUME NEW i \in 1 .. l - 1 PROVE t[i] \in Placed(s) \ {s[1]}
    <2>1. 1 \in 1 .. l
      BY <1>1
    <2> QED
      BY <1>2, <1>3, <1>6, <2>1
  <1>8. ASSUME NEW i \in 1 .. l, i # 1 PROVE s[i] \in Placed(t)
    <2>1. i - 1 \in 1 .. l - 1 /\ (i - 1) + 1 = i
      BY <1>1, <1>8
    <2> QED
      BY <1>1, <1>2, <2>1
  <1>9. Placed(t) = Placed(s) \ {s[1]}
    BY <1>2, <1>7, <1>8
  <1>10. Distinct(t)
    <2> SUFFICES ASSUME NEW i \in 1 .. l - 1, NEW j \in 1 .. l - 1, t[i] = t[j] PROVE i = j
      BY <1>4
    <2>1. i + 1 = j + 1
      BY <1>3, <1>6
    <2> QED
      BY <2>1
  <1> QED
    BY <1>1, <1>5, <1>9, <1>10 DEF t

LEMMA ConcatPlaces ==
    ASSUME NEW S, NEW s \in Seq(S), NEW t \in Seq(S)
    PROVE  /\ s \o t \in Seq(S) /\ Placed(s \o t) = Placed(s) \cup Placed(t)
           /\ Distinct(s) /\ Distinct(t) /\ Placed(s) \cap Placed(t) = {} => Distinct(s \o t)
  <1> DEFINE u == s \o t  l == Len(s)  m == Len(t)
  <1>1. /\ l \in Nat /\ m \in Nat /\ u \in Seq(S) /\ Len(u) = l + m
        /\ \A i \in 1 .. l + m : u[i] = IF i <= l THEN s[i] ELSE t[i - l]
    BY ConcatProperties, LenProperties
  <1> HIDE DEF u
  <1>2. /\ Placed(s) = {s[i] : i \in 1 .. l} /\ Placed(t) = {t[i] : i \in 1 .. m}
        /\ Placed(u) = {u[i] : i \in 1 .. l + m}
    BY <1>1 DEF Placed
  <1>3. /\ Distinct(s) <=> \A i, j \in 1 .. l : s[i] = s[j] => i = j
        /\ Distinct(t) <=> \A i, j \in 1 .. m : t[i] = t[j] => i = j
        /\ Distinct(u) <=> \A i, j \in 1 .. l + m : u[i] = u[j] => i = j
    BY <1>1 DEF Distinct
  <1> HIDE DEF l, m
  <1>4. ASSUME NEW i \in 1 .. l + m
        PROVE  \/ i \in 1 .. l /\ u[i] = s[i] /\ u[i] \in Placed(s)
               \/ i - l \in 1 .. m /\ u[i] = t[i - l] /\ u[i] \in Placed(t)
    <2>1. CASE i <= l
      <3>1. i \in 1 .. l
        BY <1>1, <2>1
      <3> QED
        BY <1>1, <1>2, <2>1, <3>1
    <2>2. CASE ~(i <= l)
      <3>1. i - l \in 1 .. m
        BY <1>1, <2>2
      <3> QED
        BY <1>1, <1>2, <2>2, <3>1
    <2> QED
      BY <2>1, <2>2
  <1>5. ASSUME NEW i \in 1 .. l PROVE s[i] \in Placed(u)
    <2>1. i \in 1 .. l + m /\ i <= l
      BY <1>1
    <2> QED
      BY <1>1, <1>2, <2>1
  <1>6. ASSUME NEW i \in 1 .. m PROVE t[i] \in Placed(u)
    <2>1. i + l \in 1 .. l + m /\ ~(i + l <= l) /\ (i + l) - l = i
      BY <1>1
    <2> QED
      BY <1>1, <1>2, <2>1
  <1>7. Placed(u) = Placed(s) \cup Placed(t)
    BY <1>2, <1>4, <1>5, <1>6
  <1>8. ASSUME Distinct(s), Distinct(t), Placed(s) \cap Placed(t) = {} PROVE Distinct(u)
    <2> SUFFICES ASSUME NEW i \in 1 .. l + m, NEW j \in 1 .. l + m, u[i] = u[j] PROVE i = j
      BY <1>3
    <2>1. \/ i \in 1 .. l /\ j \in 1 .. l /\ s[i] = s[j]
          \/ i - l \in 1 .. m /\ j - l \in 1 .. m /\ t[i - l] = t[j - l]
      BY <1>4, <1>8
    <2>2. i = j \/ i - l = j - l
      BY <1>3, <1>8, <2>1
    <2> QED
      BY <1>1, <2>2
  <1> QED
    BY <1>1, <1>7, <1>8 DEF u


-----------------------------------------------------------------------------
(* Kahn's algorithm. *)

LEMMA NodesFinite ==
    /\ N \in Nat /\ N > 0 /\ Nodes \in SUBSET Nat /\ IsFiniteSet(Nodes) /\ Cardinality(Nodes) = N
    /\ \A S \in SUBSET Nodes : S \in SUBSET Nat /\ IsFiniteSet(S) /\ Cardinality(S) \in Nat
  <1>1. N \in Nat /\ N > 0 /\ Nodes \in SUBSET Nat
    BY PipelinesAssumption DEF Nodes
  <1>2. IsFiniteSet(Nodes) /\ Cardinality(Nodes) = N
    BY <1>1, FS_Interval DEF Nodes
  <1>3. ASSUME NEW S \in SUBSET Nodes
        PROVE  S \in SUBSET Nat /\ IsFiniteSet(S) /\ Cardinality(S) \in Nat
    BY <1>1, <1>2, FS_Subset, FS_CardinalityType
  <1> QED
    BY <1>1, <1>2, <1>3

LEMMA KahnStarts ==
    ASSUME deps \in [Nodes -> SUBSET Nodes]
    PROVE  Kahn(topological_start) /\ topological_start.ordered = << >>
  <1> DEFINE free == {n \in Nodes : deps[n] = {}}
             st == topological_start
  <1>1. free \in SUBSET Nodes
    OBVIOUS
  <1>2. Sorted(free) \in Seq(free) /\ Placed(Sorted(free)) = free /\ Distinct(Sorted(free))
    BY <1>1, NodesFinite, SortedPlaces
  <1>3. /\ st.queue = Sorted(free) /\ st.ordered = << >>
        /\ st.indegree = [n \in Nodes |-> Cardinality(deps[n])]
    BY DEF topological_start
  <1> HIDE DEF st
  <1>4. Placed(st.ordered) = {} /\ Distinct(st.ordered) /\ Ranked(st.ordered)
    BY <1>3 DEF Placed, Distinct, Ranked
  <1>5. st.queue \in Seq(Nodes) /\ st.ordered \in Seq(Nodes)
    BY <1>1, <1>2, <1>3
  <1>6. st.indegree = [m \in Nodes |-> Cardinality(deps[m] \ Placed(st.ordered))]
    <2>1. \A m \in Nodes : deps[m] \ Placed(st.ordered) = deps[m]
      BY <1>4
    <2> QED
      BY <1>3, <2>1
  <1>7. Placed(st.queue) \cup Placed(st.ordered)
          = {m \in Nodes : deps[m] \subseteq Placed(st.ordered)}
    BY <1>2, <1>3, <1>4
  <1> QED
    BY <1>2, <1>3, <1>4, <1>5, <1>6, <1>7 DEF Kahn, st

LEMMA KahnSteps ==
    ASSUME deps \in [Nodes -> SUBSET Nodes], NEW st, Kahn(st), st.queue # << >>
    PROVE  /\ Kahn(topological_step(st))
           /\ topological_step(st).ordered = Append(st.ordered, Head(st.queue))
           /\ Head(st.queue) \in Nodes
  <1> DEFINE q == st.queue  o == st.ordered  n == Head(st.queue)
             new == {m \in Children(n) : st.indegree[m] = 1}
             q2 == Tail(q) \o Sorted(new)  o2 == Append(o, n)
             d2 == [m \in Nodes |-> st.indegree[m] - (IF m \in Children(n) THEN 1 ELSE 0)]
             nx == topological_step(st)
  <1>1. nx.queue = q2 /\ nx.ordered = o2 /\ nx.indegree = d2
    BY DEF topological_step
  <1> HIDE DEF nx
  <1>2. /\ q \in Seq(Nodes) /\ o \in Seq(Nodes) /\ Distinct(q) /\ Distinct(o)
        /\ Placed(q) \cap Placed(o) = {} /\ Ranked(o)
        /\ \A m \in Nodes : st.indegree[m] = Cardinality(deps[m] \ Placed(o))
        /\ Placed(q) \cup Placed(o) = {m \in Nodes : deps[m] \subseteq Placed(o)}
    BY DEF Kahn
  <1>3. /\ n \in Nodes /\ n \in Placed(q) /\ Tail(q) \in Seq(Nodes)
        /\ Placed(Tail(q)) = Placed(q) \ {n} /\ Distinct(Tail(q))
    BY <1>2, TailPlaces
  <1>4. n \notin Placed(o) /\ deps[n] \subseteq Placed(o)
    BY <1>2, <1>3
  <1>5. new \in SUBSET Nodes
    BY DEF Children
  <1>6. Sorted(new) \in Seq(Nodes) /\ Placed(Sorted(new)) = new /\ Distinct(Sorted(new))
    <2>1. Sorted(new) \in Seq(new) /\ Placed(Sorted(new)) = new /\ Distinct(Sorted(new))
      BY <1>5, NodesFinite, SortedPlaces
    <2> QED
      BY <1>5, <2>1
  <1> HIDE DEF q, o, n, q2, o2
  <1>7. ASSUME NEW m \in Nodes
        PROVE  m \in new <=> (n \in deps[m] /\ deps[m] \subseteq Placed(o) \cup {n})
    <2> DEFINE left == deps[m] \ Placed(o)
    <2>1. m \in new <=> (n \in deps[m] /\ Cardinality(left) = 1)
      BY <1>2 DEF Children
    <2>2. IsFiniteSet(left)
      BY NodesFinite
    <2>3. Cardinality(left) = 1 <=> \E x : left = {x}
      BY <2>2, FS_Singleton
    <2>4. n \in deps[m] => n \in left
      BY <1>4
    <2>5. n \in left => ((\E x : left = {x}) <=> left = {n})
      OBVIOUS
    <2> HIDE DEF new
    <2>6. n \in deps[m] => (left = {n} <=> deps[m] \subseteq Placed(o) \cup {n})
      BY <1>4
    <2> QED
      BY <2>1, <2>3, <2>4, <2>5, <2>6
  <1> HIDE DEF new
  <1>8. /\ o2 \in Seq(Nodes) /\ Placed(o2) = Placed(o) \cup {n} /\ Distinct(o2)
    BY <1>2, <1>3, <1>4, AppendPlaces, AppendProperties DEF o2
  <1>9. new \cap (Placed(q) \cup Placed(o)) = {}
    BY <1>2, <1>4, <1>5, <1>7
  <1>10. /\ q2 \in Seq(Nodes) /\ Placed(q2) = (Placed(q) \ {n}) \cup new /\ Distinct(q2)
    <2>1. Placed(Tail(q)) \cap Placed(Sorted(new)) = {}
      BY <1>3, <1>6, <1>9
    <2>2. /\ q2 \in Seq(Nodes) /\ Placed(q2) = Placed(Tail(q)) \cup Placed(Sorted(new))
          /\ Distinct(q2)
      <3> DEFINE a == Tail(q)  b == Sorted(new)
      <3>1. /\ a \in Seq(Nodes) /\ b \in Seq(Nodes) /\ Distinct(a) /\ Distinct(b)
            /\ Placed(a) \cap Placed(b) = {} /\ q2 = a \o b
        BY <1>3, <1>6, <2>1 DEF q2
      <3> HIDE DEF a, b
      <3>2. a \o b \in Seq(Nodes) /\ Placed(a \o b) = Placed(a) \cup Placed(b)
        BY <3>1, ConcatPlaces
      <3>3. Distinct(a \o b)
        BY <3>1, ConcatPlaces
      <3> QED
        BY <3>1, <3>2, <3>3 DEF a, b
    <2> QED
      BY <1>3, <1>6, <2>2
  <1>11. Placed(q2) \cap Placed(o2) = {}
    <2>1. n \notin new
      BY <1>3, <1>9
    <2> QED
      BY <1>2, <1>8, <1>9, <1>10, <2>1
  <1>12. d2 = [m \in Nodes |-> Cardinality(deps[m] \ Placed(o2))]
    <2>1. ASSUME NEW m \in Nodes
          PROVE  st.indegree[m] - (IF m \in Children(n) THEN 1 ELSE 0)
                   = Cardinality(deps[m] \ Placed(o2))
      <3> DEFINE left == deps[m] \ Placed(o)
      <3>1. IsFiniteSet(left) /\ Cardinality(left) \in Nat
        BY NodesFinite
      <3>2. deps[m] \ Placed(o2) = left \ {n}
        BY <1>8
      <3>3. Cardinality(left \ {n}) = IF n \in left THEN Cardinality(left) - 1 ELSE Cardinality(left)
        BY <3>1, FS_RemoveElement
      <3>4. n \in left <=> m \in Children(n)
        BY <1>4 DEF Children
      <3>5. st.indegree[m] = Cardinality(left)
        BY <1>2
      <3> DEFINE c == Cardinality(left)
      <3>6. /\ c \in Nat /\ st.indegree[m] = c
            /\ Cardinality(deps[m] \ Placed(o2)) = IF m \in Children(n) THEN c - 1 ELSE c
        BY <3>1, <3>2, <3>3, <3>4, <3>5
      <3> HIDE DEF c
      <3> QED
        BY <3>6
    <2> QED
      BY <2>1
  <1>13. Placed(q2) \cup Placed(o2) = {m \in Nodes : deps[m] \subseteq Placed(o2)}
    <2>1. Placed(q2) \cup Placed(o2) = (Placed(q) \cup Placed(o)) \cup new
      BY <1>3, <1>8, <1>10
    <2>2. ASSUME NEW m \in Nodes
          PROVE  deps[m] \subseteq Placed(o2)
                   <=> (deps[m] \subseteq Placed(o) \/ m \in new)
      BY <1>7, <1>8
    <2> QED
      BY <1>2, <1>5, <2>1, <2>2
  <1>14. Ranked(o2)
    <2> DEFINE l == Len(o)
    <2>1. /\ l \in Nat /\ Len(o2) = l + 1 /\ o2[l + 1] = n /\ \A i \in 1 .. l : o2[i] = o[i]
      BY <1>2, <1>3, AppendProperties, LenProperties DEF o2
    <2>2. Placed(o) = {o[i] : i \in 1 .. l}
      BY DEF Placed
    <2>3. \A i \in 1 .. l : \A d \in deps[o[i]] : \E j \in 1 .. i - 1 : o[j] = d
      BY <1>2 DEF Ranked
    <2> HIDE DEF l
    <2>4. ASSUME NEW i \in 1 .. l + 1, NEW d \in deps[o2[i]]
          PROVE  \E j \in 1 .. i - 1 : o2[j] = d
      <3>1. CASE i = l + 1
        <4>1. d \in Placed(o)
          BY <1>4, <2>1, <2>4, <3>1
        <4>2. PICK j \in 1 .. l : o[j] = d
          BY <2>2, <4>1
        <4> QED
          BY <2>1, <3>1, <4>2
      <3>2. CASE i # l + 1
        <4>1. i \in 1 .. l /\ o2[i] = o[i]
          BY <2>1, <3>2
        <4>2. PICK j \in 1 .. i - 1 : o[j] = d
          BY <2>3, <2>4, <4>1
        <4>3. j \in 1 .. l
          BY <2>1, <4>1
        <4> QED
          BY <2>1, <4>2, <4>3
      <3> QED
        BY <3>1, <3>2
    <2> QED
      BY <2>1, <2>4 DEF Ranked
  <1>15. Kahn(nx)
    BY <1>1, <1>8, <1>10, <1>11, <1>12, <1>13, <1>14 DEF Kahn
  <1> QED
    BY <1>1, <1>3, <1>15 DEF nx, n, o2, o


\* The recursion of the rounds has a solution.
LEMMA RoundsDefined ==
    topological_rounds =
      [k \in 0 .. N |-> IF k = 0 THEN topological_start
                        ELSE topological_step(topological_rounds[k - 1])]
  <1> DEFINE One(k, f) == IF k = 0 THEN topological_start ELSE topological_step(f[k - 1])
             Solves(f, n) == f = [k \in 0 .. n |-> One(k, f)]
             Bad == {n \in Nat : ~\E f : Solves(f, n)}
  <1>1. ASSUME Bad # {} PROVE FALSE
    <2>1. PICK n \in Bad : \A k \in Bad : n <= k
      BY <1>1, LeastOf, Bad \in SUBSET Nat
    <2>2. n \in Nat /\ ~\E f : Solves(f, n)
      BY <2>1
    <2>3. CASE n = 0
      <3> DEFINE f == [k \in 0 .. 0 |-> topological_start]
      <3>1. Solves(f, 0)
        OBVIOUS
      <3> QED
        BY <2>2, <2>3, <3>1
    <2>4. CASE n # 0
      <3>1. n - 1 \in Nat /\ n - 1 \notin Bad
        <4> HIDE DEF Bad
        <4> QED
          BY <2>1, <2>2, <2>4
      <3>2. PICK g : Solves(g, n - 1)
        <4> HIDE DEF Solves
        <4> QED
          BY <3>1
      <3> DEFINE f == [k \in 0 .. n |-> One(k, g)]
      <3>3. ASSUME NEW k \in 0 .. n - 1 PROVE f[k] = g[k]
        <4>1. k \in 0 .. n
          BY <2>2
        <4>2. f[k] = One(k, g)
          BY <4>1
        <4>3. g[k] = One(k, g)
          BY <3>2
        <4> QED
          BY <4>2, <4>3
      <3> HIDE DEF f
      <3>4. ASSUME NEW k \in 0 .. n PROVE One(k, g) = One(k, f)
        <4>1. CASE k = 0
          BY <4>1
        <4>2. CASE k # 0
          <5>1. k - 1 \in 0 .. n - 1
            BY <2>2, <4>2
          <5>2. f[k - 1] = g[k - 1]
            BY <3>3, <5>1
          <5> QED
            BY <4>2, <5>2
        <4> QED
          BY <4>1, <4>2
      <3>5. f = [k \in 0 .. n |-> One(k, g)]
        BY DEF f
      <3> HIDE DEF One
      <3>6. Solves(f, n)
        BY <3>4, <3>5
      <3> QED
        BY <2>2, <3>6
    <2> QED
      BY <2>3, <2>4
  <1>2. \E f : Solves(f, N)
    BY <1>1, NodesFinite
  <1>3. topological_rounds = CHOOSE f : Solves(f, N)
    BY DEF topological_rounds
  <1> QED
    BY <1>2, <1>3

\* What the rounds keep, and that a round without progress is one without a queue.
LEMMA RoundsKeepKahn ==
    ASSUME deps \in [Nodes -> SUBSET Nodes], NEW k \in 0 .. N
    PROVE  LET st == topological_rounds[k]
           IN  Kahn(st) /\ Len(st.ordered) <= k /\ (Len(st.ordered) = k \/ st.queue = << >>)
  <1> DEFINE st(n) == topological_rounds[n]
             Fine(n) == /\ Kahn(st(n)) /\ Len(st(n).ordered) <= n
                        /\ Len(st(n).ordered) = n \/ st(n).queue = << >>
             Bad == {n \in 0 .. N : ~Fine(n)}
  <1> SUFFICES ASSUME Bad # {} PROVE FALSE
    OBVIOUS
  <1>1. N \in Nat /\ Bad \in SUBSET Nat
    BY NodesFinite
  <1>2. PICK n \in Bad : \A i \in Bad : n <= i
    BY <1>1, LeastOf
  <1>3. n \in 0 .. N /\ ~Fine(n)
    BY <1>2
  <1>4. CASE n = 0
    <2>1. st(0) = topological_start
      BY <1>3, <1>4, RoundsDefined
    <2>2. Kahn(st(0)) /\ Len(st(0).ordered) = 0
      BY <2>1, KahnStarts
    <2> QED
      BY <1>3, <1>4, <2>2
  <1>5. CASE n # 0
    <2>1. n - 1 \in 0 .. N /\ n - 1 \in Nat
      BY <1>1, <1>3, <1>5
    <2>2. Fine(n - 1)
      <3>1. n - 1 \notin Bad
        BY <1>1, <1>2, <1>3
      <3> QED
        BY <2>1, <3>1
    <2>3. st(n) = topological_step(st(n - 1))
      BY <1>3, <1>5, RoundsDefined
    <2>4. PICK s : s = st(n - 1)
      OBVIOUS
    <2>5. PICK t : t = st(n)
      OBVIOUS
    <2>6. Kahn(s) /\ Len(s.ordered) <= n - 1 /\ (Len(s.ordered) = n - 1 \/ s.queue = << >>)
      BY <2>2, <2>4
    <2>7. t = topological_step(s)
      BY <2>3, <2>4, <2>5
    <2>8. ~(Kahn(t) /\ Len(t.ordered) <= n /\ (Len(t.ordered) = n \/ t.queue = << >>))
      BY <1>3, <2>5
    <2> HIDE DEF st
    <2>9. CASE s.queue = << >>
      <3>1. t = s
        BY <2>7, <2>9 DEF topological_step
      <3>2. Len(s.ordered) \in Nat
        BY <2>6, LenProperties DEF Kahn
      <3> QED
        BY <1>1, <1>3, <2>6, <2>8, <2>9, <3>1, <3>2
    <2>10. CASE s.queue # << >>
      <3>1. Kahn(t) /\ t.ordered = Append(s.ordered, Head(s.queue)) /\ Head(s.queue) \in Nodes
        BY <2>6, <2>7, <2>10, KahnSteps
      <3>2. s.ordered \in Seq(Nodes) /\ Len(s.ordered) = n - 1
        BY <2>6, <2>10 DEF Kahn
      <3>3. Len(t.ordered) = n
        <4>1. Len(Append(s.ordered, Head(s.queue))) = Len(s.ordered) + 1
          BY <3>1, <3>2, AppendProperties
        <4> QED
          BY <1>1, <1>3, <3>1, <3>2, <4>1
      <3> QED
        BY <1>1, <1>3, <2>8, <3>1, <3>3
    <2> QED
      BY <2>9, <2>10
  <1> QED
    BY <1>4, <1>5


\* An order of all the nodes behind their dependencies leaves no cycle.
LEMMA ProperHasNoCycle ==
    ASSUME deps \in [Nodes -> SUBSET Nodes], NEW s \in Seq(Nodes), Proper(s)
    PROVE  ~Cyclic
  <1> SUFFICES ASSUME NEW k \in 1 .. N, NEW path \in [0 .. k -> Nodes], path[0] = path[k],
                      \A i \in 1 .. k : path[i - 1] \in deps[path[i]]
               PROVE  FALSE
    BY DEF Cyclic
  <1> DEFINE pos(x) == CHOOSE i \in 1 .. N : s[i] = x
  <1>1. /\ N \in Nat /\ k \in Nat /\ \A x \in Nodes : \E i \in 1 .. N : s[i] = x
        /\ \A i, j \in 1 .. N : s[i] = s[j] => i = j
        /\ \A i \in 1 .. N : \A d \in deps[s[i]] : \E j \in 1 .. i - 1 : s[j] = d
    BY NodesFinite DEF Proper, Placed, Distinct, Ranked
  <1>2. ASSUME NEW x \in Nodes PROVE pos(x) \in 1 .. N /\ s[pos(x)] = x
    BY <1>1
  <1> HIDE DEF pos
  <1>3. ASSUME NEW x \in Nodes, NEW d \in deps[x] PROVE pos(d) < pos(x)
    <2>1. d \in Nodes
      OBVIOUS
    <2>2. PICK j \in 1 .. pos(x) - 1 : s[j] = d
      BY <1>1, <1>2
    <2>3. pos(x) \in 1 .. N /\ j \in 1 .. N
      BY <1>1, <1>2, <2>2
    <2>4. j = pos(d)
      BY <1>1, <1>2, <2>1, <2>2, <2>3
    <2> QED
      BY <2>2, <2>3, <2>4
  <1> DEFINE Bad == {j \in 1 .. k : ~(pos(path[0]) < pos(path[j]))}
  <1>4. ASSUME Bad # {} PROVE FALSE
    <2>1. PICK j \in Bad : \A i \in Bad : j <= i
      BY <1>4, LeastOf, Bad \in SUBSET Nat
    <2>2. j \in 1 .. k /\ j \in 0 .. k /\ j - 1 \in 0 .. k /\ 0 \in 0 .. k
      BY <1>1, <2>1
    <2>3. /\ path[0] \in Nodes /\ path[j] \in Nodes /\ path[j - 1] \in Nodes
          /\ pos(path[j - 1]) < pos(path[j])
      BY <1>3, <2>2
    <2>4. pos(path[0]) \in Int /\ pos(path[j]) \in Int /\ pos(path[j - 1]) \in Int
      BY <1>2, <2>3
    <2>5. ~(pos(path[0]) < pos(path[j]))
      BY <2>1
    <2>6. CASE j = 1
      BY <2>3, <2>5, <2>6
    <2>7. CASE j # 1
      <3>1. j - 1 \in 1 .. k /\ j - 1 \notin Bad
        <4>1. j - 1 \in 1 .. k /\ ~(j <= j - 1)
          BY <1>1, <2>2, <2>7
        <4> HIDE DEF Bad
        <4> QED
          BY <2>1, <4>1
      <3>2. pos(path[0]) < pos(path[j - 1])
        BY <3>1
      <3> QED
        BY <2>3, <2>4, <2>5, <3>2
    <2> QED
      BY <2>6, <2>7
  <1>5. pos(path[0]) < pos(path[k])
    <2>1. k \in 1 .. k
      BY <1>1
    <2> QED
      BY <1>4, <2>1
  <1>6. pos(path[0]) \in Int
    <2>1. path[0] \in Nodes
      BY <1>1
    <2> QED
      BY <1>2, <2>1
  <1> QED
    BY <1>5, <1>6

\* Nodes that each depend on one of them hold a cycle.
LEMMA StuckHasCycle ==
    ASSUME deps \in [Nodes -> SUBSET Nodes], NEW R \in SUBSET Nodes, R # {},
           \A m \in R : deps[m] \cap R # {}
    PROVE  Cyclic
  <1> DEFINE Walk(w, n) == w \in [0 .. n -> R] /\ \A i \in 1 .. n : w[i] \in deps[w[i - 1]]
             Bad == {n \in Nat : ~\E w : Walk(w, n)}
  <1>1. ASSUME Bad # {} PROVE FALSE
    <2>1. PICK n \in Bad : \A k \in Bad : n <= k
      BY <1>1, LeastOf, Bad \in SUBSET Nat
    <2>2. n \in Nat /\ ~\E w : Walk(w, n)
      BY <2>1
    <2>3. CASE n = 0
      <3>1. PICK r : r \in R
        OBVIOUS
      <3> DEFINE w == [i \in 0 .. 0 |-> r]
      <3>2. Walk(w, 0)
        BY <3>1
      <3> QED
        BY <2>2, <2>3, <3>2
    <2>4. CASE n # 0
      <3>1. n - 1 \in Nat /\ n - 1 \notin Bad
        <4> HIDE DEF Bad
        <4> QED
          BY <2>1, <2>2, <2>4
      <3>2. PICK v : Walk(v, n - 1)
        <4> HIDE DEF Walk
        <4> QED
          BY <3>1
      <3>3. n - 1 \in 0 .. n - 1 /\ v[n - 1] \in R
        BY <3>1, <3>2
      <3>4. PICK r \in R : r \in deps[v[n - 1]]
        BY <3>3
      <3> DEFINE w == [i \in 0 .. n |-> IF i = n THEN r ELSE v[i]]
      <3>5. ASSUME NEW i \in 0 .. n PROVE w[i] \in R
        <4>1. CASE i = n
          BY <4>1
        <4>2. CASE i # n
          <5>1. i \in 0 .. n - 1
            BY <2>2, <4>2
          <5> QED
            BY <3>2, <4>2, <5>1
        <4> QED
          BY <4>1, <4>2
      <3>6. ASSUME NEW i \in 1 .. n PROVE w[i] \in deps[w[i - 1]]
        <4>1. i \in 0 .. n /\ i - 1 \in 0 .. n /\ i - 1 # n
          BY <2>2
        <4>2. w[i - 1] = v[i - 1]
          BY <4>1
        <4>3. CASE i = n
          <5>1. w[i] = r
            BY <4>1, <4>3
          <5> QED
            BY <3>4, <4>2, <4>3, <5>1
        <4>4. CASE i # n
          <5>1. w[i] = v[i] /\ i \in 1 .. n - 1
            BY <2>2, <4>1, <4>4
          <5> QED
            BY <3>2, <4>2, <5>1
        <4> QED
          BY <4>3, <4>4
      <3>7. Walk(w, n)
        BY <3>5, <3>6
      <3> QED
        BY <2>2, <3>7
    <2> QED
      BY <2>3, <2>4
  <1>2. N \in Nat /\ N > 0
    BY NodesFinite
  <1>3. PICK w : Walk(w, N)
    <2> HIDE DEF Walk
    <2> QED
      BY <1>1, <1>2
  <1>4. \E i, j \in 0 .. N : i < j /\ w[i] = w[j]
    <2>1. IsFiniteSet(0 .. N) /\ Cardinality(0 .. N) = N + 1
      BY <1>2, FS_Interval
    <2>2. IsFiniteSet(R) /\ Cardinality(R) \in Nat /\ Cardinality(R) <= N
      BY NodesFinite, FS_Subset
    <2>3. w \in [0 .. N -> R]
      BY <1>3
    <2>4. Cardinality(R) < Cardinality(0 .. N)
      BY <1>2, <2>1, <2>2
    <2>5. PICK i, j \in 0 .. N : i # j /\ w[i] = w[j]
      BY <2>1, <2>2, <2>3, <2>4, FS_PigeonHole
    <2>6. i < j \/ j < i
      BY <1>2, <2>5
    <2> QED
      BY <2>5, <2>6
  <1>5. PICK i \in 0 .. N, j \in 0 .. N : i < j /\ w[i] = w[j]
    BY <1>4
  <1> DEFINE k == j - i
             path == [t \in 0 .. k |-> w[j - t]]
  <1>6. k \in 1 .. N
    BY <1>2, <1>5
  <1>7. ASSUME NEW t \in 0 .. k PROVE j - t \in 0 .. N /\ path[t] = w[j - t] /\ path[t] \in Nodes
    <2>1. j - t \in 0 .. N
      BY <1>2, <1>5
    <2> QED
      BY <1>3, <2>1
  <1>8. path \in [0 .. k -> Nodes]
    BY <1>7
  <1>9. path[0] = path[k]
    <2>1. 0 \in 0 .. k /\ k \in 0 .. k /\ j - 0 = j /\ j - k = i
      BY <1>2, <1>5
    <2>2. path[0] = w[j - 0] /\ path[k] = w[j - k]
      BY <1>7, <2>1
    <2> QED
      BY <1>5, <2>1, <2>2
  <1>10. ASSUME NEW t \in 1 .. k PROVE path[t - 1] \in deps[path[t]]
    <2>1. t \in 0 .. k /\ t - 1 \in 0 .. k /\ j - t + 1 \in 1 .. N /\ j - (t - 1) = j - t + 1
      BY <1>2, <1>5
    <2>2. path[t] = w[j - t] /\ path[t - 1] = w[j - t + 1]
      BY <1>7, <2>1
    <2>3. (j - t + 1) - 1 = j - t
      BY <1>2, <1>5
    <2>4. w[j - t + 1] \in deps[w[(j - t + 1) - 1]]
      BY <1>3, <2>1
    <2> QED
      BY <2>2, <2>3, <2>4
  <1> HIDE DEF path, k
  <1> QED
    BY <1>6, <1>8, <1>9, <1>10 DEF Cyclic


\* _topological_sort orders every node once and behind its dependencies, or falls
\* short of them, and it falls short exactly for a definition with a cycle: for
\* every graph on every number of nodes.
THEOREM TopologicalSortCorrect ==
    ASSUME deps \in [Nodes -> SUBSET Nodes]
    PROVE  /\ topological_sort \in Seq(Nodes)
           /\ Len(topological_sort) = N => Proper(topological_sort)
           /\ Len(topological_sort) = N <=> ~Cyclic
  <1>1. N \in Nat /\ N \in 0 .. N
    BY NodesFinite
  <1>2. PICK st : st = topological_rounds[N]
    OBVIOUS
  <1>3. Kahn(st) /\ Len(st.ordered) <= N /\ (Len(st.ordered) = N \/ st.queue = << >>)
    BY <1>1, <1>2, RoundsKeepKahn
  <1>4. PICK o : o = st.ordered
    OBVIOUS
  <1>5. topological_sort = o
    BY <1>2, <1>4 DEF topological_sort
  <1>6. /\ o \in Seq(Nodes) /\ Distinct(o) /\ Ranked(o) /\ Len(o) <= N
        /\ st.queue = << >> => Placed(o) = {m \in Nodes : deps[m] \subseteq Placed(o)}
    <2>1. Placed(<< >>) = {}
      BY DEF Placed
    <2> QED
      BY <1>3, <1>4, <2>1 DEF Kahn
  <1>7. Len(o) \in Nat /\ Placed(o) \subseteq Nodes /\ o \in [1 .. Len(o) -> Nodes]
    BY <1>6, LenProperties DEF Placed
  <1>8. ASSUME Len(o) = N PROVE Proper(o)
    <2>1. ASSUME NEW x \in Nodes PROVE x \in Placed(o)
      <3> SUFFICES ASSUME x \notin Placed(o) PROVE FALSE
        OBVIOUS
      <3>1. o \in [1 .. N -> Nodes \ {x}]
        BY <1>7, <1>8 DEF Placed
      <3>2. IsFiniteSet(Nodes \ {x}) /\ Cardinality(Nodes \ {x}) = N - 1
        BY NodesFinite, FS_RemoveElement
      <3>3. IsFiniteSet(1 .. N) /\ Cardinality(1 .. N) = N
        BY <1>1, FS_Interval
      <3>4. \E i, j \in 1 .. N : i # j /\ o[i] = o[j]
        BY <1>1, <3>1, <3>2, <3>3, FS_PigeonHole
      <3> QED
        BY <1>6, <1>8, <3>4 DEF Distinct
    <2>2. Placed(o) = Nodes
      BY <1>7, <2>1
    <2> QED
      BY <1>6, <1>8, <2>2 DEF Proper
  <1>9. Len(o) = N => ~Cyclic
    BY <1>6, <1>8, ProperHasNoCycle
  <1>10. ASSUME Len(o) # N PROVE Cyclic
    <2> DEFINE R == Nodes \ Placed(o)
    <2>1. Placed(o) = {m \in Nodes : deps[m] \subseteq Placed(o)}
      BY <1>3, <1>4, <1>6, <1>10
    <2>2. R # {}
      <3> SUFFICES ASSUME Nodes = Placed(o) PROVE FALSE
        BY <1>7
      <3>1. o \in Surjection(1 .. Len(o), Nodes)
        BY <1>7 DEF Surjection, Placed
      <3>2. IsFiniteSet(1 .. Len(o)) /\ Cardinality(1 .. Len(o)) = Len(o)
        BY <1>7, FS_Interval
      <3>3. Cardinality(Nodes) <= Len(o)
        BY <3>1, <3>2, FS_Surjection
      <3>4. Cardinality(Nodes) = N
        BY NodesFinite
      <3>5. N <= Len(o) /\ Len(o) <= N /\ Len(o) \in Nat
        BY <1>6, <1>7, <3>3, <3>4
      <3> HIDE DEF R
      <3> QED
        BY <1>1, <1>10, <3>5
    <2>3. ASSUME NEW m \in R PROVE deps[m] \cap R # {}
      BY <2>1
    <2> QED
      BY <2>2, <2>3, StuckHasCycle
  <1> QED
    BY <1>5, <1>6, <1>8, <1>9, <1>10


-----------------------------------------------------------------------------
(* The run. *)

\* The graph and the order are fixed once the run is there.
LEMMA GraphFixed ==
    ASSUME UNCHANGED <<deps, order>>
    PROVE  (Proper(order)' <=> Proper(order)) /\ (Cyclic' <=> Cyclic)
  BY DEF Proper, Ranked, Cyclic

LEMMA OrderedNodes ==
    ASSUME IInv, run \notin {"new", "rejected"}
    PROVE  /\ order \in [1 .. N -> Nodes] /\ Len(order) = N /\ N \in Nat
           /\ \A i, j \in 1 .. N : order[i] = order[j] => i = j
           /\ {order[i] : i \in 1 .. N} = Nodes
  <1>1. Proper(order) /\ order \in Seq(Nodes)
    BY DEF IInv, RunKept, TypeOK
  <1> QED
    BY <1>1, NodesFinite, LenProperties DEF Proper, Placed, Distinct

\* The node a step is about.
LEMMA AtNode ==
    ASSUME IInv, pc \in InStep
    PROVE  /\ Node \in Nodes /\ at \in 1 .. N /\ run \notin {"new", "rejected"}
           /\ charge[Node] # "none"
  <1>1. run \notin {"new", "rejected"} /\ at <= N /\ charge[order[at]] # "none"
    BY DEF IInv, RunKept, InStep
  <1>2. at \in 1 .. N
    BY <1>1, NodesFinite DEF IInv, TypeOK
  <1> QED
    BY <1>1, <1>2, OrderedNodes DEF Node

LEMMA PastNodes ==
    ASSUME IInv, NEW i \in 1 .. at - 1
    PROVE  order[i] \in Nodes /\ i \in 1 .. N
  <1>1. at \in 1 .. N + 1 /\ N \in Nat
    BY NodesFinite DEF IInv, TypeOK
  <1>2. at # 1 /\ i \in 1 .. N
    BY <1>1
  <1>3. run \notin {"new", "rejected"}
    BY <1>2 DEF IInv, RunKept
  <1> QED
    BY <1>2, <1>3, OrderedNodes

\* A charge is given out once, and the wallet gets back what it lacked.
LEMMA DistributeEffect ==
    ASSUME IInv, NEW n \in Nodes, NEW to \in {"paid", "refunded"}, Distribute(n, to)
    PROVE  /\ charge' \in [Nodes -> {"none", "held", "paid", "refunded"}]
           /\ funds' \in 0 .. Funds /\ FundsKept'
           /\ \A m \in Nodes : m # n => charge'[m] = charge[m]
           /\ charge[n] = "held" => charge'[n] = to
           /\ charge[n] # "held" => charge'[n] = charge[n]
  <1>1. /\ charge \in [Nodes -> {"none", "held", "paid", "refunded"}] /\ funds \in 0 .. Funds
        /\ Funds \in Nat /\ funds + Cardinality(Kept) <= Funds
    BY PipelinesAssumption DEF IInv, TypeOK, FundsKept
  <1>2. IsFiniteSet(Kept) /\ Cardinality(Kept) \in Nat
    BY NodesFinite DEF Kept
  <1>3. CASE charge[n] # "held"
    <2>1. charge' = charge /\ funds' = funds
      BY <1>3 DEF Distribute
    <2>2. Kept' = Kept
      BY <2>1 DEF Kept
    <2> QED
      BY <1>1, <1>3, <2>1, <2>2 DEF FundsKept
  <1>4. CASE charge[n] = "held" /\ to = "paid"
    <2>1. charge' = [charge EXCEPT ![n] = "paid"] /\ funds' = funds
      BY <1>4 DEF Distribute
    <2>2. Kept' = Kept
      BY <1>1, <1>4, <2>1 DEF Kept
    <2> QED
      BY <1>1, <1>4, <2>1, <2>2 DEF FundsKept
  <1>5. CASE charge[n] = "held" /\ to = "refunded"
    <2>1. charge' = [charge EXCEPT ![n] = "refunded"] /\ funds' = funds + 1
      BY <1>5 DEF Distribute
    <2>2. Kept' = Kept \ {n} /\ n \in Kept
      BY <1>1, <1>5, <2>1 DEF Kept
    <2>3. Cardinality(Kept') = Cardinality(Kept) - 1
      BY <1>2, <2>2, FS_RemoveElement
    <2>4. Cardinality(Kept) # 0
      BY <1>2, <2>2, FS_EmptySet
    <2>5. funds' \in 0 .. Funds /\ funds' + Cardinality(Kept') <= Funds
      BY <1>1, <1>2, <2>1, <2>3, <2>4
    <2>6. charge' \in [Nodes -> {"none", "held", "paid", "refunded"}]
      BY <1>1, <2>1
    <2> QED
      BY <1>1, <1>5, <2>1, <2>5, <2>6 DEF FundsKept
  <1> QED
    BY <1>3, <1>4, <1>5

\* A step that changes where the run is and nothing of its steps.
LEMMA RunMoves ==
    ASSUME IInv, TypeOK', UNCHANGED <<deps, order, at, results, funds, stepVars, closed>>,
           run # "new", run' # "new", pc' \notin {"start", "charge"}, run' = "rejected" <=> run = "rejected",
           run = "rejected" => pc' = "done", run' = "complete" => at = N + 1,
           pc' \in InStep => pc \in InStep,
           pc' \in {"settle", "price", "record"} => pc \in {"settle", "price", "record"},
           pc' = "close" => pc = "close",
           pc \in {"close", "abort", "done"} => pc' \in {"close", "abort", "done"}
    PROVE  IInv'
  <1>1. Proper(order)' <=> Proper(order)
    BY GraphFixed
  <1>2. Cyclic' <=> Cyclic
    BY GraphFixed
  <1>3. RunKept'
    BY <1>1, <1>2 DEF IInv, RunKept, stepVars
  <1>4. StepsKept' /\ JobsKept' /\ FundsKept'
    BY DEF IInv, StepsKept, JobsKept, FundsKept, Kept, stepVars
  <1>5. PaidKept'
    BY DEF IInv, PaidKept, Accounted, Others, stepVars
  <1> QED
    BY <1>3, <1>4, <1>5 DEF IInv


LEMMA InitKeeps == Init => IInv
  <1> SUFFICES ASSUME Init PROVE IInv
    OBVIOUS
  <1>1. N \in Nat /\ N > 0 /\ Funds \in Nat /\ MaxFaults \in Nat
    BY PipelinesAssumption
  <1>2. TypeOK
    <2>1. order \in Seq(Nodes)
      BY EmptySeq DEF Init
    <2>2. /\ at \in 1 .. N + 1 /\ results \subseteq Nodes /\ faults \in 0 .. MaxFaults
          /\ closed \subseteq Nodes
      BY <1>1 DEF Init
    <2>3. /\ charge \in [Nodes -> {"none", "held", "paid", "refunded"}]
          /\ job \in [Nodes -> {"none", "pending", "running", "complete", "failed", "cancelled"}]
          /\ settled \in [Nodes -> BOOLEAN] /\ worker \in [Nodes -> {"none", "has", "had"}]
      BY DEF Init
    <2>4. deps \in [Nodes -> SUBSET Nodes] /\ funds \in 0 .. Funds
      BY PipelinesAssumption DEF Init
    <2> QED
      BY <2>1, <2>2, <2>3, <2>4 DEF Init, TypeOK
  <1>3. RunKept
    BY DEF Init, RunKept, InStep
  <1>4. StepsKept
    <2>1. results = {} /\ at - 1 = 0 /\ \A n \in Nodes : charge[n] = "none"
      BY DEF Init
    <2> QED
      BY <2>1 DEF StepsKept
  <1>5. JobsKept
    BY DEF Init, JobsKept
  <1>6. PaidKept
    BY DEF Init, PaidKept
  <1>7. FundsKept
    <2>1. Kept = {}
      BY DEF Init, Kept
    <2>2. Cardinality(Kept) = 0
      BY <2>1, FS_EmptySet
    <2> QED
      BY <1>1, <1>2, <2>2 DEF TypeOK, FundsKept
  <1> QED
    BY <1>2, <1>3, <1>4, <1>5, <1>6, <1>7 DEF IInv

LEMMA RunPipelineKeeps == ASSUME IInv, run_pipeline PROVE IInv'
  <1>1. /\ deps \in [Nodes -> SUBSET Nodes] /\ at = 1 /\ order = << >> /\ run = "new"
        /\ pc = "start"
    BY DEF IInv, TypeOK, RunKept, run_pipeline
  <1>2. /\ topological_sort \in Seq(Nodes)
        /\ Len(topological_sort) = N => Proper(topological_sort)
        /\ Len(topological_sort) = N <=> ~Cyclic
    BY <1>1, TopologicalSortCorrect
  <1>3. Cyclic' <=> Cyclic
    BY DEF run_pipeline, Cyclic
  <1>4. /\ UNCHANGED <<deps, at, results, funds, charge, job, settled, worker, closed,
                      faults, cut>>
        /\ \/ /\ ~Cyclic /\ run' = "running" /\ order' = topological_sort /\ pc' = "charge"
              /\ Proper(topological_sort)
           \/ Cyclic /\ run' = "rejected" /\ order' = << >> /\ pc' = "done"
    BY <1>1, <1>2 DEF run_pipeline, Goto, stepVars
  <1>5. order' \in Seq(Nodes)
    BY <1>2, <1>4, EmptySeq
  <1>6. order' = topological_sort /\ Proper(topological_sort) => Proper(order)'
    BY <1>4 DEF Proper, Ranked
  <1>7. \A n \in Nodes : charge[n] = "none"
    BY <1>1 DEF IInv, StepsKept
  <1>8. TypeOK'
    BY <1>4, <1>5 DEF IInv, TypeOK
  <1>9. RunKept'
    <2>1. CASE run' = "running"
      <3>1. pc' = "charge" /\ Proper(order)' /\ ~Cyclic'
        BY <1>3, <1>4, <1>6, <2>1
      <3> QED
        BY <2>1, <3>1 DEF RunKept, InStep
    <2>2. CASE run' = "rejected"
      <3>1. pc' = "done" /\ Cyclic' /\ order' = << >> /\ at' = 1
        BY <1>1, <1>3, <1>4, <2>2
      <3> QED
        BY <2>2, <3>1 DEF RunKept, InStep
    <2> QED
      BY <1>4, <2>1, <2>2
  <1>10. results' = {} /\ at' = 1
    BY <1>1, <1>4 DEF IInv, StepsKept
  <1>11. StepsKept'
    BY <1>4, <1>7, <1>10 DEF StepsKept
  <1>12. JobsKept' /\ FundsKept'
    BY <1>4 DEF IInv, JobsKept, FundsKept, Kept
  <1>13. PaidKept'
    BY <1>4, <1>7, <1>10 DEF PaidKept
  <1> QED
    BY <1>8, <1>9, <1>11, <1>12, <1>13 DEF IInv

LEMMA ChargeStepKeeps == ASSUME IInv, ChargeStep PROVE IInv'
  <1>1. /\ pc = "charge" /\ at <= N /\ run \notin {"new", "rejected"}
        /\ UNCHANGED <<deps, run, order, at, results, job, settled, worker, closed,
                      faults, cut>>
    BY DEF IInv, RunKept, ChargeStep
  <1>2. /\ at \in 1 .. N /\ N \in Nat /\ Funds \in Nat /\ funds \in 0 .. Funds
        /\ charge \in [Nodes -> {"none", "held", "paid", "refunded"}]
    BY <1>1, PipelinesAssumption DEF IInv, TypeOK
  <1>3. /\ order \in [1 .. N -> Nodes] /\ Len(order) = N /\ Node \in Nodes
        /\ \A i, j \in 1 .. N : order[i] = order[j] => i = j
    BY <1>1, <1>2, OrderedNodes DEF Node
  <1>4. CASE UNCHANGED <<funds, charge>> /\ pc' = "abort"
    <2>1. TypeOK'
      BY <1>1, <1>4 DEF IInv, TypeOK
    <2> QED
      BY <1>1, <1>4, <2>1, RunMoves DEF InStep, stepVars, IInv, RunKept
  <1>5. CASE /\ funds > 0 /\ funds' = funds - 1 /\ charge' = [charge EXCEPT ![Node] = "held"]
             /\ pc' = "create"
    <2>1. TypeOK'
      <3>1. charge' \in [Nodes -> {"none", "held", "paid", "refunded"}] /\ funds' \in 0 .. Funds
        BY <1>2, <1>3, <1>5
      <3> QED
        BY <1>1, <1>5, <3>1 DEF IInv, TypeOK
    <2>2. /\ charge'[Node] = "held" /\ Node = order[at]
          /\ \A m \in Nodes : m # Node => charge'[m] = charge[m]
      BY <1>2, <1>3, <1>5 DEF Node
    <2>3. Proper(order)' <=> Proper(order)
      BY <1>1, GraphFixed
    <2>4. Cyclic' <=> Cyclic
      BY <1>1, GraphFixed
    <2>5. RunKept'
      BY <1>1, <1>2, <1>5, <2>2, <2>3, <2>4 DEF IInv, RunKept, InStep
    <2>6. StepsKept'
      BY <1>1, <1>2, <1>3, <1>5, <2>2 DEF IInv, StepsKept
    <2>7. charge[Node] = "none"
      <3> SUFFICES ASSUME charge[Node] # "none" PROVE FALSE
        OBVIOUS
      <3>1. PICK i \in 1 .. at : i <= Len(order) /\ order[i] = Node /\ i < at
        BY <1>1, <1>3 DEF IInv, StepsKept
      <3>2. i \in 1 .. N
        BY <1>2, <3>1
      <3> QED
        BY <1>2, <1>3, <2>2, <3>1, <3>2
    <2>8. JobsKept'
      BY <1>1, <1>3, <2>2, <2>7 DEF IInv, JobsKept
    <2>9. PaidKept'
      <3>1. \A n \in Nodes : Others(n)' <=> Others(n)
        BY <1>1 DEF Others
      <3>2. ASSUME NEW i \in 1 .. at - 1 PROVE Accounted(order[i])'
        <4>1. i \in 1 .. N /\ order[i] # Node /\ order[i] \in Nodes
          BY <1>2, <1>3, <2>2
        <4> QED
          BY <1>1, <1>3, <2>2, <3>1, <4>1 DEF IInv, PaidKept, Accounted
      <3>3. ASSUME NEW n \in Nodes, charge'[n] = "refunded" PROVE Others(n)'
        BY <1>1, <2>2, <3>1, <3>3 DEF IInv, PaidKept
      <3> QED
        BY <1>1, <1>5, <3>2, <3>3 DEF PaidKept
    <2>10. FundsKept'
      <3>1. Kept' = Kept \cup {Node}
        BY <1>3, <2>2 DEF Kept
      <3>2. IsFiniteSet(Kept) /\ Cardinality(Kept) \in Nat
        BY NodesFinite DEF Kept
      <3>3. Node \notin Kept
        BY <2>7 DEF Kept
      <3>4. Cardinality(Kept') = Cardinality(Kept) + 1
        BY <3>1, <3>2, <3>3, FS_AddElement
      <3>5. funds + Cardinality(Kept) <= Funds
        BY DEF IInv, FundsKept
      <3> QED
        BY <1>2, <1>5, <3>2, <3>4, <3>5 DEF FundsKept
    <2> QED
      BY <2>1, <2>5, <2>6, <2>8, <2>9, <2>10 DEF IInv
  <1> QED
    BY <1>4, <1>5 DEF ChargeStep, Goto


\* update_job_status keeps a row a row.
LEMMA StatusEffect ==
    ASSUME IInv, NEW n \in Nodes, NEW s \in {"complete", "failed", "cancelled"},
           update_job_status(n, s)
    PROVE  /\ job' \in [Nodes -> {"none", "pending", "running", "complete", "failed", "cancelled"}]
           /\ \A m \in Nodes : m # n => job'[m] = job[m]
           /\ job'[n] # "none"
  <1>1. job \in [Nodes -> {"none", "pending", "running", "complete", "failed", "cancelled"}]
    BY DEF IInv, TypeOK
  <1>2. CASE Ended(n)
    BY <1>1, <1>2 DEF update_job_status, Ended
  <1>3. CASE ~Ended(n)
    BY <1>1, <1>3 DEF update_job_status
  <1> QED
    BY <1>2, <1>3

\* A step of the thread that changes the job row of its node.
LEMMA JobMoves ==
    ASSUME IInv, UNCHANGED <<deps, run, order, at, results, funds, charge, settled, worker,
                             closed, faults, cut>>,
           job' \in [Nodes -> {"none", "pending", "running", "complete", "failed", "cancelled"}],
           \A m \in Nodes : m # Node => job'[m] = job[m], job'[Node] # "none",
           pc \in {"create", "complete", "fail"}, pc' \in {"fetch", "payout", "refund"}
    PROVE  IInv'
  <1>1. pc \in InStep
    BY DEF InStep
  <1>2. /\ Node \in Nodes /\ at \in 1 .. N /\ run \notin {"new", "rejected"}
        /\ charge[Node] # "none"
    BY <1>1, AtNode
  <1>3. TypeOK'
    BY DEF IInv, TypeOK
  <1>4. Proper(order)' <=> Proper(order)
    BY GraphFixed
  <1>5. Cyclic' <=> Cyclic
    BY GraphFixed
  <1>6. RunKept'
    BY <1>2, <1>4, <1>5 DEF IInv, RunKept, InStep
  <1>7. StepsKept' /\ FundsKept'
    BY DEF IInv, StepsKept, FundsKept, Kept
  <1>8. JobsKept'
    BY <1>2 DEF IInv, JobsKept
  <1>9. PaidKept'
    BY DEF IInv, PaidKept, Accounted, Others
  <1> QED
    BY <1>3, <1>6, <1>7, <1>8, <1>9 DEF IInv

LEMMA CreateStepKeeps == ASSUME IInv, CreateStep PROVE IInv'
  <1>1. pc \in InStep
    BY DEF CreateStep, InStep
  <1>2. /\ Node \in Nodes
        /\ job \in [Nodes -> {"none", "pending", "running", "complete", "failed", "cancelled"}]
    BY <1>1, AtNode DEF IInv, TypeOK
  <1>3. /\ job' \in [Nodes -> {"none", "pending", "running", "complete", "failed", "cancelled"}]
        /\ \A m \in Nodes : m # Node => job'[m] = job[m]
        /\ job'[Node] # "none"
    BY <1>2 DEF CreateStep
  <1> QED
    BY <1>3, JobMoves DEF CreateStep, Goto

LEMMA StepCompleteKeeps == ASSUME IInv, StepComplete PROVE IInv'
  <1>1. pc \in InStep
    BY DEF StepComplete, InStep
  <1>2. Node \in Nodes
    BY <1>1, AtNode
  <1>3. /\ job' \in [Nodes -> {"none", "pending", "running", "complete", "failed", "cancelled"}]
        /\ \A m \in Nodes : m # Node => job'[m] = job[m]
        /\ job'[Node] # "none"
    BY <1>2, StatusEffect DEF StepComplete
  <1> QED
    BY <1>3, JobMoves DEF StepComplete, Goto

LEMMA StepFailKeeps == ASSUME IInv, StepFail PROVE IInv'
  <1>1. pc \in InStep
    BY DEF StepFail, InStep
  <1>2. Node \in Nodes
    BY <1>1, AtNode
  <1>3. /\ job' \in [Nodes -> {"none", "pending", "running", "complete", "failed", "cancelled"}]
        /\ \A m \in Nodes : m # Node => job'[m] = job[m]
        /\ job'[Node] # "none"
    BY <1>2, StatusEffect DEF StepFail
  <1> QED
    BY <1>3, JobMoves DEF StepFail, Goto

\* A step of the thread that gives out the charge of its node.
LEMMA ChargeMoves ==
    ASSUME IInv, UNCHANGED <<deps, run, order, at, results, job, settled, worker, closed,
                             faults, cut>>,
           \/ pc = "payout" /\ Distribute(Node, "paid") /\ pc' = "settle"
           \/ pc = "refund" /\ Distribute(Node, "refunded") /\ pc' = "close"
    PROVE  IInv'
  <1>1. pc \in InStep
    BY DEF InStep
  <1>2. /\ Node \in Nodes /\ at \in 1 .. N /\ run \notin {"new", "rejected"}
        /\ charge[Node] # "none" /\ Node = order[at]
    BY <1>1, AtNode DEF Node
  <1>3. /\ charge' \in [Nodes -> {"none", "held", "paid", "refunded"}]
        /\ funds' \in 0 .. Funds /\ FundsKept'
        /\ \A m \in Nodes : m # Node => charge'[m] = charge[m]
        /\ charge[Node] = "held" => charge'[Node] = IF pc = "payout" THEN "paid" ELSE "refunded"
        /\ charge[Node] # "held" => charge'[Node] = charge[Node]
    <2>1. PICK to \in {"paid", "refunded"} :
            Distribute(Node, to) /\ to = IF pc = "payout" THEN "paid" ELSE "refunded"
      OBVIOUS
    <2> QED
      BY <1>2, <2>1, DistributeEffect
  <1>4. charge'[Node] \in {"paid", "refunded"}
    BY <1>2, <1>3 DEF IInv, TypeOK
  <1>5. TypeOK'
    BY <1>3 DEF IInv, TypeOK
  <1>6. Proper(order)' <=> Proper(order)
    BY GraphFixed
  <1>7. Cyclic' <=> Cyclic
    BY GraphFixed
  <1>8. RunKept'
    BY <1>2, <1>4, <1>6, <1>7 DEF IInv, RunKept, InStep
  <1>9. StepsKept'
    BY <1>2, <1>3 DEF IInv, StepsKept
  <1>10. JobsKept'
    BY <1>2, <1>3, <1>4 DEF IInv, JobsKept
  <1>11. PaidKept'
    <2>1. \A n \in Nodes : Others(n)' <=> Others(n)
      BY DEF Others
    <2>2. ASSUME NEW i \in 1 .. at - 1 PROVE Accounted(order[i])'
      <3>1. order[i] \in Nodes /\ i \in 1 .. N
        BY PastNodes
      <3>2. order[i] # Node
        BY <1>2, <3>1, OrderedNodes
      <3> QED
        BY <1>3, <2>1, <3>1, <3>2 DEF IInv, PaidKept, Accounted
    <2>3. pc = "payout" => charge'[Node] = "paid" \/ (charge'[Node] = "refunded" /\ Others(Node))
      BY <1>2, <1>3, <1>4 DEF IInv, PaidKept
    <2>4. pc = "payout" => Accounted(order[at])'
      BY <1>2, <2>1, <2>3 DEF Accounted
    <2>5. ASSUME NEW n \in Nodes, charge'[n] = "refunded"
          PROVE  Others(n)' \/ (n = Node /\ pc' = "close")
      BY <1>2, <1>3, <2>1, <2>3, <2>5 DEF IInv, PaidKept
    <2> QED
      BY <1>2, <1>4, <2>2, <2>4, <2>5 DEF PaidKept
  <1> QED
    BY <1>3, <1>5, <1>8, <1>9, <1>10, <1>11 DEF IInv

\* A step of the thread that marks the job of its node settled.
LEMMA SettledMoves ==
    ASSUME IInv, \/ pc = "settle" /\ mark_settled("price")
                 \/ pc = "close" /\ mark_settled("abort")
    PROVE  IInv'
  <1>1. pc \in InStep
    BY DEF InStep
  <1>2. /\ Node \in Nodes /\ at \in 1 .. N /\ run \notin {"new", "rejected"}
        /\ charge[Node] # "none" /\ Node = order[at]
    BY <1>1, AtNode DEF Node
  <1>3. /\ UNCHANGED <<deps, run, order, at, results, funds, charge, job, worker, closed,
                      faults, cut>>
        /\ settled' = [settled EXCEPT ![Node] = TRUE]
        /\ (pc = "settle" /\ pc' = "price") \/ (pc = "close" /\ pc' = "abort")
    BY DEF mark_settled, Goto
  <1>4. settled \in [Nodes -> BOOLEAN]
    BY DEF IInv, TypeOK
  <1>5. settled' \in [Nodes -> BOOLEAN] /\ \A m \in Nodes : m # Node => settled'[m] = settled[m]
    BY <1>2, <1>3, <1>4, Zenon
  <1>6. charge[Node] \in {"paid", "refunded"}
    BY <1>2, <1>3 DEF IInv, PaidKept, Accounted
  <1>7. TypeOK'
    BY <1>3, <1>5 DEF IInv, TypeOK
  <1>8. Proper(order)' <=> Proper(order)
    BY <1>3, GraphFixed
  <1>9. Cyclic' <=> Cyclic
    BY <1>3, GraphFixed
  <1>10. RunKept'
    BY <1>2, <1>3, <1>8, <1>9 DEF IInv, RunKept, InStep
  <1>11. StepsKept' /\ FundsKept'
    BY <1>3 DEF IInv, StepsKept, FundsKept, Kept
  <1>12. JobsKept'
    BY <1>3, <1>5, <1>6 DEF IInv, JobsKept
  <1>13. PaidKept'
    BY <1>3 DEF IInv, PaidKept, Accounted, Others
  <1> QED
    BY <1>7, <1>10, <1>11, <1>12, <1>13 DEF IInv


LEMMA RecordStepKeeps == ASSUME IInv, RecordStep PROVE IInv'
  <1>1. /\ pc = "record" /\ results' = results \cup {Node} /\ at' = at + 1 /\ pc' = "charge"
        /\ UNCHANGED <<deps, run, order, funds, charge, job, settled, worker, closed,
                      faults, cut>>
    BY DEF RecordStep, Goto, stepVars
  <1>2. /\ Node \in Nodes /\ at \in 1 .. N /\ run \notin {"new", "rejected"} /\ N \in Nat
        /\ charge[Node] # "none" /\ Node = order[at] /\ Len(order) = N
    BY <1>1, AtNode, OrderedNodes DEF Node, InStep
  <1>3. TypeOK'
    BY <1>1, <1>2 DEF IInv, TypeOK
  <1>4. Proper(order)' <=> Proper(order)
    BY <1>1, GraphFixed
  <1>5. Cyclic' <=> Cyclic
    BY <1>1, GraphFixed
  <1>6. RunKept'
    BY <1>1, <1>2, <1>4, <1>5 DEF IInv, RunKept, InStep
  <1>7. StepsKept'
    <2>1. results' = {order'[i] : i \in 1 .. at' - 1}
      <3>1. results = {order[i] : i \in 1 .. at - 1}
        BY DEF IInv, StepsKept
      <3>2. 1 .. at' - 1 = (1 .. at - 1) \cup {at}
        BY <1>1, <1>2
      <3> QED
        BY <1>1, <1>2, <3>1, <3>2
    <2>2. ASSUME NEW n \in Nodes, charge[n] # "none"
          PROVE  \E i \in 1 .. at' : i <= Len(order) /\ order[i] = n /\ i < at'
      <3>1. PICK i \in 1 .. at : i <= Len(order) /\ order[i] = n
        BY <2>2 DEF IInv, StepsKept
      <3> QED
        BY <1>1, <1>2, <3>1
    <2> QED
      BY <1>1, <2>1, <2>2 DEF StepsKept
  <1>8. JobsKept' /\ FundsKept'
    BY <1>1 DEF IInv, JobsKept, FundsKept, Kept
  <1>9. PaidKept'
    <2>1. ASSUME NEW i \in 1 .. at' - 1 PROVE Accounted(order[i])
      <3>1. i \in 1 .. at - 1 \/ i = at
        BY <1>1, <1>2
      <3> QED
        BY <1>1, <1>2, <3>1 DEF IInv, PaidKept
    <2>2. ASSUME NEW n \in Nodes, charge[n] = "refunded" PROVE Others(n)
      BY <1>1, <2>2 DEF IInv, PaidKept
    <2> QED
      BY <1>1, <2>1, <2>2 DEF PaidKept, Accounted, Others
  <1> QED
    BY <1>3, <1>6, <1>7, <1>8, <1>9 DEF IInv

\* What the pool leaves of the run, when no charge appears.
LEMMA PoolRun ==
    ASSUME IInv, UNCHANGED <<deps, run, order, at, pc, results, faults, cut>>,
           \A m \in Nodes : charge'[m] = "none" <=> charge[m] = "none"
    PROVE  RunKept' /\ StepsKept'
  <1>1. Proper(order)' <=> Proper(order)
    BY GraphFixed
  <1>2. Cyclic' <=> Cyclic
    BY GraphFixed
  <1>3. ASSUME pc \in InStep PROVE at <= N /\ charge'[order[at]] # "none"
    BY <1>3, AtNode DEF Node
  <1>4. RunKept'
    BY <1>1, <1>2, <1>3 DEF IInv, RunKept, InStep
  <1>5. StepsKept'
    BY DEF IInv, StepsKept
  <1> QED
    BY <1>4, <1>5

\* Where the place of the run stands, a charge that has been given out stays, and a
\* new refund is somebody else's.
LEMMA PaidStands ==
    ASSUME IInv, UNCHANGED <<order, at, pc>>,
           \A m \in Nodes : charge[m] \in {"paid", "refunded"} => charge'[m] = charge[m],
           \A m \in Nodes : charge'[m] = "refunded" => charge[m] = "refunded" \/ Others(m)',
           \A m \in Nodes : Others(m) => Others(m)'
    PROVE  PaidKept'
  <1>1. \A m \in Nodes : Accounted(m) => Accounted(m)'
    BY DEF Accounted
  <1>2. ASSUME NEW i \in 1 .. at - 1 PROVE Accounted(order[i])'
    <2>1. order[i] \in Nodes /\ Accounted(order[i])
      BY PastNodes DEF IInv, PaidKept
    <2> QED
      BY <1>1, <2>1
  <1>3. pc \in InStep => order[at] \in Nodes
    BY AtNode DEF Node
  <1>4. pc \in {"settle", "price", "record"} => Accounted(order[at])'
    BY <1>1, <1>3 DEF IInv, PaidKept, InStep
  <1>5. pc = "close" => charge'[order[at]] \in {"paid", "refunded"}
    BY <1>3 DEF IInv, PaidKept, InStep
  <1>6. ASSUME NEW m \in Nodes, charge'[m] = "refunded"
        PROVE  Others(m)' \/ (at <= N /\ m = order[at] /\ pc \in {"close", "abort", "done"})
    BY <1>6 DEF IInv, PaidKept
  <1> QED
    BY <1>2, <1>4, <1>5, <1>6 DEF PaidKept

LEMMA WorkerClaimKeeps == ASSUME IInv, NEW n \in Nodes, WorkerClaim(n) PROVE IInv'
  <1>1. /\ UNCHANGED <<deps, run, order, at, pc, results, funds, charge, settled, closed,
                      faults, cut>>
        /\ job[n] = "pending" /\ worker[n] = "none"
    BY DEF WorkerClaim
  <1>2. /\ job' \in [Nodes -> {"none", "pending", "running", "complete", "failed", "cancelled"}]
        /\ worker' \in [Nodes -> {"none", "has", "had"}]
        /\ job'[n] = "running" /\ worker'[n] = "has"
        /\ \A m \in Nodes : m # n => job'[m] = job[m] /\ worker'[m] = worker[m]
    BY DEF IInv, TypeOK, WorkerClaim
  <1>3. TypeOK'
    BY <1>1, <1>2 DEF IInv, TypeOK
  <1>4. RunKept' /\ StepsKept'
    BY <1>1, PoolRun
  <1>5. JobsKept' /\ FundsKept'
    BY <1>1, <1>2 DEF IInv, JobsKept, FundsKept, Kept
  <1>6. \A m \in Nodes : Others(m) => Others(m)'
    BY <1>1, <1>2 DEF Others
  <1>7. \A m \in Nodes : charge'[m] = charge[m]
    BY <1>1
  <1>8. PaidKept'
    BY <1>1, <1>6, <1>7, PaidStands
  <1> QED
    BY <1>3, <1>4, <1>5, <1>8 DEF IInv

\* Whoever settles a job behind the thread: a charge that is given back had a worker,
\* or its job was closed.
LEMMA PoolSettles ==
    ASSUME IInv, NEW n \in Nodes, NEW to \in {"paid", "refunded"}, Settle(n, to),
           UNCHANGED <<deps, run, order, at, pc, results, faults, cut>>,
           job' \in [Nodes -> {"none", "pending", "running", "complete", "failed", "cancelled"}],
           worker' \in [Nodes -> {"none", "has", "had"}], closed' \subseteq Nodes,
           job[n] # "none", job'[n] # "none", to = "refunded" => Others(n)',
           \A m \in Nodes : Others(m) => Others(m)',
           \A m \in Nodes : worker'[m] # "none" => worker[m] # "none",
           \A m \in Nodes : m # n => job'[m] = job[m]
    PROVE  IInv'
  <1>1. charge[n] # "none"
    BY DEF IInv, JobsKept
  <1>2. /\ charge' \in [Nodes -> {"none", "held", "paid", "refunded"}]
        /\ funds' \in 0 .. Funds /\ FundsKept'
        /\ \A m \in Nodes : m # n => charge'[m] = charge[m]
        /\ charge'[n] = charge[n] \/ charge'[n] = to
        /\ charge[n] \in {"paid", "refunded"} => charge'[n] = charge[n]
        /\ charge'[n] \in {"paid", "refunded"}
    <2>1. CASE settled[n]
      <3>1. UNCHANGED <<charge, funds>> /\ charge[n] \in {"paid", "refunded"}
        BY <2>1 DEF IInv, JobsKept, Settle
      <3> QED
        BY <3>1 DEF IInv, TypeOK, FundsKept, Kept
    <2>2. CASE ~settled[n]
      <3>1. Distribute(n, to)
        BY <2>2 DEF Settle
      <3>2. charge[n] \in {"held", "paid", "refunded"}
        BY <1>1 DEF IInv, TypeOK
      <3> QED
        BY <3>1, <3>2, DistributeEffect
    <2> QED
      BY <2>1, <2>2
  <1>3. settled' \in [Nodes -> BOOLEAN] /\ \A m \in Nodes : m # n => settled'[m] = settled[m]
    <2>1. settled \in [Nodes -> BOOLEAN]
      BY DEF IInv, TypeOK
    <2>2. settled' = settled \/ settled' = [settled EXCEPT ![n] = TRUE]
      BY DEF Settle
    <2> QED
      BY <2>1, <2>2, Zenon
  <1>4. TypeOK'
    BY <1>2, <1>3 DEF IInv, TypeOK
  <1>5. RunKept' /\ StepsKept'
    <2>1. \A m \in Nodes : charge'[m] = "none" <=> charge[m] = "none"
      BY <1>1, <1>2
    <2> QED
      BY <2>1, PoolRun
  <1>6. JobsKept'
    BY <1>1, <1>2, <1>3 DEF IInv, JobsKept
  <1>7. PaidKept'
    <2>1. ASSUME NEW m \in Nodes, charge[m] \in {"paid", "refunded"}
          PROVE  charge'[m] = charge[m]
      BY <1>2, <2>1
    <2>2. ASSUME NEW m \in Nodes, charge'[m] = "refunded"
          PROVE  charge[m] = "refunded" \/ Others(m)'
      BY <1>2, <2>2
    <2> QED
      BY <2>1, <2>2, PaidStands
  <1> QED
    BY <1>2, <1>4, <1>5, <1>6, <1>7 DEF IInv


LEMMA WorkerEndsKeeps == ASSUME IInv, NEW n \in Nodes, WorkerEnds(n) PROVE IInv'
  <1>1. /\ worker[n] = "has" /\ worker' = [worker EXCEPT ![n] = "had"]
        /\ UNCHANGED <<deps, run, order, at, pc, results, closed, faults, cut>>
    BY DEF WorkerEnds
  <1>2. PICK s \in {"complete", "failed", "cancelled"}, to \in {"paid", "refunded"} :
          update_job_status(n, s) /\ Settle(n, to)
    BY DEF WorkerEnds
  <1>3. /\ job' \in [Nodes -> {"none", "pending", "running", "complete", "failed", "cancelled"}]
        /\ \A m \in Nodes : m # n => job'[m] = job[m]
        /\ job'[n] # "none"
    BY <1>2, StatusEffect
  <1>4. /\ worker' \in [Nodes -> {"none", "has", "had"}] /\ worker'[n] = "had"
        /\ \A m \in Nodes : m # n => worker'[m] = worker[m]
    BY <1>1 DEF IInv, TypeOK
  <1>5. /\ job[n] # "none" /\ closed' \subseteq Nodes
        /\ \A m \in Nodes : worker'[m] # "none" => worker[m] # "none"
    BY <1>1, <1>4 DEF IInv, JobsKept, TypeOK
  <1>6. Others(n)' /\ \A m \in Nodes : Others(m) => Others(m)'
    BY <1>1, <1>4 DEF Others
  <1> QED
    BY <1>1, <1>2, <1>3, <1>4, <1>5, <1>6, PoolSettles

\* The cancel and the sweeps: the job goes into closed with its refund.
LEMMA ClosedKeeps ==
    ASSUME IInv, NEW n \in Nodes, jobs_cancel(n) \/ SweepFails(n)
    PROVE  IInv'
  <1>1. /\ Settle(n, "refunded") /\ closed' = closed \cup {n} /\ job[n] # "none"
        /\ UNCHANGED <<deps, run, order, at, pc, results, worker, faults, cut>>
    BY DEF jobs_cancel, SweepFails, Open
  <1>2. PICK s \in {"complete", "failed", "cancelled"} : update_job_status(n, s)
    BY DEF jobs_cancel, SweepFails
  <1>3. /\ job' \in [Nodes -> {"none", "pending", "running", "complete", "failed", "cancelled"}]
        /\ \A m \in Nodes : m # n => job'[m] = job[m]
        /\ job'[n] # "none"
    BY <1>2, StatusEffect
  <1>4. /\ worker' \in [Nodes -> {"none", "has", "had"}] /\ closed' \subseteq Nodes
        /\ \A m \in Nodes : worker'[m] # "none" => worker[m] # "none"
    BY <1>1 DEF IInv, TypeOK
  <1>5. Others(n)' /\ \A m \in Nodes : Others(m) => Others(m)'
    BY <1>1 DEF Others
  <1>6. PICK to \in {"paid", "refunded"} : to = "refunded"
    OBVIOUS
  <1> QED
    BY <1>1, <1>3, <1>4, <1>5, <1>6, PoolSettles

LEMMA SweepCompleteKeeps == ASSUME IInv, NEW n \in Nodes, SweepComplete(n) PROVE IInv'
  <1>1. /\ job[n] = "complete" /\ Settle(n, "paid")
        /\ UNCHANGED <<deps, run, order, at, pc, results, job, worker, closed, faults, cut>>
    BY DEF SweepComplete
  <1>2. /\ job' \in [Nodes -> {"none", "pending", "running", "complete", "failed", "cancelled"}]
        /\ worker' \in [Nodes -> {"none", "has", "had"}] /\ closed' \subseteq Nodes
        /\ job[n] # "none" /\ job'[n] # "none" /\ \A m \in Nodes : job'[m] = job[m]
        /\ \A m \in Nodes : worker'[m] # "none" => worker[m] # "none"
    BY <1>1 DEF IInv, TypeOK
  <1>3. \A m \in Nodes : Others(m) => Others(m)'
    BY <1>1 DEF Others
  <1>4. PICK to \in {"paid", "refunded"} : to = "paid"
    OBVIOUS
  <1> QED
    BY <1>1, <1>2, <1>3, <1>4, PoolSettles

\* A step of the thread that is its place alone.
LEMMA PlaceMoves ==
    ASSUME IInv, \/ FetchOutput \/ StepPriced \/ StepRaises \/ SettleRaises
                 \/ FailureRaises \/ Crash \/ fail_run \/ FinishRun
    PROVE  IInv'
  <1>1. /\ UNCHANGED <<deps, order, at, results, funds, stepVars, closed>>
        /\ pc \notin {"start", "done"}
        /\ run \notin {"new", "rejected"}
    BY DEF FetchOutput, StepPriced, StepRaises, SettleRaises, FailureRaises, Crash, fail_run,
           FinishRun, IInv, RunKept
  <1>2. /\ run' = run \/ run' = "failed" \/ (run' = "complete" /\ at = N + 1)
        /\ pc' \in {"complete", "fail", "record", "abort", "done"}
        /\ pc' \in {"complete", "fail"} => pc \in InStep /\ pc # "close"
        /\ pc' = "record" => pc = "price"
        /\ pc \in {"close", "abort"} => pc' \in {"abort", "done"}
    BY DEF FetchOutput, StepPriced, StepRaises, SettleRaises, FailureRaises, Crash, fail_run,
           FinishRun, Goto, InStep
  <1>3. faults' \in 0 .. MaxFaults /\ cut' \in BOOLEAN
    <2>1. faults' = faults \/ (faults < MaxFaults /\ faults' = faults + 1)
      BY DEF FetchOutput, StepPriced, StepRaises, SettleRaises, FailureRaises, Crash, fail_run,
             FinishRun
    <2>2. faults \in 0 .. MaxFaults /\ MaxFaults \in Nat /\ cut \in BOOLEAN
      BY PipelinesAssumption DEF IInv, TypeOK
    <2>3. cut' = cut \/ cut' = TRUE
      BY DEF FetchOutput, StepPriced, StepRaises, SettleRaises, FailureRaises, Crash, fail_run,
             FinishRun
    <2>4. cut' \in BOOLEAN
      BY <2>2, <2>3
    <2>5. faults' \in 0 .. MaxFaults
      BY <2>1, <2>2
    <2> QED
      BY <2>4, <2>5
  <1>4. TypeOK'
    BY <1>1, <1>2, <1>3 DEF IInv, TypeOK, stepVars
  <1>5. run' # "new" /\ run' # "rejected" /\ (run' = "complete" => at = N + 1)
    BY <1>1, <1>2 DEF IInv, RunKept
  <1>6. /\ pc' \notin {"start", "charge"} /\ (pc' \in InStep => pc \in InStep)
        /\ pc' \in {"settle", "price", "record"} => pc \in {"settle", "price", "record"}
        /\ pc' # "close"
        /\ pc \in {"close", "abort", "done"} => pc' \in {"close", "abort", "done"}
    BY <1>1, <1>2 DEF InStep
  <1> QED
    BY <1>1, <1>4, <1>5, <1>6, RunMoves

LEMMA NextKeeps == ASSUME IInv, [Next]_vars PROVE IInv'
  <1>1. CASE run_pipeline
    BY <1>1, RunPipelineKeeps
  <1>2. CASE ChargeStep
    BY <1>2, ChargeStepKeeps
  <1>3. CASE CreateStep \/ StepComplete \/ StepFail
    BY <1>3, CreateStepKeeps, StepCompleteKeeps, StepFailKeeps
  <1>4. CASE StepPayout \/ StepRefund
    BY <1>4, ChargeMoves DEF StepPayout, StepRefund, Goto
  <1>5. CASE StepSettled \/ StepClosed
    BY <1>5, SettledMoves DEF StepSettled, StepClosed
  <1>6. CASE RecordStep
    BY <1>6, RecordStepKeeps
  <1>7. CASE \/ FetchOutput \/ StepPriced \/ StepRaises \/ SettleRaises
             \/ FailureRaises \/ Crash \/ fail_run \/ FinishRun
    BY <1>7, PlaceMoves
  <1>8. CASE \E n \in Nodes : Pool(n)
    BY <1>8, WorkerClaimKeeps, WorkerEndsKeeps, ClosedKeeps, SweepCompleteKeeps DEF Pool
  <1>9. CASE UNCHANGED vars
    <2>1. UNCHANGED <<deps, run, order, at, pc, results, funds, charge, job, settled, worker,
                      closed, faults, cut>>
      BY <1>9 DEF vars, stepVars
    <2>2. Proper(order)' <=> Proper(order)
      BY <2>1, GraphFixed
    <2>3. Cyclic' <=> Cyclic
      BY <2>1, GraphFixed
    <2>4. TypeOK' /\ StepsKept' /\ JobsKept' /\ PaidKept' /\ FundsKept'
      BY <2>1 DEF IInv, TypeOK, StepsKept, JobsKept, PaidKept, Accounted, Others,
                     FundsKept, Kept
    <2>5. RunKept'
      BY <2>1, <2>2, <2>3 DEF IInv, RunKept
    <2> QED
      BY <2>4, <2>5 DEF IInv
  <1> QED
    BY <1>1, <1>2, <1>3, <1>4, <1>5, <1>6, <1>7, <1>8, <1>9 DEF Next, Thread

LEMMA IInvAlways == Spec => []IInv
  <1>1. Init => IInv
    BY InitKeeps
  <1>2. IInv /\ [Next]_vars => IInv'
    BY NextKeeps
  <1> QED
    BY <1>1, <1>2, PTL DEF Spec

-----------------------------------------------------------------------------
(* The theorems. *)

\* Every state of a run is well-formed; above all the wallet never falls below
\* zero or rises above the largest it can begin with, whoever settles and refunds a step.
THEOREM TypeCorrect == Spec => []TypeOK
  <1>1. IInv => TypeOK
    BY DEF IInv
  <1> QED
    BY <1>1, IInvAlways, PTL

\* validate_definition refuses exactly the definitions with a cycle, the order of
\* the others has every node behind its dependencies, a step is charged only when
\* all it depends on is recorded, and a complete run has run every node: for every
\* graph, whatever raises or crashes on the way.
THEOREM DependenciesFirstAlways == Spec => []DependenciesFirst
  <1>1. ASSUME IInv PROVE DependenciesFirst
    <2>1. run # "new" => (run = "rejected" <=> Cyclic)
      BY <1>1 DEF IInv, RunKept
    <2>2. ASSUME NEW n \in Nodes, charge[n] # "none", NEW d \in deps[n] PROVE d \in results
      <3>1. PICK i \in 1 .. at : i <= Len(order) /\ order[i] = n
        BY <1>1, <2>2 DEF IInv, StepsKept
      <3>2. at \in 1 .. N + 1 /\ N \in Nat
        BY <1>1, NodesFinite DEF IInv, TypeOK
      <3>3. run \notin {"new", "rejected"}
        <4>1. order # << >>
          BY <3>1, <3>2
        <4> QED
          BY <1>1, <4>1 DEF IInv, RunKept
      <3>4. Len(order) = N /\ Ranked(order)
        BY <1>1, <3>3 DEF IInv, RunKept, Proper
      <3>5. PICK j \in 1 .. i - 1 : order[j] = d
        BY <2>2, <3>1, <3>2, <3>4 DEF Ranked
      <3>6. j \in 1 .. at - 1
        BY <3>1, <3>2, <3>5
      <3> QED
        BY <1>1, <3>5, <3>6 DEF IInv, StepsKept
    <2>3. ASSUME run = "complete" PROVE results = Nodes
      <3>1. at = N + 1 /\ N \in Nat /\ results = {order[i] : i \in 1 .. at - 1}
        BY <1>1, <2>3, NodesFinite DEF IInv, RunKept, StepsKept
      <3>2. {order[i] : i \in 1 .. N} = Nodes /\ at - 1 = N
        BY <1>1, <2>3, <3>1, OrderedNodes
      <3> QED
        BY <3>1, <3>2
    <2>4. ASSUME NEW i \in 1 .. Len(order), NEW d \in deps[order[i]]
          PROVE  \E k \in 1 .. i - 1 : order[k] = d
      <3>1. CASE run \in {"new", "rejected"}
        <4>1. order = << >>
          BY <1>1, <3>1 DEF IInv, RunKept
        <4>2. 1 .. Len(order) = {}
          BY <4>1
        <4> QED
          BY <2>4, <4>2
      <3>2. CASE run \notin {"new", "rejected"}
        <4>1. Ranked(order)
          BY <1>1, <3>2 DEF IInv, RunKept, Proper
        <4> QED
          BY <2>4, <4>1 DEF Ranked
      <3> QED
        BY <3>1, <3>2
    <2>5. \A i \in 1 .. Len(order) : deps[order[i]] \subseteq {order[k] : k \in 1 .. i - 1}
      BY <2>4
    <2> QED
      BY <2>1, <2>2, <2>3, <2>5 DEF DependenciesFirst
  <1> QED
    BY <1>1, IInvAlways, PTL

\* Whatever raises, crashes, is taken by a worker, cancelled or swept: a charged step
\* the run is past was recorded, and is paid, or refunded when a worker had its job, or
\* the caller or a sweep ended it; and no job is marked settled over a charge that is
\* still held.
THEOREM OnlyLastStepUnpaidAlways == Spec => []OnlyLastStepUnpaid
  <1>1. ASSUME IInv PROVE OnlyLastStepUnpaid
    <2>1. ASSUME NEW n \in Nodes, charge[n] # "none", at > N \/ n # order[at]
          PROVE  n \in results /\ Accounted(n)
      <3>1. PICK i \in 1 .. at : i <= Len(order) /\ order[i] = n
        BY <1>1, <2>1 DEF IInv, StepsKept
      <3>2. at \in 1 .. N + 1 /\ N \in Nat
        BY <1>1, NodesFinite DEF IInv, TypeOK
      <3>3. run \notin {"new", "rejected"}
        <4>1. order # << >>
          BY <3>1, <3>2
        <4> QED
          BY <1>1, <4>1 DEF IInv, RunKept
      <3>4. Len(order) = N
        BY <1>1, <3>3, OrderedNodes
      <3>5. i \in 1 .. at - 1
        BY <2>1, <3>1, <3>2, <3>4
      <3> QED
        BY <1>1, <3>1, <3>5 DEF IInv, StepsKept, PaidKept
    <2>2. ASSUME NEW n \in Nodes, settled[n] PROVE charge[n] \in {"paid", "refunded"}
      BY <1>1, <2>2 DEF IInv, JobsKept
    <2> QED
      BY <2>1, <2>2 DEF OnlyLastStepUnpaid, Accounted, Others
  <1> QED
    BY <1>1, IInvAlways, PTL
=============================================================================
