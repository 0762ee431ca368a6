---------------------- MODULE ContinueExecutionsProofs -----------------------
(***************************************************************************)
(* What the loop of continueExecutions does to the executions of a process *)
(* instance, for processes of any size and instances with any number of    *)
(* executions.  The proofs of ProcessExecutionProofs rest on it.           *)
(*                                                                         *)
(* Consistent says, in the middle of the loop, what the counts and states  *)
(* are of which decide what ends and what begins, and IterationKeeps and   *)
(* ContinueKeeps that an iteration keeps it.                               *)
(***************************************************************************)
EXTENDS ProcessExecution, TLAPS, FiniteSetTheorems, SequenceTheorems, WellFoundedInduction

(* What is left of the list of executions, in its order. *)
Pending(c) == {c.list[k] : k \in c.next..Len(c.list)} \ {0}
Before(c, x, y) ==
  \E i, j \in c.next..Len(c.list) : i < j /\ c.list[i] = x /\ c.list[j] = y

Distinct(c) ==
  \A i, j \in c.next..Len(c.list) : c.list[i] = c.list[j] /\ c.list[i] # 0 => i = j

Listed(c, x) == \E k \in DOMAIN c.list : c.list[k] = x

CtxType(c) ==
  /\ c \in Contexts
  /\ c.list \in Seq(0..Len(c.entities))
  /\ c.next <= Len(c.list) + 1
  /\ c.entities # <<>>

-----------------------------------------------------------------------------

(* Lists of executions *)

LEMMA RankFacts ==
  ASSUME NEW S \in SUBSET Nat, IsFiniteSet(S), NEW x \in S
  PROVE  /\ Cardinality({y \in S : y < x}) \in 0..Cardinality(S) - 1
         /\ \A z \in S : x < z => Cardinality({y \in S : y < x}) < Cardinality({y \in S : y < z})
  <1>1. /\ IsFiniteSet({y \in S : y < x}) /\ Cardinality({y \in S : y < x}) \in Nat
        /\ Cardinality({y \in S : y < x}) <= Cardinality(S)
        /\ Cardinality({y \in S : y < x}) # Cardinality(S)
    BY FS_Subset, FS_CardinalityType
  <1>2. ASSUME NEW z \in S, x < z
        PROVE  Cardinality({y \in S : y < x}) < Cardinality({y \in S : y < z})
    <2>1. IsFiniteSet({y \in S : y < z}) /\ Cardinality({y \in S : y < z}) \in Nat
      BY FS_Subset, FS_CardinalityType
    <2>2. {y \in S : y < x} \in SUBSET {y \in S : y < z}
      <3>1. \A y \in S : y < x => y < z
        BY <1>2
      <3>. QED BY <3>1
    <2>3. {y \in S : y < x} # {y \in S : y < z}
      BY <1>2
    <2>. QED BY <1>1, <2>1, <2>2, <2>3, FS_Subset
  <1>. QED BY <1>1, <1>2, FS_CardinalityType

(* Ids lists the members of a set, each once, in their order. *)
LEMMA IdsFacts ==
  ASSUME NEW S \in SUBSET Nat, IsFiniteSet(S)
  PROVE  /\ Ids(S) \in Seq(S) /\ Len(Ids(S)) = Cardinality(S) /\ Cardinality(S) \in Nat
         /\ \A x \in S : \E k \in 1..Cardinality(S) : Ids(S)[k] = x
         /\ \A k, l \in 1..Cardinality(S) : k < l => Ids(S)[k] < Ids(S)[l]
  <1>. DEFINE rank == [x \in S |-> Cardinality({y \in S : y < x})]
              n == Cardinality(S)
  <1>1. n \in Nat
    BY FS_CardinalityType
  <1>2. \A x \in S : rank[x] \in 0..n - 1
    BY RankFacts
  <1>3. \A x, z \in S : x < z => rank[x] < rank[z]
    BY RankFacts
  <1>. HIDE DEF n, rank
  <1>4. rank \in Injection(S, 0..n - 1)
    <2>1. rank \in [S -> 0..n - 1]
      BY <1>2 DEF rank
    <2>2. \A x, z \in S : rank[x] = rank[z] => x = z
      BY <1>1, <1>2, <1>3
    <2>. QED BY <2>1, <2>2 DEF Injection, IsInjective
  <1>5. IsFiniteSet(0..n - 1) /\ Cardinality(0..n - 1) = n
    BY <1>1, FS_Interval
  <1>6. rank \in Surjection(S, 0..n - 1)
    BY <1>4, <1>5, FS_Injection DEF n
  <1>7. \A k \in 1..n : \E x \in S : rank[x] = k - 1
    BY <1>1, <1>6 DEF Surjection
  <1>8. ASSUME NEW k \in 1..n
        PROVE  Ids(S)[k] \in S /\ rank[Ids(S)[k]] = k - 1
    <2>1. PICK x \in S : rank[x] = k - 1
      BY <1>7
    <2>2. Cardinality({y \in S : y < x}) = k - 1
      BY <2>1 DEF rank
    <2>3. Ids(S)[k] \in S /\ Cardinality({y \in S : y < Ids(S)[k]}) = k - 1
      BY <2>2 DEF Ids, n
    <2>. QED BY <2>3 DEF rank
  <1>9. Ids(S) \in [1..n -> S]
    BY <1>8 DEF Ids, n
  <1>10. Ids(S) \in Seq(S) /\ Len(Ids(S)) = n
    BY <1>1, <1>9
  <1>11. ASSUME NEW x \in S PROVE \E k \in 1..n : Ids(S)[k] = x
    <2>1. PICK k \in 1..n : rank[x] = k - 1
      BY <1>1, <1>2
    <2>2. rank[Ids(S)[k]] = rank[x] /\ Ids(S)[k] \in S
      BY <1>8, <2>1
    <2>3. PICK z \in S : z = Ids(S)[k]
      BY <2>2
    <2>4. z < x \/ x < z \/ z = x
      OBVIOUS
    <2>5. z = x
      BY <2>2, <2>3, <2>4, <1>1, <1>2, <1>3
    <2>. QED BY <2>3, <2>5
  <1>12. ASSUME NEW k \in 1..n, NEW l \in 1..n, k < l PROVE Ids(S)[k] < Ids(S)[l]
    <2>1. Ids(S)[k] \in S /\ Ids(S)[l] \in S /\ rank[Ids(S)[k]] < rank[Ids(S)[l]]
      BY <1>8, <1>12, <1>1
    <2>2. PICK z \in S, y \in S : z = Ids(S)[k] /\ y = Ids(S)[l]
      BY <2>1
    <2>3. z < y \/ y < z \/ z = y
      OBVIOUS
    <2>4. z < y
      BY <2>1, <2>2, <2>3, <1>1, <1>2, <1>3
    <2>. QED BY <2>2, <2>4
  <1>. QED BY <1>1, <1>10, <1>11, <1>12 DEF n

(* The list of d is that of c, extended by S. *)
Extended(c, d, S) ==
  /\ d.list \in Seq(0..Len(d.entities))
  /\ d.next = c.next /\ d.next <= Len(d.list) + 1
  /\ Pending(d) = Pending(c) \cup S
  /\ Distinct(d)
  /\ \A x, y : Before(c, x, y) /\ x \notin S => Before(d, x, y)
  /\ \A x \in Pending(c) \ S, y \in S : Before(d, x, y)
  /\ \A x : x # 0 => (Listed(d, x) <=> Listed(c, x) \/ x \in S)

LEMMA ExtendedBy ==
  ASSUME NEW c, NEW d, NEW S \in SUBSET (Nat \ {0}), NEW m \in Nat,
         CtxType(c), Distinct(c),
         d.list \in Seq(0..Len(d.entities)), d.next = c.next,
         Len(d.list) = Len(c.list) + m,
         \A k \in 1..Len(c.list) :
           d.list[k] = c.list[k] \/ (d.list[k] = 0 /\ c.list[k] \in S),
         \A k \in c.next..Len(c.list) : d.list[k] \notin S,
         \A k \in 1..m : d.list[Len(c.list) + k] \in S,
         \A x \in S : \E k \in 1..m : d.list[Len(c.list) + k] = x,
         \A k, l \in 1..m : d.list[Len(c.list) + k] = d.list[Len(c.list) + l] => k = l
  PROVE  Extended(c, d, S)
  <1>. DEFINE L == Len(c.list)
  <1>1. L \in Nat /\ c.next \in Nat /\ 1 <= c.next /\ c.next <= L + 1
    BY DEF CtxType, Contexts
  <1>2. \A k \in 1..L : c.list[k] \in Nat
    BY SMTT(20) DEF CtxType
  <1>3. DOMAIN c.list = 1..L /\ DOMAIN d.list = 1..L + m
    BY <1>1 DEF CtxType
  <1>4. \A k \in c.next..L + m :
          \/ k \in c.next..L /\ k \in 1..L /\ d.list[k] \notin S
          \/ k - L \in 1..m /\ d.list[k] \in S /\ L + (k - L) = k
    <2>. SUFFICES ASSUME NEW k \in c.next..L + m, ~(k <= L)
                  PROVE  k - L \in 1..m /\ d.list[k] \in S /\ L + (k - L) = k
      BY <1>1
    <2>1. k - L \in 1..m /\ Len(c.list) + (k - L) = k
      BY <1>1
    <2>2. d.list[Len(c.list) + (k - L)] \in S
      BY <2>1
    <2>. QED BY <2>1, <2>2
  <1>. HIDE DEF L
  <1>0. /\ Pending(c) = {c.list[k] : k \in c.next..L} \ {0}
        /\ Pending(d) = {d.list[k] : k \in c.next..L + m} \ {0}
    BY DEF Pending, L
  <1>5. ASSUME NEW x \in Pending(d), x \notin S PROVE x \in Pending(c)
    <2>1. PICK k \in c.next..L + m : d.list[k] = x /\ x # 0
      BY <1>0
    <2>2. k \in c.next..L /\ k \in 1..L
      BY <1>4, <1>5, <2>1
    <2>3. d.list[k] = c.list[k]
      BY <1>5, <2>1, <2>2 DEF L
    <2>. QED BY <2>1, <2>2, <2>3, <1>0
  <1>6. ASSUME NEW k \in c.next..L, c.list[k] \notin S
        PROVE  k \in c.next..Len(d.list) /\ d.list[k] = c.list[k]
    <2>1. k \in 1..L /\ k \in c.next..L + m
      BY <1>1
    <2>. QED BY <2>1, <1>6 DEF L
  <1>7. \A x \in S : \E k \in c.next..Len(d.list) : k > L /\ d.list[k] = x
    <2>. SUFFICES ASSUME NEW x \in S
                  PROVE  \E k \in c.next..Len(d.list) : k > L /\ d.list[k] = x
      OBVIOUS
    <2>1. PICK k \in 1..m : d.list[L + k] = x
      BY DEF L
    <2>2. L + k \in c.next..Len(d.list) /\ L + k > L
      BY <1>1 DEF L
    <2>. QED BY <2>1, <2>2
  <1>8. ASSUME NEW x \in Pending(c) \cup S PROVE x \in Pending(d)
    <2>1. CASE x \in S
      <3>1. PICK k \in c.next..L + m : d.list[k] = x
        BY <1>7, <2>1 DEF L
      <3>. QED BY <3>1, <2>1, <1>0
    <2>2. CASE x \notin S
      <3>1. PICK k \in c.next..L : c.list[k] = x /\ x # 0
        BY <1>0, <2>2
      <3>2. k \in c.next..L + m /\ d.list[k] = x
        BY <1>6, <2>2, <3>1 DEF L
      <3>. QED BY <3>1, <3>2, <1>0
    <2>. QED BY <2>1, <2>2
  <1>9. Distinct(d)
    <2>. SUFFICES ASSUME NEW i \in c.next..L + m, NEW j \in c.next..L + m,
                         d.list[i] = d.list[j], d.list[i] # 0
                  PROVE  i = j
      BY DEF Distinct, L
    <2>1. CASE d.list[i] \in S
      <3>1. i - L \in 1..m /\ j - L \in 1..m /\ L + (i - L) = i /\ L + (j - L) = j
        BY <2>1, <1>4
      <3>2. PICK k \in 1..m, l \in 1..m : k = i - L /\ l = j - L
        BY <3>1
      <3>3. d.list[Len(c.list) + k] = d.list[Len(c.list) + l]
        BY <3>1, <3>2 DEF L
      <3>4. k = l
        BY <3>3
      <3>. QED BY <3>2, <3>4, <1>1
    <2>2. CASE d.list[i] \notin S
      <3>1. i \in c.next..L /\ j \in c.next..L /\ i \in 1..L /\ j \in 1..L
        BY <2>2, <1>4
      <3>2. d.list[i] = c.list[i] /\ d.list[j] = c.list[j]
        BY <3>1 DEF L
      <3>. QED BY <3>1, <3>2 DEF Distinct, L
    <2>. QED BY <2>1, <2>2
  <1>10. ASSUME NEW x, NEW y, Before(c, x, y), x \notin S PROVE Before(d, x, y)
    <2>1. PICK i \in c.next..L, j \in c.next..L : i < j /\ c.list[i] = x /\ c.list[j] = y
      BY <1>10 DEF Before, L
    <2>2. i \in c.next..Len(d.list) /\ d.list[i] = x
      BY <1>6, <1>10, <2>1
    <2>3. CASE y \notin S
      BY <1>6, <2>1, <2>2, <2>3 DEF Before
    <2>4. CASE y \in S
      <3>1. PICK k \in c.next..Len(d.list) : k > L /\ d.list[k] = y
        BY <1>7, <2>4
      <3>2. i < k
        BY <2>1, <3>1, <1>1
      <3>. QED BY <2>2, <3>1, <3>2 DEF Before
    <2>. QED BY <2>3, <2>4
  <1>11. ASSUME NEW x \in Pending(c) \ S, NEW y \in S PROVE Before(d, x, y)
    <2>1. PICK i \in c.next..L : c.list[i] = x
      BY DEF Pending, L
    <2>2. i \in c.next..Len(d.list) /\ d.list[i] = x
      BY <1>6, <2>1
    <2>3. PICK k \in c.next..Len(d.list) : k > L /\ d.list[k] = y
      BY <1>7
    <2>4. i < k
      BY <2>1, <2>3, <1>1
    <2>. QED BY <2>2, <2>3, <2>4 DEF Before
  <1>12. ASSUME NEW x, x # 0 PROVE Listed(d, x) <=> Listed(c, x) \/ x \in S
    <2>1. ASSUME NEW k \in 1..L + m, d.list[k] = x PROVE Listed(c, x) \/ x \in S
      <3>1. CASE k \in 1..L
        BY <3>1, <2>1, <1>12, <1>3 DEF Listed, L
      <3>2. CASE k \notin 1..L
        <4>1. k - L \in 1..m /\ L + (k - L) = k
          BY <3>2, <1>1
        <4>. QED BY <4>1, <2>1 DEF L
      <3>. QED BY <3>1, <3>2
    <2>2. ASSUME NEW k \in 1..L, c.list[k] = x, x \notin S PROVE Listed(d, x)
      <3>1. k \in 1..L + m /\ d.list[k] = x
        BY <2>2, <1>1 DEF L
      <3>. QED BY <3>1, <1>3 DEF Listed
    <2>3. ASSUME x \in S PROVE Listed(d, x)
      <3>1. PICK k \in 1..m : d.list[L + k] = x
        BY <2>3 DEF L
      <3>2. L + k \in 1..L + m
        BY <1>1
      <3>. QED BY <3>1, <3>2, <1>3 DEF Listed
    <2>. QED BY <2>1, <2>2, <2>3, <1>3 DEF Listed
  <1>13. d.next <= Len(d.list) + 1
    BY <1>1 DEF L
  <1>. QED BY <1>5, <1>8, <1>9, <1>10, <1>11, <1>12, <1>13 DEF Extended

LEMMA AddExecutionsExtends ==
  ASSUME NEW c, CtxType(c), Distinct(c), NEW S \in SUBSET (1..Len(c.entities)),
         \A x \in S : IsNew(x) => x \notin Pending(c)
  PROVE  LET d == AddExecutions(c, S)
         IN  /\ Extended(c, d, S)
             /\ d \in Contexts /\ d.entities = c.entities /\ d.instance = c.instance
  <1>. DEFINE d == AddExecutions(c, S)
              L == Len(c.list)
              old == [k \in DOMAIN c.list |->
                        IF c.list[k] \in S /\ ~IsNew(c.list[k]) THEN 0 ELSE c.list[k]]
  <1>1. /\ c \in Contexts /\ c.entities \in Seq(Row) /\ c.next \in Nat \ {0}
        /\ c.list \in Seq(0..Len(c.entities)) /\ c.next <= L + 1 /\ L \in Nat
        /\ Len(c.entities) \in Nat
    BY DEF CtxType, Contexts
  <1>2. IsFiniteSet(S) /\ S \in SUBSET Nat
    <2>1. IsFiniteSet(1..Len(c.entities))
      BY <1>1, FS_Interval
    <2>2. IsFiniteSet(S)
      BY <2>1, FS_Subset
    <2>. QED BY <2>2
  <1>3. /\ Ids(S) \in Seq(S) /\ Len(Ids(S)) = Cardinality(S) /\ Cardinality(S) \in Nat
        /\ \A x \in S : \E k \in 1..Cardinality(S) : Ids(S)[k] = x
        /\ \A k, l \in 1..Cardinality(S) : k < l => Ids(S)[k] < Ids(S)[l]
    BY <1>2, IdsFacts
  <1>4. old \in Seq(0..Len(c.entities)) /\ Len(old) = L /\ DOMAIN c.list = 1..L
    <2>1. DOMAIN c.list = 1..L
      BY <1>1
    <2>2. \A k \in 1..L : old[k] \in 0..Len(c.entities)
      BY <1>1, <2>1
    <2>3. old \in [1..L -> 0..Len(c.entities)]
      BY <2>1, <2>2
    <2>. QED BY <1>1, <2>1, <2>3
  <1>5. /\ d.list = old \o Ids(S) /\ d.entities = c.entities /\ d.next = c.next
        /\ d.instance = c.instance
    BY <1>1 DEF AddExecutions, Contexts
  <1>. HIDE DEF d, old, L
  <1>6. Ids(S) \in Seq(0..Len(c.entities))
    <2>1. S \subseteq 0..Len(c.entities)
      BY <1>1
    <2>. QED BY <2>1, <1>3, SeqMonotonic
  <1>7. /\ d.list \in Seq(0..Len(c.entities)) /\ Len(d.list) = L + Cardinality(S)
        /\ \A k \in 1..L + Cardinality(S) :
             d.list[k] = IF k <= L THEN old[k] ELSE Ids(S)[k - L]
    <2>. DEFINE ids == Ids(S)
    <2>. HIDE DEF ids
    <2>1. ids \in Seq(0..Len(c.entities)) /\ Len(ids) = Cardinality(S)
      BY <1>3, <1>6 DEF ids
    <2>2. /\ old \o ids \in Seq(0..Len(c.entities)) /\ Len(old \o ids) = Len(old) + Len(ids)
          /\ \A k \in 1..Len(old) + Len(ids) :
               (old \o ids)[k] = IF k <= Len(old) THEN old[k] ELSE ids[k - Len(old)]
      BY <2>1, <1>4, ConcatProperties
    <2>. QED BY <2>1, <2>2, <1>4, <1>5 DEF ids
  <1>8. \A k \in 1..L : d.list[k] = IF c.list[k] \in S /\ ~IsNew(c.list[k]) THEN 0 ELSE c.list[k]
    <2>1. \A k \in 1..L : k \in 1..L + Cardinality(S) /\ k <= L
      BY <1>1, <1>3
    <2>. QED BY <2>1, <1>4, <1>7 DEF old
  <1>9. \A k \in 1..Cardinality(S) : d.list[L + k] = Ids(S)[k]
    <2>. SUFFICES ASSUME NEW k \in 1..Cardinality(S) PROVE d.list[L + k] = Ids(S)[k]
      OBVIOUS
    <2>1. L + k \in 1..L + Cardinality(S) /\ ~(L + k <= L) /\ (L + k) - L = k
      BY <1>1, <1>3
    <2>. QED BY <1>7, <2>1
  <1>10. \A k \in 1..Cardinality(S) : Ids(S)[k] \in S
    BY <1>3, ElementOfSeq
  <1>11. \A k \in c.next..L : d.list[k] \notin S
    <2>. SUFFICES ASSUME NEW k \in c.next..L, d.list[k] \in S PROVE FALSE
      OBVIOUS
    <2>1. k \in 1..L
      BY <1>1
    <2>2. d.list[k] # 0
      BY <1>1
    <2>3. d.list[k] = c.list[k] /\ IsNew(c.list[k])
      BY <1>8, <2>1, <2>2
    <2>4. c.list[k] \in Pending(c)
      BY <2>2, <2>3 DEF Pending, L
    <2>. QED BY <2>3, <2>4
  <1>12. \A k, l \in 1..Cardinality(S) : d.list[L + k] = d.list[L + l] => k = l
    <2>. SUFFICES ASSUME NEW k \in 1..Cardinality(S), NEW l \in 1..Cardinality(S),
                         Ids(S)[k] = Ids(S)[l], k < l
                  PROVE  FALSE
      BY <1>3, <1>9
    <2>1. Ids(S)[k] \in Nat
      BY <1>2, <1>10
    <2>. QED BY <1>3, <2>1
  <1>13. Extended(c, d, S)
    <2>1. S \in SUBSET (Nat \ {0})
      BY <1>1
    <2>2. \A k \in 1..Len(c.list) : d.list[k] = c.list[k] \/ (d.list[k] = 0 /\ c.list[k] \in S)
      BY <1>8 DEF L
    <2>3. \A k \in 1..Cardinality(S) : d.list[Len(c.list) + k] \in S
      BY <1>9, <1>10 DEF L
    <2>4. \A x \in S : \E k \in 1..Cardinality(S) : d.list[Len(c.list) + k] = x
      BY <1>3, <1>9 DEF L
    <2>. QED BY <2>1, <2>2, <2>3, <2>4, <1>1, <1>3, <1>5, <1>7, <1>11, <1>12, ExtendedBy, ZenonT(40) DEF L
  <1>14. d \in Contexts
    <2>1. d.list \in Seq(Nat)
      BY <1>7, <1>1, SeqMonotonic
    <2>. QED BY <2>1, <1>1, <1>5 DEF Contexts, d, AddExecutions
  <1>. QED BY <1>5, <1>13, <1>14 DEF d

LEMMA CtxFacts ==
  ASSUME NEW c, CtxType(c)
  PROVE  /\ c \in Contexts /\ c.entities \in Seq(Row) /\ c.next \in Nat \ {0}
         /\ c.list \in Seq(0..Len(c.entities)) /\ c.next <= Len(c.list) + 1
         /\ Len(c.list) \in Nat /\ DOMAIN c.list = 1..Len(c.list)
         /\ Len(c.entities) \in Nat \ {0} /\ DOMAIN c.entities = 1..Len(c.entities)
         /\ Pending(c) \subseteq 1..Len(c.entities)
         /\ \A k \in 1..Len(c.list) : c.list[k] \in 0..Len(c.entities)
         /\ \A x \in 1..Len(c.entities) : c.entities[x] \in Row
         /\ c.instance \in InstanceState
  <1>1. /\ c \in Contexts /\ c.entities \in Seq(Row) /\ c.next \in Nat \ {0}
        /\ c.list \in Seq(0..Len(c.entities)) /\ c.next <= Len(c.list) + 1
        /\ c.instance \in InstanceState /\ c.entities # <<>>
    BY DEF CtxType, Contexts
  <1>2. /\ Len(c.list) \in Nat /\ DOMAIN c.list = 1..Len(c.list)
        /\ Len(c.entities) \in Nat \ {0} /\ DOMAIN c.entities = 1..Len(c.entities)
    BY <1>1, LenProperties, EmptySeq
  <1>3. /\ \A k \in 1..Len(c.list) : c.list[k] \in 0..Len(c.entities)
        /\ \A x \in 1..Len(c.entities) : c.entities[x] \in Row
    BY <1>1, ElementOfSeq
  <1>4. ASSUME NEW x \in Pending(c) PROVE x \in 1..Len(c.entities)
    <2>1. PICK k \in c.next..Len(c.list) : c.list[k] = x /\ x # 0
      BY DEF Pending
    <2>2. k \in 1..Len(c.list)
      BY <1>1, <1>2
    <2>. QED BY <2>1, <2>2, <1>2, <1>3
  <1>. QED BY <1>1, <1>2, <1>3, <1>4

LEMMA RowCounted ==
  ASSUME NEW r \in Row, NEW n \in Int
  PROVE  [r EXCEPT !.count = @ + n] \in Row
  BY DEF Row

(* One sequence after another. *)
LEMMA Appended ==
  ASSUME NEW T, NEW s \in Seq(T), NEW n \in Nat, NEW t \in [1..n -> T]
  PROVE  /\ s \o t \in Seq(T) /\ Len(s \o t) = Len(s) + n
         /\ \A k \in 1..Len(s) : (s \o t)[k] = s[k]
         /\ \A k \in 1..n : (s \o t)[Len(s) + k] = t[k]
  <1>1. t \in Seq(T) /\ Len(t) = n /\ Len(s) \in Nat
    OBVIOUS
  <1>2. /\ s \o t \in Seq(T) /\ Len(s \o t) = Len(s) + n
        /\ \A k \in 1..Len(s) + n : (s \o t)[k] = IF k <= Len(s) THEN s[k] ELSE t[k - Len(s)]
    BY <1>1, ConcatProperties
  <1>3. ASSUME NEW k \in 1..n PROVE (s \o t)[Len(s) + k] = t[k]
    <2>1. Len(s) + k \in 1..Len(s) + n /\ ~(Len(s) + k <= Len(s)) /\ (Len(s) + k) - Len(s) = k
      BY <1>1
    <2>. QED BY <1>2, <2>1
  <1>4. ASSUME NEW k \in 1..Len(s) PROVE (s \o t)[k] = s[k]
    <2>1. k \in 1..Len(s) + n /\ k <= Len(s)
      BY <1>1
    <2>. QED BY <1>2, <2>1
  <1>. QED BY <1>2, <1>3, <1>4

Numbers(n, m) == n + 1..n + m

LEMMA BranchesExtends ==
  ASSUME NEW c, CtxType(c), Distinct(c), NEW s \in 1..Len(c.entities), NEW new \in Seq(Row)
  PROVE  LET d == Branches(c, s, new)
         IN  /\ Extended(c, d, Numbers(Len(c.entities), Len(new))) /\ CtxType(d)
             /\ d.instance = c.instance
             /\ Len(d.entities) = Len(c.entities) + Len(new)
             /\ \A x \in 1..Len(c.entities) : d.entities[x] =
                  IF x = s THEN [c.entities[s] EXCEPT !.count = @ + Len(new)] ELSE c.entities[x]
             /\ \A k \in 1..Len(new) : d.entities[Len(c.entities) + k] =
                  [new[k] EXCEPT !.multi = @ /\ ~c.entities[s].multi]
  <1>. DEFINE d == Branches(c, s, new)
              n == Len(c.entities)
              m == Len(new)
              r == [c.entities[s] EXCEPT !.count = @ + m]
              e == [c.entities EXCEPT ![s] = r]
              created == [k \in 1..m |-> [new[k] EXCEPT !.multi = @ /\ ~c.entities[s].multi]]
              ids == [k \in 1..m |-> n + k]
  <1>1. /\ c \in Contexts /\ c.entities \in Seq(Row) /\ c.next \in Nat \ {0}
        /\ c.list \in Seq(0..n) /\ c.next <= Len(c.list) + 1 /\ Len(c.list) \in Nat
        /\ n \in Nat \ {0} /\ DOMAIN c.entities = 1..n /\ Pending(c) \subseteq 1..n
        /\ \A k \in 1..Len(c.list) : c.list[k] \in 0..n
    BY CtxFacts
  <1>2. m \in Nat /\ DOMAIN new = 1..m /\ \A k \in 1..m : new[k] \in Row
    BY LenProperties, ElementOfSeq
  <1>3. c.entities[s] \in Row
    BY <1>1, ElementOfSeq
  <1>4. r \in Row
    <2>. HIDE DEF m
    <2>1. m \in Int
      BY <1>2
    <2>. QED BY <2>1, <1>3, RowCounted, Zenon
  <1>5. e \in Seq(Row) /\ Len(e) = n /\ \A x \in 1..n : e[x] = IF x = s THEN r ELSE c.entities[x]
    <2>. HIDE DEF r
    <2>. QED BY <1>1, <1>4, ExceptSeq
  <1>6. created \in [1..m -> Row]
    <2>1. ASSUME NEW k \in 1..m PROVE [new[k] EXCEPT !.multi = @ /\ ~c.entities[s].multi] \in Row
      <3>1. new[k] \in Row /\ c.entities[s].multi \in BOOLEAN
        BY <1>2, <1>3 DEF Row
      <3>2. (new[k].multi /\ ~c.entities[s].multi) \in BOOLEAN
        BY <3>1
      <3>. QED BY <3>1, <3>2 DEF Row
    <2>. QED BY <2>1
  <1>7. /\ d.entities = e \o created /\ d.list = c.list \o ids
        /\ d.next = c.next /\ d.instance = c.instance
    BY <1>1, <1>2, <1>3 DEF Branches, AddCount, Contexts, Row
  <1>. HIDE DEF d, e, r, created
  <1>8. /\ d.entities \in Seq(Row) /\ Len(d.entities) = n + m
        /\ \A x \in 1..n : d.entities[x] = e[x]
        /\ \A k \in 1..m : d.entities[n + k] = created[k]
    <2>. HIDE DEF n, m
    <2>1. /\ e \o created \in Seq(Row) /\ Len(e \o created) = Len(e) + m
          /\ \A x \in 1..Len(e) : (e \o created)[x] = e[x]
          /\ \A k \in 1..m : (e \o created)[Len(e) + k] = created[k]
      <3>1. m \in Nat /\ e \in Seq(Row) /\ created \in [1..m -> Row]
        BY <1>2, <1>5, <1>6
      <3>. QED BY ONLY <3>1, Appended
    <2>. QED BY <2>1, <1>5, <1>7
  <1>9. /\ d.list \in Seq(0..n + m) /\ Len(d.list) = Len(c.list) + m
        /\ \A k \in 1..Len(c.list) : d.list[k] = c.list[k]
        /\ \A k \in 1..m : d.list[Len(c.list) + k] = n + k
    <2>. HIDE DEF n, m
    <2>. DEFINE T == 0..n + m
    <2>1. ids \in [1..m -> T]
      BY <1>1, <1>2
    <2>2. c.list \in Seq(T)
      <3>1. 0..n \subseteq T
        BY <1>1, <1>2
      <3>. QED BY <3>1, <1>1, SeqMonotonic
    <2>. HIDE DEF ids, T
    <2>3. /\ c.list \o ids \in Seq(T) /\ Len(c.list \o ids) = Len(c.list) + m
          /\ \A k \in 1..Len(c.list) : (c.list \o ids)[k] = c.list[k]
          /\ \A k \in 1..m : (c.list \o ids)[Len(c.list) + k] = ids[k]
      <3>1. m \in Nat
        BY <1>2
      <3>. QED BY ONLY <3>1, <2>1, <2>2, Appended
    <2>. QED BY <2>3, <1>7 DEF ids, T
  <1>10. Extended(c, d, Numbers(n, m))
    <2>. HIDE DEF n, m
    <2>1. Numbers(n, m) \in SUBSET (Nat \ {0})
      BY <1>1, <1>2 DEF Numbers
    <2>2. \A k \in c.next..Len(c.list) : d.list[k] \notin Numbers(n, m)
      <3>1. \A k \in c.next..Len(c.list) : k \in 1..Len(c.list)
        BY <1>1
      <3>2. \A k \in 1..Len(c.list) : d.list[k] \in 0..n
        BY <1>1, <1>9
      <3>. QED BY <3>1, <3>2, <1>1, <1>2 DEF Numbers
    <2>3. /\ \A k \in 1..m : d.list[Len(c.list) + k] \in Numbers(n, m)
          /\ \A k, l \in 1..m : d.list[Len(c.list) + k] = d.list[Len(c.list) + l] => k = l
      <3>1. \A k \in 1..m : n + k \in n + 1..n + m
        BY <1>1, <1>2
      <3>2. \A k, l \in 1..m : n + k = n + l => k = l
        BY <1>1, <1>2
      <3>. QED BY <3>1, <3>2, <1>9 DEF Numbers
    <2>4. \A x \in Numbers(n, m) : \E k \in 1..m : d.list[Len(c.list) + k] = x
      <3>. SUFFICES ASSUME NEW x \in Numbers(n, m)
                    PROVE  \E k \in 1..m : d.list[Len(c.list) + k] = x
        OBVIOUS
      <3>1. x - n \in 1..m /\ n + (x - n) = x
        BY <1>1, <1>2 DEF Numbers
      <3>. QED BY <3>1, <1>9
    <2>5. d.list \in Seq(0..Len(d.entities))
      BY <1>8, <1>9
    <2>6. d.next = c.next /\ m \in Nat
      BY <1>2, <1>7
    <2>7. /\ Len(d.list) = Len(c.list) + m
          /\ \A k \in 1..Len(c.list) :
               d.list[k] = c.list[k] \/ (d.list[k] = 0 /\ c.list[k] \in Numbers(n, m))
      BY <1>9
    <2>. HIDE DEF d
    <2>. QED BY <2>1, <2>2, <2>3, <2>4, <2>5, <2>6, <2>7, ExtendedBy, Zenon
  <1>11. CtxType(d)
    <2>1. 0..n + m \subseteq Nat
      BY <1>1, <1>2
    <2>2. d.list \in Seq(Nat)
      BY <2>1, <1>9, SeqMonotonic
    <2>3. d \in Contexts
      <3>1. d.entities \in Seq(Row) /\ d.next \in Nat \ {0} /\ d.instance \in InstanceState
        BY <1>1, <1>7, <1>8 DEF Contexts
      <3>2. AddCount(c, s, m) \in Contexts
        BY <1>1, <1>5 DEF AddCount, Contexts, e, r
      <3>3. PICK a \in Contexts : a = AddCount(c, s, m)
        BY <3>2
      <3>4. d = [a EXCEPT !.entities = d.entities, !.list = d.list]
        BY <3>3 DEF d, Branches, Contexts
      <3>. QED BY <3>1, <3>4, <2>2 DEF Contexts
    <2>4. d.entities # <<>>
      BY <1>1, <1>2, <1>8
    <2>. QED BY <2>3, <2>4, <1>10 DEF CtxType, Extended
  <1>12. \A k \in 1..m : created[k] = [new[k] EXCEPT !.multi = @ /\ ~c.entities[s].multi]
    BY DEF created
  <1>13. \A x \in 1..n : d.entities[x] = IF x = s THEN r ELSE c.entities[x]
    BY <1>5, <1>8
  <1>14. \A k \in 1..m : d.entities[n + k] = [new[k] EXCEPT !.multi = @ /\ ~c.entities[s].multi]
    BY <1>8, <1>12
  <1>. QED BY <1>7, <1>8, <1>10, <1>11, <1>13, <1>14 DEF d, r

-----------------------------------------------------------------------------

(* The invariant *)

(* What the count of x counts: what is active within x, and what has ended    *)
(* and is still to be continued, as t is now; and the boundary events x waits *)
(* for.                                                                       *)
Kids(c, t, x) ==
  {y \in DOMAIN c.entities :
     /\ c.entities[y].parent = x
     /\ IsActive(c.entities[y]) \/ y \in Pending(c) \/ y = t}

IsUnset(r) ==
  IsBoundaryEvent(r) /\ IsActive(r) /\ ~Graph[r.element].defined /\ ~r.context

UnsetOf(c, x) == {b \in DOMAIN c.entities : c.entities[b].prev = x /\ IsUnset(c.entities[b])}

IsScope(r) == Type(r) \in {"process", "subProcess"} \/ r.multi

(* What is within r goes on, or is held back. *)
IsOpen(r) == r.state \in {"STARTED", "SUSPENDED"}

(* No job of r is open. *)
Idle(r) == IsActivity(r) => r.work = 0

(* How rows refer to each other. *)
ShapeOf(e, x) ==
  /\ e[x].parent \in 0..x - 1 /\ e[x].prev \in 0..x - 1
  /\ e[x].parent = 0 <=> x = 1
  /\ Type(e[x]) = "process" <=> x = 1
  /\ e[x].multi => Graph[e[x].element].multiple
  /\ x # 1 => /\ IsScope(e[e[x].parent])
              /\ IsMultiInstanceActivity(e[x]) <=> e[e[x].parent].multi
  /\ IsBoundaryEvent(e[x]) =>
       /\ e[x].prev # 0
       /\ IsActivity(e[e[x].prev]) /\ ~IsMultiInstanceActivity(e[e[x].prev])
       /\ e[e[x].prev].parent = e[x].parent
  /\ IsMultiInstanceActivity(e[x]) /\ e[x].prev # 0 => e[e[x].prev].parent = e[x].parent
  /\ e[x].prev # 0 =>
       IsBoundaryEvent(e[x]) \/ IsMultiInstanceActivity(e[x]) \/ Type(e[x]) = "parallel"

(* The state of row x is r, with what it counts, and whether it is pending    *)
(* and has been listed at all.                                                *)
RowState(r, x, kids, unset, pending, listed) ==
  /\ r.state = "QUEUED" => x = 1 \/ Type(r) = "startEvent"
  /\ r.state = "NEW" => r.work = 0 /\ pending
  /\ IsActive(r) /\ kids # {} => r.state \in {"STARTED", "QUEUED", "SUSPENDED"}
  /\ unset # {} => r.state \in {"CREATED", "TERMINATED"}
  /\ IsActivity(r) /\ IsActive(r) /\ r.work > 0 =>
       unset = {} /\ kids = {} /\ ~listed /\ r.work = 1 /\ r.state # "SUSPENDED"
  /\ IsBoundaryEvent(r) /\ r.state = "SUSPENDED" => r.work = 0
  /\ IsMultiInstanceActivity(r) /\ r.state = "CREATED" => r.work = 0 /\ r.prev # 0
  /\ IsUnset(r) => r.state \in {"NEW", "CREATED", "SUSPENDED"}
  /\ IsBoundaryEvent(r) => r.state # "QUEUED"
  /\ IsBoundaryEvent(r) /\ r.state = "STARTED" => pending
  /\ IsBoundaryEvent(r) /\ IsActive(r) /\ ~r.context /\ Graph[r.element].defined =>
       listed \/ r.work = 0
  /\ IsActivity(r) /\ r.state = "COMPLETED" => ~pending
  /\ Type(r) = "parallel" => r.state # "CREATED"

(* Row t is the one that is being continued. *)
StateOf(c, x, t) ==
  RowState(c.entities[x], x, Kids(c, t, x), UnsetOf(c, x), x \in Pending(c) \/ x = t, Listed(c, x))

ActiveWithin(c) ==
  \A x \in DOMAIN c.entities :
    x # 1 /\ IsActive(c.entities[x]) => IsActive(c.entities[c.entities[x].parent])

(* What has ended is continued before its scope that has. *)
Order(c) ==
  \A x \in Pending(c) :
    x # 1 /\ ~IsActive(c.entities[c.entities[x].parent]) => Before(c, x, c.entities[x].parent)

CountedRow(c, t, x) ==
  IF IsActive(c.entities[x])
  THEN c.entities[x].count = Cardinality(Kids(c, t, x)) - Cardinality(UnsetOf(c, x))
  ELSE c.entities[x].count <= Cardinality(Kids(c, t, x))

(* The count of the process is looked at after that of its last execution: s  *)
(* is the scope whose count is to be looked at.                               *)
ProcessOf(c, s) ==
  /\ c.entities[1].state \in {"QUEUED", "STARTED", "SUSPENDED"} \cup Ended
  /\ IsActive(c.entities[1]) => c.instance = c.entities[1].state /\ (s # 1 => c.entities[1].count > 0)
  /\ ~IsActive(c.entities[1]) => c.instance \in Ended
  /\ c.entities[1].state = "QUEUED" =>
       \A x \in DOMAIN c.entities \ {1} : Type(c.entities[x]) = "startEvent"

Consistent(c, t, s) ==
  /\ CtxType(c) /\ Distinct(c)
  /\ \A x \in DOMAIN c.entities : ShapeOf(c.entities, x)
  /\ ActiveWithin(c) /\ Order(c)
  /\ \A x \in DOMAIN c.entities : CountedRow(c, t, x)
  /\ \A x \in DOMAIN c.entities : StateOf(c, x, t)
  /\ ProcessOf(c, s)

(* A new scope is listed, and not a second time while it is pending. *)
NewOnce(c, t) ==
  \A x \in DOMAIN c.entities : IsNew(x) =>
    Listed(c, x) /\ (x \in Pending(c) /\ x # 1 => Kids(c, t, x) = {})

(* The rows of d are those of c, as to what they refer to. *)
SameRow(r, q) ==
  /\ r.element = q.element /\ r.parent = q.parent /\ r.prev = q.prev /\ r.multi = q.multi

LEMMA SetsOf ==
  ASSUME NEW c, NEW t, CtxType(c), NEW x
  PROVE  /\ Kids(c, t, x) \subseteq 1..Len(c.entities) /\ UnsetOf(c, x) \subseteq 1..Len(c.entities)
         /\ IsFiniteSet(Kids(c, t, x)) /\ IsFiniteSet(UnsetOf(c, x))
         /\ Cardinality(Kids(c, t, x)) \in Nat /\ Cardinality(UnsetOf(c, x)) \in Nat
         /\ Cardinality(Kids(c, t, x)) = 0 <=> Kids(c, t, x) = {}
         /\ Cardinality(UnsetOf(c, x)) = 0 <=> UnsetOf(c, x) = {}
  <1>1. Len(c.entities) \in Nat /\ DOMAIN c.entities = 1..Len(c.entities)
    BY CtxFacts
  <1>2. Kids(c, t, x) \subseteq 1..Len(c.entities) /\ UnsetOf(c, x) \subseteq 1..Len(c.entities)
    BY <1>1 DEF Kids, UnsetOf
  <1>3. IsFiniteSet(1..Len(c.entities))
    BY <1>1, FS_Interval
  <1>4. IsFiniteSet(Kids(c, t, x)) /\ IsFiniteSet(UnsetOf(c, x))
    BY <1>2, <1>3, FS_Subset
  <1>. QED BY <1>2, <1>4, FS_CardinalityType, FS_EmptySet

(* Rows that do not change as to what they refer to keep their shape. *)
LEMMA SameShape ==
  ASSUME NEW e, NEW f, NEW n \in Nat, NEW x \in 1..n,
         \A y \in 1..n : SameRow(f[y], e[y]), ShapeOf(e, x)
  PROVE  ShapeOf(f, x)
  <1>1. SameRow(f[x], e[x])
    OBVIOUS
  <1>2. \A y \in 1..x - 1 : SameRow(f[y], e[y])
    OBVIOUS
  <1>. QED BY <1>1, <1>2 DEF ShapeOf, SameRow, IsScope, IsMultiInstanceActivity, IsBoundaryEvent, IsActivity, Type

(* A change that keeps what row x counts and what counts it. *)
SameCount(c, t, d, u, x) ==
  /\ SameRow(d.entities[x], c.entities[x])
  /\ d.entities[x].count = c.entities[x].count
  /\ IsActive(d.entities[x]) <=> IsActive(c.entities[x])
  /\ IsUnset(d.entities[x]) <=> IsUnset(c.entities[x])
  /\ IsActive(d.entities[x]) \/ x \in Pending(d) \/ x = u <=>
     IsActive(c.entities[x]) \/ x \in Pending(c) \/ x = t
  /\ RowState(d.entities[x], x, Kids(c, t, x), UnsetOf(c, x),
              x \in Pending(d) \/ x = u, Listed(d, x))

LEMMA SameSets ==
  ASSUME NEW c, NEW t, NEW d, NEW u, CtxType(c), CtxType(d), Len(d.entities) = Len(c.entities),
         \A x \in 1..Len(c.entities) : SameCount(c, t, d, u, x)
  PROVE  \A x : Kids(d, u, x) = Kids(c, t, x) /\ UnsetOf(d, x) = UnsetOf(c, x)
  <1>1. DOMAIN c.entities = 1..Len(c.entities) /\ DOMAIN d.entities = 1..Len(c.entities)
    BY CtxFacts
  <1>. QED BY <1>1 DEF SameCount, Kids, UnsetOf, SameRow

(* What a change means for the invariant that keeps all counts, and what they *)
(* count: the rows of c are those of d, and t was what u is now.              *)
LEMMA SameCounts ==
  ASSUME NEW c, NEW t, NEW s, Consistent(c, t, s),
         NEW d, NEW u, NEW v, CtxType(d), Distinct(d), Len(d.entities) = Len(c.entities),
         \A x \in 1..Len(c.entities) : SameCount(c, t, d, u, x),
         Order(d), ProcessOf(d, v)
  PROVE  Consistent(d, u, v)
  <1>. DEFINE n == Len(c.entities)
  <1>1. /\ CtxType(c) /\ \A x \in DOMAIN c.entities : ShapeOf(c.entities, x)
        /\ ActiveWithin(c)
        /\ \A x \in DOMAIN c.entities : CountedRow(c, t, x)
    BY DEF Consistent
  <1>2. n \in Nat \ {0} /\ DOMAIN c.entities = 1..n /\ DOMAIN d.entities = 1..n
    BY <1>1, CtxFacts
  <1>. HIDE DEF n
  <1>3. \A x : Kids(d, u, x) = Kids(c, t, x) /\ UnsetOf(d, x) = UnsetOf(c, x)
    BY <1>1, SameSets
  <1>4. \A x \in 1..n : ShapeOf(d.entities, x)
    <2>1. n \in Nat /\ \A x \in 1..n : SameRow(d.entities[x], c.entities[x])
      BY <1>2 DEF SameCount, n
    <2>2. \A x \in 1..n : ShapeOf(c.entities, x)
      BY <1>1, <1>2
    <2>. HIDE DEF n
    <2>. QED BY <2>1, <2>2, SameShape
  <1>5. ActiveWithin(d)
    <2>. SUFFICES ASSUME NEW x \in 1..n, x # 1, IsActive(d.entities[x])
                  PROVE  IsActive(d.entities[d.entities[x].parent])
      BY <1>2 DEF ActiveWithin
    <2>1. IsActive(c.entities[c.entities[x].parent]) /\ d.entities[x].parent = c.entities[x].parent
      BY <1>1, <1>2 DEF ActiveWithin, SameCount, SameRow, n
    <2>2. c.entities[x].parent \in 1..n
      BY <1>1, <1>2 DEF ShapeOf
    <2>. QED BY <2>1, <2>2 DEF SameCount, n
  <1>6. \A x \in 1..n : CountedRow(d, u, x)
    BY <1>1, <1>2, <1>3 DEF CountedRow, SameCount, n
  <1>7. \A x \in 1..n : StateOf(d, x, u)
    BY <1>3 DEF StateOf, SameCount, n
  <1>. QED BY <1>2, <1>3, <1>4, <1>5, <1>6, <1>7 DEF Consistent

(* One row is another one. *)
LEMMA Replaced ==
  ASSUME NEW c, CtxType(c), NEW x \in 1..Len(c.entities), NEW r \in Row
  PROVE  LET d == [c EXCEPT !.entities[x] = r]
         IN  /\ CtxType(d) /\ Len(d.entities) = Len(c.entities) /\ d.instance = c.instance
             /\ d.list = c.list /\ d.next = c.next
             /\ \A y \in 1..Len(c.entities) : d.entities[y] = IF y = x THEN r ELSE c.entities[y]
  <1>. DEFINE d == [c EXCEPT !.entities[x] = r]
  <1>1. c \in Contexts /\ c.entities \in Seq(Row) /\ c.entities # <<>>
    BY CtxFacts DEF CtxType
  <1>2. /\ d.entities = [c.entities EXCEPT ![x] = r]
        /\ d.list = c.list /\ d.next = c.next /\ d.instance = c.instance
    BY <1>1 DEF Contexts
  <1>3. /\ d.entities \in Seq(Row) /\ Len(d.entities) = Len(c.entities)
        /\ \A y \in 1..Len(c.entities) : d.entities[y] = IF y = x THEN r ELSE c.entities[y]
    BY <1>1, <1>2, ExceptSeq
  <1>4. d \in Contexts
    <2>1. d = [c EXCEPT !.entities = d.entities]
      BY <1>1 DEF Contexts
    <2>. HIDE DEF d
    <2>. QED BY <1>1, <1>3, <2>1 DEF Contexts
  <1>5. CtxType(d)
    <2>. HIDE DEF d
    <2>1. Len(c.entities) > 0
      BY CtxFacts
    <2>. QED BY <1>2, <1>3, <1>4, <2>1 DEF CtxType
  <1>. QED BY <1>2, <1>3, <1>5

LEMMA SameList ==
  ASSUME NEW c, NEW d, d.list = c.list, d.next = c.next
  PROVE  /\ Pending(d) = Pending(c) /\ (Distinct(d) <=> Distinct(c))
         /\ \A x : Listed(d, x) <=> Listed(c, x)
         /\ \A x, y : Before(d, x, y) <=> Before(c, x, y)
  BY DEF Pending, Distinct, Listed, Before

LEMMA OrderKept ==
  ASSUME NEW c, NEW t, NEW s, Consistent(c, t, s), NEW d,
         \A x \in 1..Len(c.entities) :
           /\ SameRow(d.entities[x], c.entities[x])
           /\ IsActive(d.entities[x]) <=> IsActive(c.entities[x]),
         \A x \in Pending(d) :
           /\ x \in 1..Len(c.entities)
           /\ x \in Pending(c) \/ IsActive(c.entities[x])
           /\ x \in Pending(c) => \A y : Before(c, x, y) => Before(d, x, y)
  PROVE  Order(d)
  <1>1. /\ CtxType(c) /\ \A x \in DOMAIN c.entities : ShapeOf(c.entities, x)
        /\ ActiveWithin(c) /\ Order(c)
    BY DEF Consistent
  <1>2. DOMAIN c.entities = 1..Len(c.entities) /\ Len(c.entities) \in Nat
    BY <1>1, CtxFacts
  <1>. SUFFICES ASSUME NEW x \in Pending(d), x # 1, ~IsActive(d.entities[d.entities[x].parent])
                PROVE  Before(d, x, d.entities[x].parent)
    BY DEF Order
  <1>3. x \in 1..Len(c.entities)
    OBVIOUS
  <1>4. c.entities[x].parent \in 1..Len(c.entities) /\ d.entities[x].parent = c.entities[x].parent
    BY <1>1, <1>2, <1>3 DEF ShapeOf, SameRow
  <1>5. ~IsActive(c.entities[c.entities[x].parent])
    BY <1>4
  <1>6. x \in Pending(c)
    BY <1>1, <1>2, <1>3, <1>5 DEF ActiveWithin
  <1>7. Before(c, x, c.entities[x].parent)
    BY <1>1, <1>5, <1>6 DEF Order
  <1>. QED BY <1>4, <1>6, <1>7

(* An active execution other than the process changes, or is not continued    *)
(* any more.                                                                  *)
Put(c, x, r) == [c EXCEPT !.entities[x] = r]

RowChanges(c, t, x, r, u) ==
  /\ x \in 2..Len(c.entities) /\ r \in Row /\ (u = t \/ (t = x /\ u = 0))
  /\ SameRow(r, c.entities[x]) /\ r.count = c.entities[x].count
  /\ IsActive(r) /\ IsActive(c.entities[x]) /\ (IsUnset(r) <=> IsUnset(c.entities[x]))
  /\ RowState(r, x, Kids(c, t, x), UnsetOf(c, x), x \in Pending(c) \/ x = u, Listed(c, x))

LEMMA RowChange ==
  ASSUME NEW c, NEW t, NEW s, Consistent(c, t, s), NewOnce(c, t),
         NEW x, NEW r, NEW u, RowChanges(c, t, x, r, u),
         NEW d, d = Put(c, x, r)
  PROVE  /\ Consistent(d, u, s) /\ NewOnce(d, u)
         /\ \A y : Kids(d, u, y) = Kids(c, t, y) /\ UnsetOf(d, y) = UnsetOf(c, y)
  <1>0. /\ x \in 2..Len(c.entities) /\ r \in Row /\ (u = t \/ (t = x /\ u = 0))
        /\ SameRow(r, c.entities[x]) /\ r.count = c.entities[x].count
        /\ IsActive(r) /\ IsActive(c.entities[x]) /\ (IsUnset(r) <=> IsUnset(c.entities[x]))
        /\ RowState(r, x, Kids(c, t, x), UnsetOf(c, x), x \in Pending(c) \/ x = u, Listed(c, x))
    BY DEF RowChanges
  <1>1. /\ CtxType(c) /\ Distinct(c) /\ \A y \in DOMAIN c.entities : StateOf(c, y, t)
        /\ ProcessOf(c, s)
    BY DEF Consistent
  <1>2. x \in 1..Len(c.entities) /\ x # 1 /\ Len(c.entities) \in Nat \ {0}
        /\ DOMAIN c.entities = 1..Len(c.entities) /\ Pending(c) \subseteq 1..Len(c.entities)
    BY <1>0, <1>1, CtxFacts
  <1>3. /\ CtxType(d) /\ Len(d.entities) = Len(c.entities) /\ d.instance = c.instance
        /\ d.list = c.list /\ d.next = c.next
        /\ \A y \in 1..Len(c.entities) : d.entities[y] = IF y = x THEN r ELSE c.entities[y]
    BY <1>0, <1>1, <1>2, Replaced DEF Put
  <1>4. /\ Pending(d) = Pending(c) /\ Distinct(d)
        /\ \A y : Listed(d, y) <=> Listed(c, y)
        /\ \A y, z : Before(d, y, z) <=> Before(c, y, z)
    BY <1>1, <1>3, SameList
  <1>5. ASSUME NEW y \in 1..Len(c.entities)
        PROVE  SameCount(c, t, d, u, y)
    <2>1. CASE y = x
      BY <2>1, <1>0, <1>3, <1>4 DEF SameCount, RowState
    <2>2. CASE y # x
      <3>1. d.entities[y] = c.entities[y] /\ StateOf(c, y, t)
        BY <2>2, <1>1, <1>2, <1>3
      <3>2. y = u <=> y = t
        BY <2>2, <1>0, <1>2
      <3>. QED BY <3>1, <3>2, <1>4 DEF StateOf, SameRow, SameCount, RowState
    <2>. QED BY <2>1, <2>2
  <1>6. Order(d)
    <2>1. \A y \in Pending(d) : y \in 1..Len(c.entities) /\ y \in Pending(c)
      BY <1>2, <1>4
    <2>. QED BY <1>4, <1>5, <2>1, OrderKept DEF SameCount
  <1>7. ProcessOf(d, s)
    <2>1. DOMAIN d.entities = 1..Len(c.entities)
      BY <1>3, CtxFacts
    <2>2. d.entities[1] = c.entities[1]
      BY <1>0, <1>2, <1>3
    <2>3. \A y \in 1..Len(c.entities) : Type(d.entities[y]) = Type(c.entities[y])
      BY <1>0, <1>3 DEF SameRow, Type
    <2>. QED BY <1>1, <1>2, <1>3, <2>1, <2>2, <2>3 DEF ProcessOf
  <1>8. /\ Consistent(d, u, s)
        /\ \A y : Kids(d, u, y) = Kids(c, t, y) /\ UnsetOf(d, y) = UnsetOf(c, y)
    <2>1. \A y \in 1..Len(c.entities) : SameCount(c, t, d, u, y)
      BY <1>5
    <2>2. Consistent(d, u, s)
      BY <2>1, <1>3, <1>4, <1>6, <1>7, SameCounts
    <2>. QED BY <2>1, <2>2, <1>1, <1>3, SameSets
  <1>9. NewOnce(d, u)
    BY <1>2, <1>3, <1>4, <1>8, CtxFacts DEF NewOnce
  <1>. QED BY <1>8, <1>9

(* The next execution of the list is taken. *)
LEMMA Advance ==
  ASSUME NEW c, NEW s, Consistent(c, 0, s), NewOnce(c, 0),
         c.next <= Len(c.list), NEW x, x = c.list[c.next], x # 0
  PROVE  LET d == [c EXCEPT !.next = @ + 1]
         IN  /\ Consistent(d, x, s) /\ NewOnce(d, x)
             /\ x \in Pending(c) /\ x \notin Pending(d)
             /\ x \in 1..Len(c.entities)
             /\ \A y : Kids(d, x, y) = Kids(c, 0, y) /\ UnsetOf(d, y) = UnsetOf(c, y)
  <1>. DEFINE d == [c EXCEPT !.next = @ + 1]
  <1>1. /\ CtxType(c) /\ Distinct(c) /\ \A y \in DOMAIN c.entities : StateOf(c, y, 0)
        /\ ProcessOf(c, s)
    BY DEF Consistent
  <1>2. /\ c \in Contexts /\ c.next \in Nat \ {0} /\ Len(c.list) \in Nat
        /\ Len(c.entities) \in Nat \ {0} /\ DOMAIN c.entities = 1..Len(c.entities)
        /\ Pending(c) \subseteq 1..Len(c.entities)
    BY <1>1, CtxFacts
  <1>3. /\ d.list = c.list /\ d.next = c.next + 1 /\ d.entities = c.entities
        /\ d.instance = c.instance
    BY <1>2 DEF Contexts
  <1>4. CtxType(d)
    <2>1. c.next + 1 \in Nat \ {0}
      BY <1>2
    <2>2. d = [c EXCEPT !.next = c.next + 1]
      BY <1>2 DEF Contexts
    <2>3. d \in Contexts
      BY <1>2, <2>1, <2>2 DEF Contexts
    <2>. HIDE DEF d
    <2>. QED BY <1>1, <1>2, <1>3, <2>3 DEF CtxType
  <1>. HIDE DEF d
  <1>5. c.next \in c.next..Len(c.list)
    BY <1>2
  <1>6. x \in Pending(c) /\ x \in 1..Len(c.entities)
    BY <1>2, <1>5 DEF Pending
  <1>7. \A k \in d.next..Len(d.list) : k \in c.next..Len(c.list) /\ k # c.next
    BY <1>2, <1>3
  <1>8. \A k \in c.next..Len(c.list) : k # c.next => k \in d.next..Len(d.list)
    BY <1>2, <1>3
  <1>9. \A k \in d.next..Len(d.list) : d.list[k] # x
    BY <1>3, <1>5, <1>7, <1>1 DEF Distinct
  <1>10. x \notin Pending(d)
    BY <1>9 DEF Pending
  <1>11. Distinct(d)
    BY <1>1, <1>3, <1>7 DEF Distinct
  <1>12. ASSUME NEW y PROVE y \in Pending(d) <=> y \in Pending(c) /\ y # x
    <2>1. ASSUME y \in Pending(d) PROVE y \in Pending(c)
      BY <2>1, <1>3, <1>7 DEF Pending
    <2>2. ASSUME y \in Pending(c), y # x PROVE y \in Pending(d)
      <3>1. PICK k \in c.next..Len(c.list) : c.list[k] = y /\ y # 0
        BY <2>2 DEF Pending
      <3>2. k \in d.next..Len(d.list) /\ d.list[k] = y
        BY <3>1, <2>2, <1>3, <1>8
      <3>. QED BY <3>1, <3>2 DEF Pending
    <2>. QED BY <2>1, <2>2, <1>10
  <1>13. \A y : Listed(d, y) <=> Listed(c, y)
    BY <1>3 DEF Listed
  <1>14. ASSUME NEW y \in Pending(d), NEW z, Before(c, y, z) PROVE Before(d, y, z)
    <2>1. PICK i \in c.next..Len(c.list), j \in c.next..Len(c.list) :
            i < j /\ c.list[i] = y /\ c.list[j] = z
      BY <1>14 DEF Before
    <2>2. y # x
      BY <1>10
    <2>3. i # c.next /\ j # c.next
      BY <2>1, <2>2, <1>2
    <2>. QED BY <2>1, <2>3, <1>3, <1>8 DEF Before
  <1>15. Order(d)
    BY <1>2, <1>3, <1>12, <1>14, OrderKept DEF SameRow
  <1>16. ProcessOf(d, s)
    BY <1>1, <1>3 DEF ProcessOf
  <1>17. ASSUME NEW y \in 1..Len(c.entities)
        PROVE  SameCount(c, 0, d, x, y)
    <2>1. y # 0 /\ (y \in Pending(d) \/ y = x <=> y \in Pending(c))
      BY <1>6, <1>12
    <2>2. RowState(c.entities[y], y, Kids(c, 0, y), UnsetOf(c, y), y \in Pending(c), Listed(c, y))
      <3>1. StateOf(c, y, 0)
        BY <1>1, <1>2
      <3>2. (y \in Pending(c) \/ y = 0) <=> y \in Pending(c)
        BY <2>1
      <3>. QED BY <3>1, <3>2 DEF StateOf, RowState
    <2>3. RowState(d.entities[y], y, Kids(c, 0, y), UnsetOf(c, y),
                           y \in Pending(d) \/ y = x, Listed(d, y))
      BY <2>1, <2>2, <1>3, <1>13 DEF RowState
    <2>. QED BY <2>1, <2>3, <1>3 DEF SameRow, SameCount
  <1>18. /\ Consistent(d, x, s)
         /\ \A y : Kids(d, x, y) = Kids(c, 0, y) /\ UnsetOf(d, y) = UnsetOf(c, y)
    <2>1. Len(d.entities) = Len(c.entities)
      BY <1>3
    <2>2. \A y \in 1..Len(c.entities) : SameCount(c, 0, d, x, y)
      BY <1>17
    <2>3. Consistent(d, x, s)
      BY <2>1, <2>2, <1>4, <1>11, <1>15, <1>16, SameCounts
    <2>. QED BY <2>1, <2>2, <2>3, <1>1, <1>4, SameSets
  <1>19. NewOnce(d, x)
    BY <1>3, <1>12, <1>13, <1>18 DEF NewOnce
  <1>. QED BY <1>6, <1>10, <1>18, <1>19 DEF d

Counted(r, n) == [r EXCEPT !.count = @ + n]

(* Active executions are added to the list. *)
LEMMA AddActive ==
  ASSUME NEW c, NEW t, NEW s, Consistent(c, t, s), NewOnce(c, t),
         NEW S \in SUBSET (1..Len(c.entities)),
         \A x \in S : /\ IsActive(c.entities[x])
                      /\ IsNew(x) => x \notin Pending(c) /\ Kids(c, t, x) = {}
                      /\ Idle(c.entities[x])
  PROVE  LET d == AddExecutions(c, S)
         IN  /\ Consistent(d, t, s) /\ NewOnce(d, t)
             /\ d.entities = c.entities /\ Pending(d) = Pending(c) \cup S
             /\ \A x : x # 0 => (Listed(d, x) <=> Listed(c, x) \/ x \in S)
             /\ \A y : Kids(d, t, y) = Kids(c, t, y) /\ UnsetOf(d, y) = UnsetOf(c, y)
  <1>. DEFINE d == AddExecutions(c, S)
  <1>1. /\ CtxType(c) /\ Distinct(c) /\ \A y \in DOMAIN c.entities : StateOf(c, y, t)
        /\ ProcessOf(c, s)
    BY DEF Consistent
  <1>2. /\ Len(c.entities) \in Nat \ {0} /\ DOMAIN c.entities = 1..Len(c.entities)
        /\ Pending(c) \subseteq 1..Len(c.entities)
    BY <1>1, CtxFacts
  <1>3. /\ Extended(c, d, S)
        /\ d \in Contexts /\ d.entities = c.entities /\ d.instance = c.instance
    BY <1>1, AddExecutionsExtends
  <1>. HIDE DEF d
  <1>4. /\ d.next = c.next /\ d.next <= Len(d.list) + 1 /\ Pending(d) = Pending(c) \cup S
        /\ Distinct(d)
        /\ \A x, y : Before(c, x, y) /\ x \notin S => Before(d, x, y)
        /\ \A x : x # 0 => (Listed(d, x) <=> Listed(c, x) \/ x \in S)
        /\ d.list \in Seq(0..Len(d.entities))
    BY <1>3 DEF Extended
  <1>5. CtxType(d)
    BY <1>1, <1>3, <1>4 DEF CtxType
  <1>6. Order(d)
    <2>. SUFFICES ASSUME NEW x \in Pending(d), x # 1, ~IsActive(d.entities[d.entities[x].parent])
                  PROVE  Before(d, x, d.entities[x].parent)
      BY DEF Order
    <2>1. x \notin S
      <3>1. ActiveWithin(c)
        BY DEF Consistent
      <3>. QED BY <3>1, <1>2, <1>3 DEF ActiveWithin
    <2>2. x \in Pending(c)
      BY <2>1, <1>4
    <2>3. Before(c, x, c.entities[x].parent)
      <3>1. Order(c)
        BY DEF Consistent
      <3>. QED BY <3>1, <2>2, <1>3 DEF Order
    <2>. QED BY <2>1, <2>3, <1>3, <1>4
  <1>7. ProcessOf(d, s)
    BY <1>1, <1>3 DEF ProcessOf
  <1>8. ASSUME NEW y \in 1..Len(c.entities)
        PROVE  SameCount(c, t, d, t, y)
    <2>1. RowState(c.entities[y], y, Kids(c, t, y), UnsetOf(c, y),
                   y \in Pending(c) \/ y = t, Listed(c, y))
      BY <1>1, <1>2 DEF StateOf
    <2>2. y # 0
      OBVIOUS
    <2>3. RowState(d.entities[y], y, Kids(c, t, y), UnsetOf(c, y),
                           y \in Pending(d) \/ y = t, Listed(d, y))
      <3>1. CASE y \in S
        <4>1. IsActive(c.entities[y])
          BY <3>1
        <4>2. y \in Pending(d) /\ Listed(d, y)
          BY <3>1, <2>2, <1>4
        <4>3. IsActivity(c.entities[y]) => ~(c.entities[y].work > 0)
          BY <3>1 DEF Idle
        <4>. QED BY <4>1, <4>2, <4>3, <2>1, <1>3 DEF RowState, IsActive, Ended
      <3>2. CASE y \notin S
        <4>1. (y \in Pending(d) <=> y \in Pending(c)) /\ (Listed(d, y) <=> Listed(c, y))
          BY <3>2, <2>2, <1>4
        <4>. QED BY <4>1, <2>1, <1>3 DEF RowState
      <3>. QED BY <3>1, <3>2
    <2>. QED BY <2>3, <1>3, <1>4 DEF SameRow, SameCount
  <1>9. /\ Consistent(d, t, s)
        /\ \A y : Kids(d, t, y) = Kids(c, t, y) /\ UnsetOf(d, y) = UnsetOf(c, y)
    <2>1. Len(d.entities) = Len(c.entities)
      BY <1>3
    <2>2. \A y \in 1..Len(c.entities) : SameCount(c, t, d, t, y)
      BY <1>8
    <2>3. Consistent(d, t, s)
      BY <2>1, <2>2, <1>4, <1>5, <1>6, <1>7, SameCounts
    <2>. QED BY <2>1, <2>2, <2>3, <1>1, <1>5, SameSets
  <1>10. NewOnce(d, t)
    BY <1>2, <1>3, <1>4, <1>9 DEF NewOnce
  <1>. QED BY <1>3, <1>4, <1>9, <1>10 DEF d

(* An execution ends, which its scope s does not count any more. *)
LEMMA Finish ==
  ASSUME NEW c, NEW x, Consistent(c, x, 0), NewOnce(c, x),
         x \in 2..Len(c.entities), x \notin Pending(c),
         NEW s, s = c.entities[x].parent, Kids(c, x, x) = {},
         c.entities[x].count <= 0, ~IsUnset(c.entities[x]),
         NEW r, SameRow(r, c.entities[x]), r.count = c.entities[x].count, ~IsActive(r),
         UnsetOf(c, x) # {} => r.state = "TERMINATED",
         NEW d, CtxType(d), Len(d.entities) = Len(c.entities), d.instance = c.instance,
         d.list = c.list, d.next = c.next,
         d.entities[x] = r, d.entities[s] = Counted(c.entities[s], -1),
         \A y \in 1..Len(c.entities) : y # x /\ y # s => d.entities[y] = c.entities[y]
  PROVE  Consistent(d, 0, s) /\ NewOnce(d, 0)
  <1>. DEFINE n == Len(c.entities)
  <1>1. /\ CtxType(c) /\ Distinct(c) /\ \A y \in DOMAIN c.entities : StateOf(c, y, x)
        /\ ProcessOf(c, 0) /\ ActiveWithin(c) /\ Order(c)
        /\ \A y \in DOMAIN c.entities : ShapeOf(c.entities, y) /\ CountedRow(c, x, y)
    BY DEF Consistent
  <1>2. /\ n \in Nat \ {0} /\ DOMAIN c.entities = 1..n /\ DOMAIN d.entities = 1..n
        /\ Pending(c) \subseteq 1..n /\ \A y \in 1..n : c.entities[y] \in Row
        /\ x \in 1..n /\ x # 1 /\ x # 0
    BY <1>1, CtxFacts
  <1>. HIDE DEF n
  <1>3. s \in 1..n /\ s # x
    BY <1>1, <1>2, SMTT(20) DEF ShapeOf
  <1>4. /\ Pending(d) = Pending(c) /\ Distinct(d)
        /\ \A y : Listed(d, y) <=> Listed(c, y)
        /\ \A y, z : Before(d, y, z) <=> Before(c, y, z)
    BY <1>1, SameList
  <1>5. ASSUME NEW y \in 1..n
        PROVE  /\ SameRow(d.entities[y], c.entities[y])
               /\ IsActive(d.entities[y]) <=> IsActive(c.entities[y]) /\ y # x
               /\ IsUnset(d.entities[y]) <=> IsUnset(c.entities[y])
               /\ y # x => /\ d.entities[y].state = c.entities[y].state
                           /\ d.entities[y].work = c.entities[y].work
                           /\ d.entities[y].context = c.entities[y].context
               /\ d.entities[y].count = c.entities[y].count - (IF y = s THEN 1 ELSE 0)
    <2>1. c.entities[y] \in Row /\ c.entities[y].count \in Int
      BY <1>2 DEF Row
    <2>0. d.entities[y] = IF y = x THEN r
                          ELSE IF y = s THEN [c.entities[y] EXCEPT !.count = @ + (-1)]
                          ELSE c.entities[y]
      BY <1>3 DEF n, Counted
    <2>2. CASE y = x
      <3>1. d.entities[y] = r /\ y # s
        BY <2>0, <2>2, <1>3
      <3>2. ~IsUnset(r)
        BY DEF IsUnset
      <3>. QED BY <2>1, <2>2, <3>1, <3>2
    <2>3. CASE y = s
      <3>1. d.entities[y] = [c.entities[y] EXCEPT !.count = @ + (-1)] /\ y # x
        BY <2>0, <2>3, <1>3
      <3>2. PICK q \in Row : q = c.entities[y]
        BY <2>1
      <3>3. PICK p : p = [q EXCEPT !.count = @ + (-1)]
        OBVIOUS
      <3>4. /\ p.element = q.element /\ p.parent = q.parent /\ p.prev = q.prev /\ p.multi = q.multi
            /\ p.state = q.state /\ p.work = q.work /\ p.context = q.context /\ p.count = q.count + (-1)
        BY <3>3 DEF Row
      <3>5. (IsActive(p) <=> IsActive(q)) /\ (IsUnset(p) <=> IsUnset(q)) /\ SameRow(p, q)
        BY <3>4 DEF IsActive, IsUnset, IsBoundaryEvent, Type, SameRow
      <3>6. p.count = q.count - 1
        BY <3>2, <3>4, <2>1
      <3>. QED BY <2>3, <3>1, <3>2, <3>3, <3>4, <3>5, <3>6
    <2>4. CASE y # x /\ y # s
      BY <2>0, <2>1, <2>4 DEF SameRow
    <2>. QED BY <2>2, <2>3, <2>4
  <1>6. \A y : UnsetOf(d, y) = UnsetOf(c, y)
    BY <1>2, <1>5 DEF UnsetOf, SameRow
  <1>7. \A y : Kids(d, 0, y) = Kids(c, x, y) \ {x}
    BY <1>2, <1>4, <1>5 DEF Kids, SameRow
  <1>8. \A y \in 1..n : ShapeOf(d.entities, y)
    <2>1. n \in Nat /\ \A y \in 1..n : SameRow(d.entities[y], c.entities[y])
      BY <1>2, <1>5
    <2>. QED BY <2>1, <1>1, <1>2, SameShape
  <1>9. ASSUME NEW y \in 1..n, y # 1, ~IsActive(d.entities[d.entities[y].parent]),
               IsActive(d.entities[y]) \/ y \in Pending(d)
        PROVE  ~IsActive(c.entities[c.entities[y].parent]) /\ d.entities[y].parent = c.entities[y].parent
    <2>0. SameRow(d.entities[y], c.entities[y]) /\ ShapeOf(c.entities, y)
      BY <1>1, <1>2, <1>5
    <2>1. d.entities[y].parent = c.entities[y].parent /\ c.entities[y].parent \in 1..n
      BY <2>0, <1>2, <1>9 DEF ShapeOf, SameRow
    <2>2. c.entities[y].parent # x
      <3>1. SUFFICES ASSUME c.entities[y].parent = x PROVE y \in Kids(c, x, x)
        OBVIOUS
      <3>. QED BY <1>2, <1>4, <1>5, <1>9, <3>1 DEF Kids
    <2>. QED BY <1>5, <1>9, <2>1, <2>2
  <1>10. ActiveWithin(d)
    BY <1>1, <1>2, <1>5, <1>9 DEF ActiveWithin
  <1>11. Order(d)
    BY <1>1, <1>2, <1>4, <1>9 DEF Order
  <1>12. ASSUME NEW y \in 1..n PROVE CountedRow(d, 0, y)
    <2>1. CountedRow(c, x, y) /\ c.entities[y].count \in Int
      BY <1>1, <1>2 DEF Row
    <2>2. Cardinality(Kids(c, x, y)) \in Nat /\ Cardinality(UnsetOf(c, y)) \in Nat
          /\ IsFiniteSet(Kids(c, x, y))
      BY <1>1, SetsOf
    <2>3. CASE y = s
      <3>1. x \in Kids(c, x, s)
        BY <1>2 DEF Kids
      <3>2. Cardinality(Kids(d, 0, s)) = Cardinality(Kids(c, x, s)) - 1
        BY <3>1, <2>2, <2>3, <1>7, FS_RemoveElement
      <3>3. UnsetOf(d, s) = UnsetOf(c, s)
        BY <1>6
      <3>4. /\ d.entities[s].count = c.entities[s].count - 1
            /\ IsActive(d.entities[s]) <=> IsActive(c.entities[s])
        BY <2>3, <1>3, <1>5
      <3>5. PICK k \in Nat, u \in Nat, m \in Int :
              /\ k = Cardinality(Kids(c, x, s)) /\ u = Cardinality(UnsetOf(c, s))
              /\ m = c.entities[s].count
        BY <2>1, <2>2, <2>3
      <3>6. IF IsActive(c.entities[s]) THEN m = k - u ELSE m <= k
        BY <2>1, <2>3, <3>5 DEF CountedRow
      <3>7. IF IsActive(d.entities[s]) THEN m - 1 = (k - 1) - u ELSE m - 1 <= k - 1
        BY <3>4, <3>5, <3>6, SMTT(20)
      <3>. QED BY <2>3, <3>2, <3>3, <3>4, <3>5, <3>7 DEF CountedRow
    <2>4. CASE y = x
      <3>1. Kids(d, 0, x) = {}
        BY <1>7
      <3>2. Cardinality(Kids(d, 0, x)) = 0
        BY <3>1, FS_EmptySet
      <3>. QED BY <3>2, <2>1, <2>4, <1>3, <1>5 DEF CountedRow
    <2>5. CASE y # s /\ y # x
      <3>1. x \notin Kids(c, x, y)
        BY <2>5, <1>2 DEF Kids
      <3>2. Kids(d, 0, y) = Kids(c, x, y)
        BY <3>1, <1>7
      <3>. QED BY <3>2, <2>1, <2>5, <1>5, <1>6 DEF CountedRow
    <2>. QED BY <2>3, <2>4, <2>5
  <1>13. ASSUME NEW y \in 1..n PROVE StateOf(d, y, 0)
    <2>1. RowState(c.entities[y], y, Kids(c, x, y), UnsetOf(c, y),
                   y \in Pending(c) \/ y = x, Listed(c, y))
      BY <1>1, <1>2 DEF StateOf
    <2>2. CASE y = x
      <3>1. /\ d.entities[y] = r /\ y \notin Pending(d) /\ y # 0
            /\ UnsetOf(d, y) # {} => r.state = "TERMINATED"
        BY <2>2, <1>2, <1>4, <1>6 DEF n
      <3>. QED BY <3>1 DEF StateOf, RowState, IsActive, IsUnset, Ended
    <2>3. CASE y # x
      <3>1. (y \in Pending(d) \/ y = 0) <=> y \in Pending(c) \/ y = x
        BY <2>3, <1>2, <1>4
      <3>2. Kids(d, 0, y) # {} => Kids(c, x, y) # {}
        BY <1>7
      <3>3. /\ Type(d.entities[y]) = Type(c.entities[y])
            /\ IsActivity(d.entities[y]) = IsActivity(c.entities[y])
            /\ IsMultiInstanceActivity(d.entities[y]) = IsMultiInstanceActivity(c.entities[y])
            /\ IsBoundaryEvent(d.entities[y]) = IsBoundaryEvent(c.entities[y])
            /\ d.entities[y].element = c.entities[y].element
            /\ d.entities[y].prev = c.entities[y].prev
        BY <1>5 DEF SameRow, Type, IsActivity, IsMultiInstanceActivity, IsBoundaryEvent
      <3>. HIDE DEF n
      <3>. QED BY <3>1, <3>2, <3>3, <2>1, <2>3, <1>4, <1>5, <1>6 DEF StateOf, RowState
    <2>. QED BY <2>2, <2>3
  <1>14. ProcessOf(d, s)
    <2>1. 1 \in 1..n /\ d.entities[1].state = c.entities[1].state
      BY <1>2, <1>5
    <2>2. s # 1 => d.entities[1].count = c.entities[1].count
      BY <2>1, <1>2, <1>5 DEF Row
    <2>3. IsActive(d.entities[1]) <=> IsActive(c.entities[1])
      BY <2>1 DEF IsActive
    <2>4. \A y \in 1..n : Type(d.entities[y]) = Type(c.entities[y])
      BY <1>5 DEF SameRow, Type
    <2>. QED BY <2>1, <2>2, <2>3, <2>4, <1>1, <1>2 DEF ProcessOf
  <1>15. NewOnce(d, 0)
    BY <1>2, <1>4, <1>7 DEF NewOnce
  <1>. QED BY <1>2, <1>4, <1>8, <1>10, <1>11, <1>12, <1>13, <1>14, <1>15 DEF Consistent

LEMMA RowLike ==
  ASSUME NEW p, NEW q, SameRow(p, q)
  PROVE  /\ Type(p) = Type(q) /\ p.element = q.element /\ p.parent = q.parent /\ p.prev = q.prev
         /\ IsActivity(p) = IsActivity(q) /\ IsBoundaryEvent(p) = IsBoundaryEvent(q)
         /\ IsMultiInstanceActivity(p) = IsMultiInstanceActivity(q) /\ IsScope(p) = IsScope(q)
  BY DEF SameRow, Type, IsActivity, IsBoundaryEvent, IsMultiInstanceActivity, IsScope

(* A boundary event is no scope. *)
LEMMA BoundaryNoScope ==
  ASSUME NEW c, NEW t, NEW s, Consistent(c, t, s), NEW b \in 1..Len(c.entities),
         IsBoundaryEvent(c.entities[b])
  PROVE  ~IsScope(c.entities[b]) /\ b # 1 /\ \A x \in 1..Len(c.entities) : c.entities[x].parent # b
  <1>1. /\ CtxType(c) /\ \A y \in DOMAIN c.entities : ShapeOf(c.entities, y)
    BY DEF Consistent
  <1>2. DOMAIN c.entities = 1..Len(c.entities) /\ \A y \in 1..Len(c.entities) : c.entities[y] \in Row
    BY <1>1, CtxFacts
  <1>3. c.entities[b].element \in Elements /\ ShapeOf(c.entities, b)
    BY <1>1, <1>2 DEF Row
  <1>4. ~IsScope(c.entities[b])
    BY <1>3, ValidAssumption DEF ShapeOf, IsScope, IsBoundaryEvent, BoundaryEvents, Type, Activities
  <1>5. b # 1
    BY <1>3 DEF ShapeOf, IsBoundaryEvent, BoundaryEvents
  <1>6. ASSUME NEW x \in 1..Len(c.entities), c.entities[x].parent = b PROVE FALSE
    <2>1. ShapeOf(c.entities, x)
      BY <1>1, <1>2
    <2>. QED BY <1>4, <1>6, <2>1 DEF ShapeOf
  <1>. QED BY <1>4, <1>5, <1>6

(* Boundary events within the active scope s are terminated, to be continued. *)
LEMMA EndAttached ==
  ASSUME NEW c, NEW s, Consistent(c, 0, s), NewOnce(c, 0),
         NEW B \in SUBSET (1..Len(c.entities)), IsActive(c.entities[s]),
         NEW d, CtxType(d), Len(d.entities) = Len(c.entities), d.instance = c.instance,
         Extended(c, d, B),
         \A y \in 1..Len(c.entities) \ B : d.entities[y] = c.entities[y],
         \A b \in B : /\ IsBoundaryEvent(c.entities[b]) /\ IsActive(c.entities[b])
                      /\ c.entities[b].parent = s /\ ~IsUnset(c.entities[b]) /\ ~IsNew(b)
                      /\ SameRow(d.entities[b], c.entities[b])
                      /\ d.entities[b].state = "TERMINATED" /\ d.entities[b].count <= 0
  PROVE  Consistent(d, 0, s) /\ NewOnce(d, 0)
  <1>. DEFINE n == Len(c.entities)
  <1>1. /\ CtxType(c) /\ Distinct(c) /\ \A y \in DOMAIN c.entities : StateOf(c, y, 0)
        /\ ProcessOf(c, s) /\ ActiveWithin(c) /\ Order(c)
        /\ \A y \in DOMAIN c.entities : ShapeOf(c.entities, y) /\ CountedRow(c, 0, y)
    BY DEF Consistent
  <1>2. /\ n \in Nat \ {0} /\ DOMAIN c.entities = 1..n /\ DOMAIN d.entities = 1..n
        /\ Pending(c) \subseteq 1..n
    BY <1>1, CtxFacts
  <1>3. \A b \in B : b # 1 /\ \A x \in 1..n : c.entities[x].parent # b
    BY BoundaryNoScope
  <1>4. /\ Pending(d) = Pending(c) \cup B /\ Distinct(d)
        /\ \A x, y : Before(c, x, y) /\ x \notin B => Before(d, x, y)
        /\ \A x : x # 0 => (Listed(d, x) <=> Listed(c, x) \/ x \in B)
    BY DEF Extended
  <1>. HIDE DEF n
  <1>5. ASSUME NEW y \in 1..n
        PROVE  /\ SameRow(d.entities[y], c.entities[y])
               /\ IsActive(d.entities[y]) <=> IsActive(c.entities[y]) /\ y \notin B
               /\ IsUnset(d.entities[y]) <=> IsUnset(c.entities[y])
    <2>1. CASE y \in B
      <3>1. SameRow(d.entities[y], c.entities[y]) /\ ~IsActive(d.entities[y]) /\ ~IsUnset(c.entities[y])
        BY <2>1 DEF IsActive, Ended
      <3>. QED BY <2>1, <3>1 DEF IsUnset
    <2>2. CASE y \notin B
      <3>1. d.entities[y] = c.entities[y]
        BY <2>2 DEF n
      <3>. QED BY <2>2, <3>1 DEF SameRow
    <2>. QED BY <2>1, <2>2
  <1>6. \A y : UnsetOf(d, y) = UnsetOf(c, y)
    BY <1>2, <1>5 DEF UnsetOf, SameRow
  <1>7. \A y : Kids(d, 0, y) = Kids(c, 0, y)
    <2>1. \A y \in 1..n : IsActive(d.entities[y]) \/ y \in Pending(d) <=>
                          IsActive(c.entities[y]) \/ y \in Pending(c)
      BY <1>4, <1>5
    <2>. QED BY <2>1, <1>2, <1>5 DEF Kids, SameRow
  <1>8. \A y \in 1..n : ShapeOf(d.entities, y)
    <2>1. n \in Nat /\ \A y \in 1..n : SameRow(d.entities[y], c.entities[y])
      BY <1>2, <1>5
    <2>. QED BY <2>1, <1>1, <1>2, SameShape
  <1>9. ASSUME NEW y \in 1..n, y # 1
        PROVE  /\ d.entities[y].parent = c.entities[y].parent
               /\ d.entities[c.entities[y].parent] = c.entities[c.entities[y].parent]
    <2>0. ShapeOf(c.entities, y) /\ SameRow(d.entities[y], c.entities[y])
      BY <1>1, <1>2, <1>5
    <2>1. d.entities[y].parent = c.entities[y].parent /\ c.entities[y].parent \in 1..n
      BY <2>0, <1>2, <1>9 DEF ShapeOf, SameRow
    <2>2. c.entities[y].parent \notin B
      BY <1>3
    <2>. QED BY <2>1, <2>2 DEF n
  <1>10. ActiveWithin(d)
    BY <1>1, <1>2, <1>5, <1>9 DEF ActiveWithin
  <1>11. Order(d)
    <2>. SUFFICES ASSUME NEW y \in Pending(d), y # 1, ~IsActive(d.entities[d.entities[y].parent])
                  PROVE  Before(d, y, d.entities[y].parent)
      BY DEF Order
    <2>1. y \in 1..n
      BY <1>2, <1>4 DEF n
    <2>2. /\ d.entities[y].parent = c.entities[y].parent
          /\ d.entities[c.entities[y].parent] = c.entities[c.entities[y].parent]
      BY <1>9, <2>1
    <2>3. y \notin B
      BY <2>2
    <2>. QED BY <1>1, <1>4, <2>2, <2>3 DEF Order
  <1>12. ASSUME NEW y \in 1..n PROVE CountedRow(d, 0, y)
    <2>1. CASE y \in B
      <3>1. ~IsActive(d.entities[y]) /\ d.entities[y].count <= 0
        BY <2>1 DEF IsActive, Ended
      <3>2. Cardinality(Kids(d, 0, y)) \in Nat
        BY SetsOf
      <3>3. d.entities[y].count \in Int
        BY <1>2, CtxFacts DEF Row, n
      <3>. QED BY <3>1, <3>2, <3>3 DEF CountedRow
    <2>2. CASE y \notin B
      <3>1. d.entities[y] = c.entities[y] /\ CountedRow(c, 0, y)
        BY <1>1, <1>2, <2>2 DEF n
      <3>. QED BY <3>1, <1>6, <1>7 DEF CountedRow
    <2>. QED BY <2>1, <2>2
  <1>13. ASSUME NEW y \in 1..n PROVE StateOf(d, y, 0)
    <2>1. RowState(c.entities[y], y, Kids(c, 0, y), UnsetOf(c, y),
                   y \in Pending(c) \/ y = 0, Listed(c, y))
      BY <1>1, <1>2 DEF StateOf
    <2>2. CASE y \in B
      <3>1. IsActive(c.entities[y]) /\ IsBoundaryEvent(c.entities[y])
        BY <2>2
      <3>2. UnsetOf(c, y) = {}
        <4>. SUFFICES ASSUME NEW b \in UnsetOf(c, y) PROVE FALSE
          OBVIOUS
        <4>1. b \in 1..n /\ c.entities[b].prev = y /\ IsBoundaryEvent(c.entities[b])
          BY <1>2 DEF UnsetOf, IsUnset
        <4>2. IsActivity(c.entities[y])
          BY <4>1, <1>1, <1>2 DEF ShapeOf
        <4>. QED BY <4>2, <3>1 DEF IsActivity, IsBoundaryEvent, Activities, BoundaryEvents
      <3>3. d.entities[y].state = "TERMINATED"
        BY <2>2
      <3>. QED BY <3>2, <3>3, <1>6 DEF StateOf, RowState, IsActive, IsUnset, Ended
    <2>3. CASE y \notin B
      <3>1. (y \in Pending(d) \/ y = 0) <=> y \in Pending(c) \/ y = 0
        BY <2>3, <1>4
      <3>2. d.entities[y] = c.entities[y] /\ (Listed(d, y) <=> Listed(c, y))
        BY <2>3, <1>4 DEF n
      <3>. QED BY <3>1, <3>2, <2>1, <1>6, <1>7 DEF StateOf, RowState
    <2>. QED BY <2>2, <2>3
  <1>14. ProcessOf(d, s)
    <2>1. 1 \in 1..n /\ 1 \notin B
      BY <1>2, <1>3
    <2>2. d.entities[1] = c.entities[1]
      BY <2>1 DEF n
    <2>3. \A y \in 1..n : Type(d.entities[y]) = Type(c.entities[y])
      BY <1>5 DEF SameRow, Type
    <2>. QED BY <2>1, <2>2, <2>3, <1>1, <1>2 DEF ProcessOf
  <1>15. NewOnce(d, 0)
    <2>1. \A y \in 1..n : y # 0 /\ (IsNew(y) => y \notin B)
      OBVIOUS
    <2>. QED BY <2>1, <1>2, <1>4, <1>7 DEF NewOnce
  <1>. QED BY <1>2, <1>4, <1>8, <1>10, <1>11, <1>12, <1>13, <1>14, <1>15 DEF Consistent

(* A scope whose count has been looked at ends or goes on, if it is zero. *)
LEMMA EndsScope ==
  ASSUME NEW c, NEW s, Consistent(c, 0, s), NewOnce(c, 0), s \in 1..Len(c.entities),
         IsNew(s) /\ s # 1 /\ IsActive(c.entities[s]) => s \notin Pending(c),
         IsActive(c.entities[s]) => Idle(c.entities[s])
  PROVE  Consistent(EndScope(c, s), 0, 0) /\ NewOnce(EndScope(c, s), 0)
  <1>. DEFINE n == Len(c.entities)
  <1>1. /\ CtxType(c) /\ Distinct(c) /\ \A y \in DOMAIN c.entities : StateOf(c, y, 0)
        /\ ProcessOf(c, s) /\ ActiveWithin(c) /\ Order(c)
        /\ \A y \in DOMAIN c.entities : ShapeOf(c.entities, y) /\ CountedRow(c, 0, y)
    BY DEF Consistent
  <1>2. /\ n \in Nat \ {0} /\ DOMAIN c.entities = 1..n /\ Pending(c) \subseteq 1..n /\ 1 \in 1..n
        /\ \A y \in 1..n : c.entities[y] \in Row /\ c.entities[y].count \in Int
    <2>1. /\ n \in Nat \ {0} /\ DOMAIN c.entities = 1..n /\ Pending(c) \subseteq 1..n
          /\ \A y \in 1..n : c.entities[y] \in Row
      BY <1>1, CtxFacts
    <2>2. \A q \in Row : q.count \in Int
      BY DEF Row
    <2>. HIDE DEF n
    <2>. QED BY <2>1, <2>2
  <1>. HIDE DEF n
  <1>3. Type(c.entities[s]) = "process" <=> s = 1
    BY <1>1, <1>2 DEF ShapeOf, n
  <1>4. ASSUME NEW y \in 1..n, IsActive(c.entities[y]), y = 1 \/ c.entities[y].state = "STARTED"
        PROVE  c.entities[y].count = Cardinality(Kids(c, 0, y)) /\ Cardinality(Kids(c, 0, y)) \in Nat
               /\ (c.entities[y].count = 0 <=> Kids(c, 0, y) = {})
    <2>1. UnsetOf(c, y) = {}
      <3>1. StateOf(c, y, 0) /\ c.entities[y].state \notin {"CREATED", "TERMINATED"}
        BY <1>1, <1>2, <1>4 DEF ProcessOf, Ended, IsActive
      <3>. QED BY <3>1 DEF StateOf, RowState
    <2>2. /\ Cardinality(UnsetOf(c, y)) = 0 /\ Cardinality(Kids(c, 0, y)) \in Nat
          /\ Cardinality(Kids(c, 0, y)) = 0 <=> Kids(c, 0, y) = {}
      BY <1>1, <2>1, SetsOf
    <2>3. c.entities[y].count = Cardinality(Kids(c, 0, y)) - Cardinality(UnsetOf(c, y))
      BY <1>1, <1>2, <1>4 DEF CountedRow
    <2>. QED BY <2>2, <2>3
  <1>5. ASSUME ProcessOf(c, 0) PROVE Consistent(c, 0, 0)
    BY <1>5 DEF Consistent
  <1>6. CASE c.entities[s].count # 0
    <2>1. ProcessOf(c, 0)
      <3>1. CASE s = 1 /\ IsActive(c.entities[1])
        <4>1. c.entities[1].count > 0
          BY <3>1, <1>2, <1>4, <1>6
        <4>. QED BY <4>1, <1>1, <3>1 DEF ProcessOf
      <3>2. CASE s # 1 \/ ~IsActive(c.entities[1])
        BY <3>2, <1>1 DEF ProcessOf
      <3>. QED BY <3>1, <3>2
    <2>. QED BY <2>1, <1>5, <1>6 DEF EndScope
  <1>7. CASE c.entities[s].count = 0 /\ s # 1
    <2>1. Consistent(c, 0, 0)
      BY <1>1, <1>5, <1>7 DEF ProcessOf
    <2>2. CASE c.entities[s].state # "STARTED"
      BY <2>1, <2>2, <1>3, <1>7 DEF EndScope
    <2>3. CASE c.entities[s].state = "STARTED"
      <3>1. IsActive(c.entities[s])
        BY <2>3 DEF IsActive, Ended
      <3>2. Kids(c, 0, s) = {}
        BY <3>1, <2>3, <1>2, <1>4, <1>7 DEF n
      <3>3. {s} \in SUBSET (1..Len(c.entities))
        OBVIOUS
      <3>4. \A x \in {s} : /\ IsActive(c.entities[x])
                           /\ IsNew(x) => x \notin Pending(c) /\ Kids(c, 0, x) = {}
                           /\ Idle(c.entities[x])
        BY <3>1, <3>2, <1>7
      <3>5. Consistent(AddExecutions(c, {s}), 0, 0) /\ NewOnce(AddExecutions(c, {s}), 0)
        BY <2>1, <3>3, <3>4, AddActive
      <3>6. EndScope(c, s) = AddExecutions(c, {s})
        BY <2>3, <1>3, <1>7 DEF EndScope, AddExecution
      <3>. QED BY <3>5, <3>6
    <2>. QED BY <2>2, <2>3
  <1>8. CASE c.entities[s].count = 0 /\ s = 1
    <2>. DEFINE r == [c.entities[1] EXCEPT !.state = "COMPLETED"]
                e == [c EXCEPT !.entities[1] = r]
                d == [e EXCEPT !.instance = "COMPLETED"]
    <2>1. EndScope(c, s) = d
      BY <1>3, <1>8 DEF EndScope, SetState
    <2>2. r \in Row /\ SameRow(r, c.entities[1]) /\ r.count = c.entities[1].count
          /\ r.state = "COMPLETED"
      BY <1>2 DEF Row, SameRow, InstanceState, Ended
    <2>. HIDE DEF r
    <2>3. /\ CtxType(e) /\ Len(e.entities) = Len(c.entities)
          /\ e.list = c.list /\ e.next = c.next
          /\ \A y \in 1..n : e.entities[y] = IF y = 1 THEN r ELSE c.entities[y]
      <3>1. 1 \in 1..Len(c.entities)
        BY <1>2 DEF n
      <3>. QED BY <3>1, <1>1, <2>2, Replaced DEF n
    <2>. HIDE DEF e
    <2>4. /\ d.list = c.list /\ d.next = c.next /\ d.instance = "COMPLETED"
          /\ d.entities = e.entities /\ d \in Contexts
      BY <2>3 DEF CtxType, Contexts, InstanceState, Ended
    <2>. HIDE DEF d
    <2>5. CtxType(d)
      BY <2>3, <2>4 DEF CtxType
    <2>6. /\ Pending(d) = Pending(c) /\ Distinct(d)
          /\ \A y : Listed(d, y) <=> Listed(c, y)
          /\ \A y, z : Before(d, y, z) <=> Before(c, y, z)
      BY <1>1, <2>3, <2>4, SameList
    <2>7. ASSUME NEW y \in 1..n
          PROVE  /\ SameRow(d.entities[y], c.entities[y])
                 /\ y # 1 => d.entities[y] = c.entities[y]
                 /\ IsActive(d.entities[y]) <=> IsActive(c.entities[y]) /\ y # 1
                 /\ IsUnset(d.entities[y]) <=> IsUnset(c.entities[y])
      <3>1. CASE y = 1
        <4>1. d.entities[y] = r /\ ~IsActive(r)
          BY <3>1, <2>2, <2>3, <2>4 DEF IsActive, Ended
        <4>2. ~IsBoundaryEvent(c.entities[1])
          BY <1>3, <1>8 DEF IsBoundaryEvent, BoundaryEvents
        <4>. QED BY <3>1, <4>1, <4>2, <2>2 DEF IsUnset
      <3>2. CASE y # 1
        BY <3>2, <2>3, <2>4 DEF SameRow
      <3>. QED BY <3>1, <3>2
    <2>8. DOMAIN d.entities = 1..n /\ d.entities[1] = r
      BY <2>3, <2>4, <2>5, <1>2, CtxFacts DEF n
    <2>9. \A y : UnsetOf(d, y) = UnsetOf(c, y)
      BY <1>2, <2>7, <2>8 DEF UnsetOf, SameRow
    <2>10. \A y \in 1..n : Kids(d, 0, y) = Kids(c, 0, y)
      <3>. SUFFICES ASSUME NEW y \in 1..n PROVE Kids(d, 0, y) = Kids(c, 0, y)
        OBVIOUS
      <3>1. c.entities[1].parent = 0
        BY <1>1, <1>2 DEF ShapeOf
      <3>. QED BY <3>1, <1>2, <2>6, <2>7, <2>8 DEF Kids, SameRow
    <2>11. \A y \in 1..n : ShapeOf(d.entities, y)
      <3>1. n \in Nat /\ \A y \in 1..n : SameRow(d.entities[y], c.entities[y])
        BY <1>2, <2>7
      <3>. QED BY <3>1, <1>1, <1>2, SameShape
    <2>12. IsActive(c.entities[1]) => Kids(c, 0, 1) = {}
      BY <1>2, <1>4, <1>8
    <2>13. ASSUME NEW y \in 1..n, y # 1, ~IsActive(d.entities[d.entities[y].parent]),
                  IsActive(d.entities[y]) \/ y \in Pending(d)
           PROVE  ~IsActive(c.entities[c.entities[y].parent]) /\ d.entities[y].parent = c.entities[y].parent
      <3>0. ShapeOf(c.entities, y) /\ SameRow(d.entities[y], c.entities[y])
        BY <1>1, <1>2, <2>7
      <3>1. d.entities[y].parent = c.entities[y].parent /\ c.entities[y].parent \in 1..n
        BY <3>0, <1>2, <2>13 DEF ShapeOf, SameRow
      <3>2. CASE c.entities[y].parent = 1
        <4>1. y \in Kids(c, 0, 1)
          BY <3>2, <2>6, <2>7, <2>13, <1>2 DEF Kids
        <4>. QED BY <4>1, <2>12, <3>1, <3>2
      <3>3. CASE c.entities[y].parent # 1
        BY <3>1, <3>3, <2>7, <2>13
      <3>. QED BY <3>2, <3>3
    <2>14. ActiveWithin(d)
      BY <1>1, <1>2, <2>7, <2>8, <2>13 DEF ActiveWithin
    <2>15. Order(d)
      BY <1>1, <1>2, <2>6, <2>13 DEF Order
    <2>16. ASSUME NEW y \in 1..n PROVE CountedRow(d, 0, y)
      <3>1. CASE y = 1
        <4>1. ~IsActive(d.entities[y]) /\ d.entities[y].count = 0
          BY <3>1, <2>2, <2>7, <2>8, <1>8
        <4>2. Cardinality(Kids(d, 0, y)) \in Nat
          BY <2>5, SetsOf
        <4>. QED BY <4>1, <4>2 DEF CountedRow
      <3>2. CASE y # 1
        BY <3>2, <1>1, <1>2, <2>7, <2>9, <2>10 DEF CountedRow
      <3>. QED BY <3>1, <3>2
    <2>17. ASSUME NEW y \in 1..n PROVE StateOf(d, y, 0)
      <3>1. RowState(c.entities[y], y, Kids(c, 0, y), UnsetOf(c, y),
                     y \in Pending(c) \/ y = 0, Listed(c, y))
        BY <1>1, <1>2 DEF StateOf
      <3>2. CASE y = 1
        <4>1. /\ ~IsActivity(r) /\ ~IsBoundaryEvent(r) /\ r.state = "COMPLETED"
              /\ ~IsMultiInstanceActivity(r)
          <5>1. Type(r) = "process" /\ r.element \in Elements
            BY <2>2, <1>3, <1>8, RowLike DEF Row
          <5>. QED BY <5>1, <2>2, ValidAssumption
                   DEF IsActivity, IsBoundaryEvent, BoundaryEvents, Activities, IsMultiInstanceActivity, Type
        <4>2. UnsetOf(d, y) = {}
          <5>. SUFFICES ASSUME NEW b \in UnsetOf(c, y) PROVE FALSE
            BY <2>9
          <5>1. b \in 1..n /\ c.entities[b].prev = y /\ IsBoundaryEvent(c.entities[b])
            BY <1>2 DEF UnsetOf, IsUnset
          <5>2. IsActivity(c.entities[y])
            BY <5>1, <1>1, <1>2 DEF ShapeOf
          <5>. QED BY <5>2, <4>1, <2>2, <3>2, RowLike
        <4>. QED BY <4>1, <4>2, <3>2, <2>8 DEF StateOf, RowState, IsActive, IsUnset, Ended
      <3>3. CASE y # 1
        BY <3>1, <3>3, <2>6, <2>7, <2>9, <2>10 DEF StateOf, RowState
      <3>. QED BY <3>2, <3>3
    <2>18. ProcessOf(d, 0)
      BY <2>2, <2>4, <2>7, <2>8, <1>2 DEF ProcessOf, Ended
    <2>19. NewOnce(d, 0)
      BY <1>2, <2>6, <2>8, <2>10 DEF NewOnce
    <2>. QED BY <2>1, <2>5, <2>6, <2>8, <2>11, <2>14, <2>15, <2>16, <2>17, <2>18, <2>19 DEF Consistent
  <1>. QED BY <1>6, <1>7, <1>8

LEMMA Referred ==
  ASSUME NEW e, NEW n \in Nat, NEW x \in 1..n, ShapeOf(e, x)
  PROVE  /\ e[x].parent \in 0..x - 1 /\ e[x].prev \in 0..x - 1
         /\ e[x].parent \in 0..n /\ e[x].prev \in 0..n
         /\ x # 1 => e[x].parent \in 1..n
         /\ x = 1 => e[x].parent = 0
  <1>1. /\ e[x].parent \in 0..x - 1 /\ e[x].prev \in 0..x - 1
        /\ e[x].parent = 0 <=> x = 1
    BY DEF ShapeOf
  <1>. QED BY <1>1

LEMMA DisjointUnion ==
  ASSUME NEW S, NEW T, IsFiniteSet(S), IsFiniteSet(T), S \cap T = {}
  PROVE  /\ IsFiniteSet(S \cup T) /\ Cardinality(S) \in Nat /\ Cardinality(T) \in Nat
         /\ Cardinality(S \cup T) = Cardinality(S) + Cardinality(T)
  <1>1. /\ IsFiniteSet(S \cup T)
        /\ Cardinality(S \cup T) = Cardinality(S) + Cardinality(T) - Cardinality(S \cap T)
    BY FS_Union
  <1>2. Cardinality(S \cap T) = 0 /\ Cardinality(S) \in Nat /\ Cardinality(T) \in Nat
    BY FS_EmptySet, FS_CardinalityType
  <1>. QED BY <1>1, <1>2

LEMMA NumbersFacts ==
  ASSUME NEW n \in Nat, NEW m \in Nat
  PROVE  /\ 1..n + m = (1..n) \cup Numbers(n, m) /\ (1..n) \cap Numbers(n, m) = {}
         /\ 0 \notin Numbers(n, m)
         /\ IsFiniteSet(Numbers(n, m)) /\ Cardinality(Numbers(n, m)) = m
  <1>1. 1..n + m = (1..n) \cup Numbers(n, m) /\ (1..n) \cap Numbers(n, m) = {} /\ 0 \notin Numbers(n, m)
    BY DEF Numbers
  <1>. DEFINE a == n + 1
              b == n + m
  <1>2. a \in Int /\ b \in Int /\ (IF a > b THEN 0 ELSE b - a + 1) = m
    OBVIOUS
  <1>. HIDE DEF a, b
  <1>3. IsFiniteSet(a..b) /\ Cardinality(a..b) = m
    BY <1>2, FS_Interval
  <1>. QED BY <1>1, <1>3 DEF Numbers, a, b

(* Row y is r with m new executions if it is p, and with u boundary events to *)
(* wait for if it is a.                                                       *)
Recounted(r, y, p, m, a, u) ==
  [r EXCEPT !.count = @ + (IF y = p THEN m ELSE 0) - (IF y = a THEN u ELSE 0)]

NewUnset(d, n, m) == {y \in Numbers(n, m) : IsUnset(d.entities[y])}

(* Row y is that of a new execution within p. *)
NewWithin(d, y, p, a) ==
  /\ ShapeOf(d.entities, y) /\ d.entities[y].parent = p
  /\ d.entities[y].state = "NEW" /\ d.entities[y].count = 0
  /\ d.entities[y].work = 0
  /\ IsUnset(d.entities[y]) => d.entities[y].prev = a

(* New executions within p, whose boundary events are attached to a. *)
LEMMA Grown ==
  ASSUME NEW c, NEW t, NEW s, Consistent(c, t, s), NewOnce(c, t), t \in 0..Len(c.entities),
         NEW p \in 1..Len(c.entities), c.entities[p].state \in {"STARTED", "QUEUED", "SUSPENDED"},
         Idle(c.entities[p]),
         IsNew(p) /\ p # 1 => p \notin Pending(c),
         NEW m \in Nat, NEW a \in 0..Len(c.entities), NEW u \in Nat,
         NEW d, CtxType(d), Extended(c, d, Numbers(Len(c.entities), m)),
         Len(d.entities) = Len(c.entities) + m, d.instance = c.instance,
         \A y \in 1..Len(c.entities) :
           d.entities[y] = Recounted(c.entities[y], y, p, m, a, u),
         \A y \in Numbers(Len(c.entities), m) : NewWithin(d, y, p, a),
         u = Cardinality(NewUnset(d, Len(c.entities), m)),
         u # 0 => a # 0 /\ c.entities[a].state = "CREATED" /\ c.entities[a].work = 0,
         c.entities[1].state = "QUEUED" =>
           \A y \in Numbers(Len(c.entities), m) : Type(d.entities[y]) = "startEvent"
  PROVE  Consistent(d, t, s) /\ NewOnce(d, t)
  <1>. DEFINE n == Len(c.entities)
              N == Numbers(n, m)
              U == {y \in N : IsUnset(d.entities[y])}
  <1>1. /\ CtxType(c) /\ Distinct(c) /\ \A y \in DOMAIN c.entities : StateOf(c, y, t)
        /\ ProcessOf(c, s) /\ ActiveWithin(c) /\ Order(c)
        /\ \A y \in DOMAIN c.entities : ShapeOf(c.entities, y) /\ CountedRow(c, t, y)
    BY DEF Consistent
  <1>2. /\ n \in Nat \ {0} /\ DOMAIN c.entities = 1..n /\ Pending(c) \subseteq 1..n
        /\ \A y \in 1..n : c.entities[y] \in Row
    BY <1>1, CtxFacts
  <1>. HIDE DEF n
  <1>3. /\ DOMAIN d.entities = 1..n + m /\ 1..n + m = (1..n) \cup N /\ (1..n) \cap N = {}
        /\ IsFiniteSet(N) /\ Cardinality(N) = m /\ 0 \notin N
    <2>1. DOMAIN d.entities = 1..n + m
      BY CtxFacts DEF n
    <2>2. /\ 1..n + m = (1..n) \cup N /\ (1..n) \cap N = {} /\ 0 \notin N
          /\ IsFiniteSet(N) /\ Cardinality(N) = m
      BY <1>2, NumbersFacts
    <2>. QED BY <2>1, <2>2
  <1>4. /\ Pending(d) = Pending(c) \cup N /\ Distinct(d)
        /\ \A x, y : Before(c, x, y) /\ x \notin N => Before(d, x, y)
        /\ \A x : x # 0 => (Listed(d, x) <=> Listed(c, x) \/ x \in N)
    BY DEF Extended, n
  <1>5. ASSUME NEW y \in 1..n
        PROVE  /\ SameRow(d.entities[y], c.entities[y])
               /\ IsActive(d.entities[y]) <=> IsActive(c.entities[y])
               /\ IsUnset(d.entities[y]) <=> IsUnset(c.entities[y])
               /\ d.entities[y].state = c.entities[y].state
               /\ d.entities[y].work = c.entities[y].work
               /\ d.entities[y].context = c.entities[y].context
               /\ d.entities[y].count =
                    c.entities[y].count + (IF y = p THEN m ELSE 0) - (IF y = a THEN u ELSE 0)
    <2>1. PICK q \in Row : q = c.entities[y]
      BY <1>2
    <2>2. PICK k : k = q.count + (IF y = p THEN m ELSE 0) - (IF y = a THEN u ELSE 0)
      OBVIOUS
    <2>3. d.entities[y] = [q EXCEPT !.count = k]
      BY <2>1, <2>2 DEF n, Recounted
    <2>4. PICK r : r = [q EXCEPT !.count = k]
      OBVIOUS
    <2>5. /\ r.element = q.element /\ r.parent = q.parent /\ r.prev = q.prev /\ r.multi = q.multi
          /\ r.state = q.state /\ r.work = q.work /\ r.context = q.context /\ r.count = k
      BY <2>4 DEF Row
    <2>6. (IsActive(r) <=> IsActive(q)) /\ (IsUnset(r) <=> IsUnset(q)) /\ SameRow(r, q)
      BY <2>5 DEF IsActive, IsUnset, IsBoundaryEvent, Type, SameRow
    <2>. QED BY <2>1, <2>2, <2>3, <2>4, <2>5, <2>6
  <1>6. ASSUME NEW y \in N
        PROVE  /\ ShapeOf(d.entities, y) /\ d.entities[y].parent = p
               /\ d.entities[y].state = "NEW" /\ d.entities[y].count = 0
               /\ d.entities[y].work = 0 /\ IsActive(d.entities[y])
               /\ IsUnset(d.entities[y]) => d.entities[y].prev = a
    BY DEF n, IsActive, Ended, NewWithin
  <1>. HIDE DEF N
  <1>7. IsActive(c.entities[p]) /\ p \in 1..n
    BY DEF IsActive, Ended, n
  <1>8. ASSUME NEW y \in 1..n
        PROVE  /\ d.entities[y].parent = c.entities[y].parent /\ d.entities[y].prev = c.entities[y].prev
               /\ c.entities[y].parent \in 0..y - 1 /\ c.entities[y].prev \in 0..y - 1
               /\ y # 1 => c.entities[y].parent \in 1..n
    <2>1. ShapeOf(c.entities, y) /\ SameRow(d.entities[y], c.entities[y])
      BY <1>1, <1>2, <1>5
    <2>2. /\ c.entities[y].parent \in 0..y - 1 /\ c.entities[y].prev \in 0..y - 1
          /\ y # 1 => c.entities[y].parent \in 1..n
      BY <2>1, <1>2, Referred
    <2>. QED BY <2>1, <2>2 DEF SameRow
  <1>9. ASSUME NEW y \in 1..n
        PROVE  Kids(d, t, y) = IF y = p THEN Kids(c, t, p) \cup N ELSE Kids(c, t, y)
    <2>1. ASSUME NEW z \in 1..n
          PROVE  /\ d.entities[z].parent = c.entities[z].parent /\ z \notin N
                 /\ IsActive(d.entities[z]) \/ z \in Pending(d) \/ z = t <=>
                    IsActive(c.entities[z]) \/ z \in Pending(c) \/ z = t
      BY <1>3, <1>4, <1>5, <1>8
    <2>2. \A z \in N : d.entities[z].parent = p /\ IsActive(d.entities[z]) /\ z \notin 1..n
      BY <1>3, <1>6
    <2>3. \A z : z \in Kids(c, t, y) <=> /\ z \in 1..n /\ c.entities[z].parent = y
                                         /\ IsActive(c.entities[z]) \/ z \in Pending(c) \/ z = t
      BY <1>2 DEF Kids
    <2>4. \A z : z \in Kids(d, t, y) <=> /\ z \in 1..n \/ z \in N
                                         /\ d.entities[z].parent = y
                                         /\ IsActive(d.entities[z]) \/ z \in Pending(d) \/ z = t
      <3>1. Kids(d, t, y) =
              {z \in DOMAIN d.entities :
                 /\ d.entities[z].parent = y
                 /\ IsActive(d.entities[z]) \/ z \in Pending(d) \/ z = t}
        BY DEF Kids
      <3>2. \A z : z \in DOMAIN d.entities <=> z \in 1..n \/ z \in N
        BY <1>3
      <3>. QED BY ONLY <3>1, <3>2
    <2>5. \A z : z \in Kids(d, t, y) <=> z \in Kids(c, t, y) \/ (y = p /\ z \in N)
      BY <2>1, <2>2, <2>3, <2>4
    <2>. QED BY <2>5
  <1>10. \A y \in N : Kids(d, t, y) = {}
    <2>. SUFFICES ASSUME NEW y \in N, NEW z \in 1..n + m, d.entities[z].parent = y PROVE FALSE
      BY <1>3 DEF Kids
    <2>1. z \notin N
      BY <1>3, <1>6, <1>7
    <2>2. z \in 1..n
      BY <2>1, <1>3
    <2>3. y \in 0..z - 1
      BY <2>2, <1>8
    <2>. QED BY <2>2, <2>3, <1>2, <1>3 DEF N, Numbers
  <1>11. ASSUME NEW y \in 1..n
         PROVE  UnsetOf(d, y) = IF y = a THEN UnsetOf(c, a) \cup U ELSE UnsetOf(c, y)
    <2>1. ASSUME NEW z \in 1..n
          PROVE  /\ d.entities[z].prev = c.entities[z].prev /\ z \notin N
                 /\ IsUnset(d.entities[z]) <=> IsUnset(c.entities[z])
      BY <1>3, <1>5, <1>8
    <2>2. \A z \in N : z \notin 1..n /\ (IsUnset(d.entities[z]) => d.entities[z].prev = a)
      BY <1>3, <1>6
    <2>3. \A z : z \in UnsetOf(c, y) <=> z \in 1..n /\ c.entities[z].prev = y /\ IsUnset(c.entities[z])
      BY <1>2 DEF UnsetOf
    <2>4. \A z : z \in UnsetOf(d, y) <=> /\ z \in 1..n \/ z \in N
                                         /\ d.entities[z].prev = y /\ IsUnset(d.entities[z])
      <3>1. UnsetOf(d, y) = {z \in DOMAIN d.entities : d.entities[z].prev = y /\ IsUnset(d.entities[z])}
        BY DEF UnsetOf
      <3>2. \A z : z \in DOMAIN d.entities <=> z \in 1..n \/ z \in N
        BY <1>3
      <3>. QED BY ONLY <3>1, <3>2
    <2>5. \A z : z \in U <=> z \in N /\ IsUnset(d.entities[z])
      BY DEF U
    <2>. HIDE DEF U
    <2>6. \A z : z \in UnsetOf(d, y) <=> z \in UnsetOf(c, y) \/ (y = a /\ z \in U)
      BY ONLY <2>1, <2>2, <2>3, <2>4, <2>5
    <2>. QED BY <2>6
  <1>12. \A y \in N : UnsetOf(d, y) = {}
    <2>. SUFFICES ASSUME NEW y \in N, NEW z \in 1..n + m, d.entities[z].prev = y, IsUnset(d.entities[z])
                  PROVE  FALSE
      BY <1>3 DEF UnsetOf
    <2>1. z \notin N
      <3>1. a \in 0..n
        BY DEF n
      <3>. QED BY <3>1, <1>2, <1>6, SMTT(20) DEF N, Numbers
    <2>2. z \in 1..n
      BY <2>1, <1>3
    <2>3. y \in 0..z - 1
      BY <2>2, <1>8
    <2>. QED BY <2>2, <2>3, <1>2, <1>3 DEF N, Numbers
  <1>13. \A y \in 1..n + m : ShapeOf(d.entities, y)
    <2>1. n \in Nat /\ \A y \in 1..n : SameRow(d.entities[y], c.entities[y])
      BY <1>2, <1>5
    <2>2. \A y \in 1..n : ShapeOf(d.entities, y)
      BY <2>1, <1>1, <1>2, SameShape
    <2>. QED BY <2>2, <1>3, <1>6
  <1>14. ActiveWithin(d)
    <2>1. ASSUME NEW y \in 1..n, y # 1, IsActive(d.entities[y])
          PROVE  IsActive(d.entities[d.entities[y].parent])
      BY <2>1, <1>1, <1>2, <1>5, <1>8 DEF ActiveWithin
    <2>2. ASSUME NEW y \in N PROVE IsActive(d.entities[d.entities[y].parent])
      BY <1>5, <1>6, <1>7
    <2>. QED BY <2>1, <2>2, <1>3 DEF ActiveWithin
  <1>15. Order(d)
    <2>. SUFFICES ASSUME NEW y \in Pending(d), y # 1, ~IsActive(d.entities[d.entities[y].parent])
                  PROVE  Before(d, y, d.entities[y].parent)
      BY DEF Order
    <2>1. y \notin N
      BY <1>5, <1>6, <1>7
    <2>2. y \in Pending(c) /\ y \in 1..n
      BY <2>1, <1>2, <1>4
    <2>3. d.entities[y].parent = c.entities[y].parent /\ ~IsActive(c.entities[c.entities[y].parent])
      BY <2>2, <1>5, <1>8
    <2>. QED BY <2>1, <2>2, <2>3, <1>1, <1>4 DEF Order
  <1>16. ASSUME NEW y \in 1..n PROVE CountedRow(d, t, y)
    <2>1. PICK k \in Nat, v \in Nat, j \in Int :
            /\ k = Cardinality(Kids(c, t, y)) /\ v = Cardinality(UnsetOf(c, y))
            /\ j = c.entities[y].count
      <3>1. c.entities[y].count \in Int
        BY <1>2 DEF Row
      <3>. QED BY <3>1, <1>1, SetsOf
    <2>a. PICK g \in Nat, h \in Nat : /\ g = (IF y = p THEN m ELSE 0) /\ h = (IF y = a THEN u ELSE 0)
      OBVIOUS
    <2>2. Cardinality(Kids(d, t, y)) = k + g
      <3>1. CASE y = p
        <4>1. Kids(c, t, p) \cap N = {} /\ IsFiniteSet(Kids(c, t, p))
          <5>1. Kids(c, t, p) \subseteq 1..n /\ IsFiniteSet(Kids(c, t, p))
            BY <1>1, SetsOf DEF n
          <5>. QED BY <5>1, <1>3
        <4>2. Cardinality(Kids(c, t, p) \cup N) = Cardinality(Kids(c, t, p)) + Cardinality(N)
          <5>1. IsFiniteSet(N)
            BY <1>3
          <5>. QED BY ONLY <4>1, <5>1, DisjointUnion
        <4>. QED BY <4>2, <3>1, <2>1, <2>a, <1>3, <1>9
      <3>2. CASE y # p
        BY <3>2, <2>1, <2>a, <1>9
      <3>. QED BY <3>1, <3>2
    <2>3. Cardinality(UnsetOf(d, y)) = v + h
      <3>1. CASE y = a
        <4>1. UnsetOf(c, a) \cap U = {} /\ IsFiniteSet(UnsetOf(c, a)) /\ IsFiniteSet(U)
          <5>1. UnsetOf(c, a) \subseteq 1..n /\ IsFiniteSet(UnsetOf(c, a))
            BY <1>1, SetsOf DEF n
          <5>2. IsFiniteSet(U)
            BY <1>3, FS_Subset
          <5>. QED BY <5>1, <5>2, <1>3
        <4>2. Cardinality(UnsetOf(c, a) \cup U) = Cardinality(UnsetOf(c, a)) + Cardinality(U)
          BY ONLY <4>1, DisjointUnion
        <4>3. u = Cardinality(U)
          BY DEF n, N, NewUnset
        <4>4. UnsetOf(d, y) = UnsetOf(c, a) \cup U /\ v = Cardinality(UnsetOf(c, a))
          BY <3>1, <2>1, <1>11
        <4>. HIDE DEF U
        <4>. QED BY <4>2, <4>3, <4>4, <3>1, <2>a
      <3>2. CASE y # a
        BY <3>2, <2>1, <2>a, <1>11
      <3>. QED BY <3>1, <3>2
    <2>4. d.entities[y].count = j + g - h
      BY <2>1, <2>a, <1>5
    <2>5. IF IsActive(c.entities[y]) THEN j = k - v ELSE j <= k
      BY <2>1, <1>1, <1>2 DEF CountedRow
    <2>6. ~IsActive(c.entities[y]) => g = 0 /\ h = 0
      BY <2>a, <1>7 DEF IsActive, Ended
    <2>7. IF IsActive(d.entities[y])
          THEN d.entities[y].count = (k + g) - (v + h)
          ELSE d.entities[y].count <= k + g
      <3>1. IsActive(d.entities[y]) <=> IsActive(c.entities[y])
        BY <1>5
      <3>2. CASE IsActive(c.entities[y])
        <4>1. j = k - v
          BY <3>2, <2>5
        <4>2. j + g - h = (k + g) - (v + h)
          BY <4>1, <2>1
        <4>. QED BY <4>2, <2>4, <3>1, <3>2
      <3>3. CASE ~IsActive(c.entities[y])
        <4>1. j <= k /\ g = 0 /\ h = 0
          BY <3>3, <2>5, <2>6
        <4>2. j + g - h <= k + g
          BY <4>1
        <4>. QED BY <4>2, <2>4, <3>1, <3>3
      <3>. QED BY <3>2, <3>3
    <2>. QED BY <2>2, <2>3, <2>7 DEF CountedRow
  <1>17. ASSUME NEW y \in N PROVE CountedRow(d, t, y)
    <2>1. Cardinality(Kids(d, t, y)) = 0 /\ Cardinality(UnsetOf(d, y)) = 0
      BY <1>10, <1>12, FS_EmptySet
    <2>. QED BY <2>1, <1>6 DEF CountedRow
  <1>18. ASSUME NEW y \in 1..n PROVE StateOf(d, y, t)
    <2>1. RowState(c.entities[y], y, Kids(c, t, y), UnsetOf(c, y),
                   y \in Pending(c) \/ y = t, Listed(c, y))
      BY <1>1, <1>2 DEF StateOf
    <2>2. y # 0 /\ y \notin N
      BY <1>3
    <2>3. (y \in Pending(d) <=> y \in Pending(c)) /\ (Listed(d, y) <=> Listed(c, y))
      BY <2>2, <1>4
    <2>4. y # p => Kids(d, t, y) = Kids(c, t, y)
      BY <1>9
    <2>5. y # a \/ u = 0 => UnsetOf(d, y) = UnsetOf(c, y)
      <3>1. u = 0 => U = {}
        <4>1. u = Cardinality(U)
          BY DEF n, N, NewUnset
        <4>2. IsFiniteSet(U)
          BY <1>3, FS_Subset
        <4>. QED BY <4>1, <4>2, FS_EmptySet
      <3>2. UnsetOf(d, y) = IF y = a THEN UnsetOf(c, a) \cup U ELSE UnsetOf(c, y)
        BY <1>11
      <3>. HIDE DEF U
      <3>. QED BY <3>1, <3>2
    <2>6. /\ Type(d.entities[y]) = Type(c.entities[y]) /\ d.entities[y].element = c.entities[y].element
          /\ d.entities[y].prev = c.entities[y].prev
          /\ IsActivity(d.entities[y]) = IsActivity(c.entities[y])
          /\ IsBoundaryEvent(d.entities[y]) = IsBoundaryEvent(c.entities[y])
          /\ IsMultiInstanceActivity(d.entities[y]) = IsMultiInstanceActivity(c.entities[y])
      <3>1. SameRow(d.entities[y], c.entities[y])
        BY <1>5
      <3>. QED BY ONLY <3>1, RowLike
    <2>7. y = p => /\ c.entities[y].state \in {"STARTED", "QUEUED", "SUSPENDED"}
                   /\ IsActivity(c.entities[y]) => ~(c.entities[y].work > 0)
      BY DEF Idle
    <2>8. y = a /\ u # 0 => c.entities[y].state = "CREATED" /\ c.entities[y].work = 0
      OBVIOUS
    <2>9. /\ IsActive(d.entities[y]) <=> IsActive(c.entities[y])
          /\ IsUnset(d.entities[y]) <=> IsUnset(c.entities[y])
          /\ d.entities[y].state = c.entities[y].state
          /\ d.entities[y].work = c.entities[y].work
          /\ d.entities[y].context = c.entities[y].context
      BY <1>5
    <2>10. RowState(d.entities[y], y, Kids(d, t, y), UnsetOf(d, y),
                    y \in Pending(d) \/ y = t, Listed(d, y))
      <3>. QED BY ONLY <2>1, <2>3, <2>4, <2>5, <2>6, <2>7, <2>8, <2>9 DEF RowState
    <2>. QED BY <2>10 DEF StateOf
  <1>19. ASSUME NEW y \in N PROVE StateOf(d, y, t)
    <2>1. Kids(d, t, y) = {} /\ UnsetOf(d, y) = {} /\ y \in Pending(d) /\ Listed(d, y)
      BY <1>3, <1>4, <1>10, <1>12
    <2>. QED BY <2>1, <1>6, SMTT(20) DEF StateOf, RowState, IsActive, Ended
  <1>20. ProcessOf(d, s)
    <2>1. 1 \in 1..n
      BY <1>2
    <2>2. /\ d.entities[1].state = c.entities[1].state
          /\ d.entities[1].count =
               c.entities[1].count + (IF 1 = p THEN m ELSE 0) - (IF 1 = a THEN u ELSE 0)
      BY <2>1, <1>5
    <2>3. 1 = a => u = 0
      BY <1>1 DEF ProcessOf, Ended
    <2>4. d.entities[1].count >= c.entities[1].count /\ c.entities[1].count \in Int
      <3>1. c.entities[1].count \in Int
        BY <2>1, <1>2 DEF Row
      <3>. QED BY <2>2, <2>3, <3>1
    <2>5. IsActive(d.entities[1]) <=> IsActive(c.entities[1])
      BY <2>1, <1>5
    <2>6. c.entities[1].state = "QUEUED" =>
            \A y \in (1..n + m) \ {1} : Type(d.entities[y]) = "startEvent"
      <3>. SUFFICES ASSUME c.entities[1].state = "QUEUED", NEW y \in 1..n + m, y # 1
                    PROVE  Type(d.entities[y]) = "startEvent"
        OBVIOUS
      <3>1. CASE y \in N
        BY <3>1 DEF N, n
      <3>2. CASE y \in 1..n
        <4>1. Type(c.entities[y]) = "startEvent"
          BY <3>2, <1>1, <1>2 DEF ProcessOf
        <4>2. SameRow(d.entities[y], c.entities[y])
          BY <3>2, <1>5
        <4>. QED BY <4>1, <4>2, RowLike
      <3>. QED BY <3>1, <3>2, <1>3
    <2>7. c.entities[1].count > 0 => d.entities[1].count > 0
      <3>1. d.entities[1].count \in Int
        BY <2>2, <2>3, <2>4, SMTT(20)
      <3>. QED BY <3>1, <2>4
    <2>. QED BY <2>2, <2>5, <2>6, <2>7, <1>1, <1>3 DEF ProcessOf
  <1>21. NewOnce(d, t)
    <2>. SUFFICES ASSUME NEW y \in 1..n + m, IsNew(y)
                  PROVE  Listed(d, y) /\ (y \in Pending(d) /\ y # 1 => Kids(d, t, y) = {})
      BY <1>3 DEF NewOnce
    <2>1. CASE y \in N
      BY <2>1, <1>3, <1>4, <1>10
    <2>2. CASE y \in 1..n
      <3>1. y \notin N /\ y # 0
        BY <2>2, <1>3
      <3>2. Listed(c, y) /\ (y \in Pending(c) /\ y # 1 => Kids(c, t, y) = {})
        BY <2>2, <1>2 DEF NewOnce
      <3>3. y = p /\ y # 1 => y \notin Pending(c)
        OBVIOUS
      <3>. QED BY <3>1, <3>2, <3>3, <2>2, <1>4, <1>9
    <2>. QED BY <2>1, <2>2, <1>3
  <1>22. \A y \in 1..n + m : CountedRow(d, t, y) /\ StateOf(d, y, t)
    BY <1>3, <1>16, <1>17, <1>18, <1>19
  <1>. QED BY <1>3, <1>4, <1>13, <1>14, <1>15, <1>20, <1>21, <1>22 DEF Consistent

LEMMA Recount ==
  ASSUME NEW r \in Row, NEW k \in Int
  PROVE  /\ [r EXCEPT !.count = @ + 0 - 0] = r
         /\ [r EXCEPT !.count = @ + k - 0] = [r EXCEPT !.count = @ + k]
         /\ [r EXCEPT !.count = @ + 0 - k] = [r EXCEPT !.count = @ + (-k)]
  <1>1. r.count \in Int
    BY DEF Row
  <1>2. r.count + 0 - 0 = r.count /\ r.count + k - 0 = r.count + k /\ r.count + 0 - k = r.count + (-k)
    BY <1>1
  <1>3. [r EXCEPT !.count = r.count] = r
    BY DEF Row
  <1>. QED BY <1>2, <1>3

LEMMA NewRowType ==
  ASSUME NEW e \in Elements, NEW p \in Nat, NEW q \in Nat, NEW f \in Elements \cup {Null}
  PROVE  NewRow(e, p, q, f) \in Row
  <1>1. Graph[e].multiple \in BOOLEAN
    BY GraphAssumption DEF Node
  <1>. QED BY <1>1 DEF NewRow, Row, InstanceState

(* New executions of other elements than boundary events. *)
LEMMA Branched ==
  ASSUME NEW c, NEW t, NEW s, Consistent(c, t, s), NewOnce(c, t), t \in 0..Len(c.entities),
         NEW p \in 1..Len(c.entities), c.entities[p].state \in {"STARTED", "QUEUED", "SUSPENDED"},
         Idle(c.entities[p]),
         IsNew(p) /\ p # 1 => p \notin Pending(c),
         IsScope(c.entities[p]), ~c.entities[p].multi,
         NEW new \in Seq(Row),
         \A k \in 1..Len(new) :
           /\ new[k].parent = p /\ new[k].state = "NEW" /\ new[k].count = 0 /\ new[k].work = 0
           /\ new[k].multi = Graph[new[k].element].multiple
           /\ Type(new[k]) \notin {"process"} \cup BoundaryEvents
           /\ new[k].prev \in 0..Len(c.entities)
           /\ new[k].prev # 0 => Type(new[k]) = "parallel",
         c.entities[1].state = "QUEUED" =>
           \A k \in 1..Len(new) : Type(new[k]) = "startEvent"
  PROVE  Consistent(Branches(c, p, new), t, s) /\ NewOnce(Branches(c, p, new), t)
  <1>. DEFINE d == Branches(c, p, new)
              n == Len(c.entities)
              m == Len(new)
              N == Numbers(n, m)
  <1>1. CtxType(c) /\ Distinct(c)
    BY DEF Consistent
  <1>2. n \in Nat \ {0} /\ m \in Nat /\ \A y \in 1..n : c.entities[y] \in Row
    BY <1>1, CtxFacts
  <1>3. /\ Extended(c, d, N) /\ CtxType(d)
        /\ d.instance = c.instance /\ Len(d.entities) = n + m
        /\ \A y \in 1..n : d.entities[y] =
             IF y = p THEN [c.entities[p] EXCEPT !.count = @ + m] ELSE c.entities[y]
        /\ \A k \in 1..m : d.entities[n + k] = [new[k] EXCEPT !.multi = @ /\ ~c.entities[p].multi]
    <2>. HIDE DEF m
    <2>1. p \in 1..Len(c.entities) /\ new \in Seq(Row)
      OBVIOUS
    <2>. QED BY ONLY <1>1, <2>1, BranchesExtends, SMTT(20) DEF m
  <1>. HIDE DEF d, n, m
  <1>4. \A y \in 1..n : d.entities[y] = Recounted(c.entities[y], y, p, m, 0, 0)
    <2>. SUFFICES ASSUME NEW y \in 1..n
                  PROVE  d.entities[y] = Recounted(c.entities[y], y, p, m, 0, 0)
      OBVIOUS
    <2>1. PICK r \in Row : r = c.entities[y]
      BY <1>2
    <2>2. /\ [r EXCEPT !.count = @ + 0 - 0] = r
          /\ [r EXCEPT !.count = @ + m - 0] = [r EXCEPT !.count = @ + m]
      <3>1. m \in Int
        BY <1>2
      <3>. QED BY <3>1, Recount
    <2>3. CASE y = p
      BY <2>1, <2>2, <2>3, <1>3 DEF Recounted
    <2>4. CASE y # p
      BY <2>1, <2>2, <2>4, <1>3 DEF Recounted
    <2>. QED BY <2>3, <2>4
  <1>5. ASSUME NEW y \in N
        PROVE  /\ ShapeOf(d.entities, y) /\ d.entities[y].parent = p
               /\ d.entities[y].state = "NEW" /\ d.entities[y].count = 0
               /\ d.entities[y].work = 0
               /\ ~IsUnset(d.entities[y])
               /\ \E k \in 1..m : Type(d.entities[y]) = Type(new[k])
    <2>1. PICK k \in 1..m : y = n + k /\ n < y
      <3>1. y - n \in 1..m /\ y = n + (y - n) /\ n < y
        BY <1>2 DEF Numbers
      <3>. QED BY <3>1
    <2>2. PICK q \in Row : q = new[k]
      BY ElementOfSeq DEF m
    <2>3. d.entities[y] = [q EXCEPT !.multi = q.multi /\ ~c.entities[p].multi]
      BY <1>3, <2>1, <2>2
    <2>4. PICK r : r = [q EXCEPT !.multi = q.multi /\ ~c.entities[p].multi]
      OBVIOUS
    <2>5. /\ r.element = q.element /\ r.parent = p /\ r.prev = q.prev /\ r.state = "NEW"
          /\ r.count = 0 /\ r.work = 0 /\ r.multi = Graph[q.element].multiple
          /\ Type(r) = Type(q) /\ Type(q) \notin {"process"} \cup BoundaryEvents
          /\ q.prev \in 0..n /\ (q.prev # 0 => Type(q) = "parallel")
      BY <2>2, <2>4 DEF Row, Type, m, n
    <2>6. SameRow(d.entities[p], c.entities[p]) /\ p \in 1..n /\ p < y
      <3>1. p \in 1..n
        BY DEF n
      <3>2. c.entities[p] \in Row
        BY <1>2, <3>1
      <3>3. d.entities[p] = [c.entities[p] EXCEPT !.count = @ + m]
        BY <1>3, <3>1
      <3>. QED BY <3>1, <3>2, <3>3, <2>1, <1>2 DEF SameRow, Row
    <2>7. IsScope(d.entities[p]) /\ ~d.entities[p].multi
      BY <2>6, RowLike DEF SameRow
    <2>8. ~IsBoundaryEvent(r) /\ ~IsMultiInstanceActivity(r)
      BY <2>5 DEF IsBoundaryEvent, IsMultiInstanceActivity
    <2>9. r.parent \in 0..y - 1 /\ r.prev \in 0..y - 1 /\ y # 1 /\ r.parent # 0
      BY <2>1, <2>5, <2>6, <1>2
    <2>10. d.entities[y] = r
      BY <2>3, <2>4
    <2>11. ShapeOf(d.entities, y)
      BY <2>5, <2>7, <2>8, <2>9, <2>10 DEF ShapeOf
    <2>. QED BY <2>2, <2>5, <2>8, <2>10, <2>11 DEF IsUnset
  <1>6. 0 = Cardinality(NewUnset(d, n, m))
    <2>1. NewUnset(d, n, m) = {}
      BY <1>5 DEF NewUnset
    <2>. QED BY <2>1, FS_EmptySet
  <1>7. c.entities[1].state = "QUEUED" => \A y \in N : Type(d.entities[y]) = "startEvent"
    BY <1>5 DEF m
  <1>8. \A y \in N : NewWithin(d, y, p, 0)
    BY <1>5 DEF NewWithin
  <1>9. 0 \in 0..n /\ 0 \in Nat
    BY <1>2
  <1>10. Consistent(d, t, s) /\ NewOnce(d, t)
    <2>. HIDE DEF N
    <2>1. m \in Nat /\ CtxType(d) /\ d.instance = c.instance /\ Len(d.entities) = n + m
      BY <1>2, <1>3
    <2>2. Extended(c, d, Numbers(n, m))
      BY <1>3 DEF N
    <2>3. PICK o \in 0..n : o \in Nat /\ o = 0
      BY <1>9
    <2>4. /\ \A y \in 1..n : d.entities[y] = Recounted(c.entities[y], y, p, m, o, o)
          /\ \A y \in Numbers(n, m) : NewWithin(d, y, p, o)
          /\ o = Cardinality(NewUnset(d, n, m))
          /\ o # 0 => o # 0 /\ c.entities[o].state = "CREATED" /\ c.entities[o].work = 0
      BY <2>3, <1>4, <1>6, <1>8 DEF N
    <2>. QED BY <2>1, <2>2, <2>3, <2>4, <1>7, Grown, ZenonT(40) DEF n, N
  <1>. QED BY <1>10 DEF d

-----------------------------------------------------------------------------

(* What an iteration changes *)

(* The execution x, or the count of its scope s, changes, and new executions  *)
(* are created within one of these.                                           *)
MovedRow(c, d, x, s, y) ==
  /\ SameRow(d.entities[y], c.entities[y])
  /\ y \notin {x, s} => d.entities[y] = c.entities[y]
  /\ y # x => d.entities[y].state = c.entities[y].state
  /\ ~IsActive(c.entities[y]) => ~IsActive(d.entities[y])
  /\ y \in Pending(d) => y \in Pending(c)
  /\ Listed(d, y) <=> Listed(c, y)

Moves(c, d, x, s) ==
  /\ Len(c.entities) <= Len(d.entities)
  /\ \A y \in 1..Len(c.entities) : MovedRow(c, d, x, s, y)
  /\ \A y \in 1..Len(d.entities) : y > Len(c.entities) => d.entities[y].parent \in {x, s}

LEMMA MovesOn ==
  ASSUME NEW c, NEW d, NEW e, NEW x, NEW s, CtxType(c), CtxType(d), CtxType(e),
         Moves(c, d, x, s), Moves(d, e, x, s)
  PROVE  Moves(c, e, x, s)
  <1>1. PICK l \in Nat, m \in Nat, n \in Nat :
          l = Len(c.entities) /\ m = Len(d.entities) /\ n = Len(e.entities)
    BY CtxFacts
  <1>2. l <= m /\ m <= n
    BY <1>1 DEF Moves
  <1>3. ASSUME NEW y \in 1..l PROVE MovedRow(c, e, x, s, y)
    <2>1. y \in 1..m
      BY <1>2
    <2>2. MovedRow(c, d, x, s, y) /\ MovedRow(d, e, x, s, y)
      BY <2>1, <1>1 DEF Moves
    <2>. QED BY ONLY <2>2 DEF MovedRow, SameRow
  <1>4. ASSUME NEW y \in 1..n, y > l PROVE e.entities[y].parent \in {x, s}
    <2>1. CASE y > m
      BY <2>1, <1>1 DEF Moves
    <2>2. CASE ~(y > m)
      <3>1. y \in 1..m
        BY <2>2
      <3>2. d.entities[y].parent \in {x, s} /\ MovedRow(d, e, x, s, y)
        BY <3>1, <1>1, <1>4 DEF Moves
      <3>. QED BY <3>2 DEF MovedRow, SameRow
    <2>. QED BY <2>1, <2>2
  <1>. QED BY <1>1, <1>2, <1>3, <1>4 DEF Moves

LEMMA MovesRows ==
  ASSUME NEW c, NEW d, NEW x, NEW s, CtxType(c), CtxType(d),
         Len(d.entities) = Len(c.entities), d.list = c.list, d.next = c.next,
         \A y \in 1..Len(c.entities) :
           /\ SameRow(d.entities[y], c.entities[y])
           /\ y \notin {x, s} => d.entities[y] = c.entities[y]
           /\ y # x => d.entities[y].state = c.entities[y].state
           /\ ~IsActive(c.entities[y]) => ~IsActive(d.entities[y])
  PROVE  Moves(c, d, x, s)
  <1>1. Len(c.entities) \in Nat
    BY CtxFacts
  <1>2. Pending(d) = Pending(c) /\ \A y : Listed(d, y) <=> Listed(c, y)
    BY SameList
  <1>3. \A y \in 1..Len(c.entities) : MovedRow(c, d, x, s, y)
    BY <1>2 DEF MovedRow
  <1>. QED BY <1>1, <1>3 DEF Moves

Inside(r, scope) == [r EXCEPT !.multi = @ /\ ~scope.multi]

(* d is Branches(c, p, new). *)
BranchesAre(c, d, p, new) ==
  /\ CtxType(d) /\ d.instance = c.instance
  /\ Extended(c, d, Numbers(Len(c.entities), Len(new)))
  /\ Len(d.entities) = Len(c.entities) + Len(new)
  /\ \A y \in 1..Len(c.entities) :
       d.entities[y] = IF y = p THEN Counted(c.entities[p], Len(new)) ELSE c.entities[y]
  /\ \A k \in 1..Len(new) : d.entities[Len(c.entities) + k] = Inside(new[k], c.entities[p])

LEMMA BranchesFacts ==
  ASSUME NEW c, CtxType(c), Distinct(c), NEW p \in 1..Len(c.entities), NEW new \in Seq(Row)
  PROVE  BranchesAre(c, Branches(c, p, new), p, new)
  <1>. DEFINE d == Branches(c, p, new)
              m == Len(new)
  <1>1. /\ Extended(c, d, Numbers(Len(c.entities), m)) /\ CtxType(d)
        /\ d.instance = c.instance /\ Len(d.entities) = Len(c.entities) + m
        /\ \A y \in 1..Len(c.entities) : d.entities[y] =
             IF y = p THEN [c.entities[p] EXCEPT !.count = @ + m] ELSE c.entities[y]
        /\ \A k \in 1..m : d.entities[Len(c.entities) + k] =
                              [new[k] EXCEPT !.multi = @ /\ ~c.entities[p].multi]
    <2>. HIDE DEF m
    <2>1. /\ p \in 1..Len(c.entities) /\ new \in Seq(Row)
          /\ CtxType(c) /\ Distinct(c)
      OBVIOUS
    <2>. QED BY ONLY <2>1, BranchesExtends DEF m
  <1>. HIDE DEF d
  <1>. QED BY <1>1 DEF BranchesAre, Counted, Inside, m, d

(* New executions within p. *)
NewIn(c, d, p) ==
  \E new \in Seq(Row) :
    (\A k \in 1..Len(new) : new[k].parent = p) /\ BranchesAre(c, d, p, new)

LEMMA MovesBranches ==
  ASSUME NEW c, NEW x, NEW s, CtxType(c), NEW p \in 1..Len(c.entities), p \in {x, s},
         NEW d, NewIn(c, d, p)
  PROVE  Moves(c, d, x, s)
  <1>. PICK new \in Seq(Row) :
         (\A k \in 1..Len(new) : new[k].parent = p) /\ BranchesAre(c, d, p, new)
    BY DEF NewIn
  <1>0. Len(new) \in Nat /\ Len(c.entities) \in Nat
    BY CtxFacts
  <1>1. PICK n \in Nat, m \in Nat : n = Len(c.entities) /\ m = Len(new)
    BY <1>0
  <1>2. /\ Extended(c, d, Numbers(n, m)) /\ Len(d.entities) = n + m
        /\ \A y \in 1..n : d.entities[y] =
             IF y = p THEN Counted(c.entities[p], m) ELSE c.entities[y]
        /\ \A k \in 1..m : d.entities[n + k] = Inside(new[k], c.entities[p])
    BY <1>1 DEF BranchesAre
  <1>3. \A y \in 1..n : y \notin Numbers(n, m) /\ y # 0 /\ c.entities[y] \in Row
    BY <1>1, CtxFacts, NumbersFacts
  <1>4. ASSUME NEW y \in 1..n PROVE MovedRow(c, d, x, s, y)
    <2>1. /\ SameRow(d.entities[y], c.entities[y]) /\ d.entities[y].state = c.entities[y].state
          /\ y # p => d.entities[y] = c.entities[y]
      <3>1. CASE y = p
        <4>1. d.entities[y] = Counted(c.entities[y], m) /\ c.entities[y] \in Row
          BY <3>1, <1>2, <1>3
        <4>. QED BY <4>1, <3>1 DEF Row, SameRow, Counted
      <3>2. CASE y # p
        BY <3>2, <1>2 DEF SameRow
      <3>. QED BY <3>1, <3>2
    <2>2. y \in Pending(d) => y \in Pending(c)
      BY <1>2, <1>3 DEF Extended
    <2>3. Listed(d, y) <=> Listed(c, y)
      BY <1>2, <1>3 DEF Extended
    <2>. QED BY <2>1, <2>2, <2>3 DEF MovedRow, IsActive
  <1>5. ASSUME NEW y \in 1..n + m, y > n PROVE d.entities[y].parent \in {x, s}
    <2>1. y - n \in 1..m
      BY <1>5
    <2>2. PICK k \in 1..m : k = y - n
      BY <2>1
    <2>3. n + k = y /\ new[k] \in Row
      BY <2>2, <1>1, ElementOfSeq
    <2>4. d.entities[y].parent = new[k].parent
      BY <1>2, <2>3 DEF Row, Inside
    <2>. QED BY <2>4, <1>1
  <1>. QED BY <1>1, <1>2, <1>4, <1>5 DEF Moves

-----------------------------------------------------------------------------

(* The branches of continueExecution *)

LEMMA Flows ==
  ASSUME NEW e \in Elements
  PROVE  /\ Graph[e] \in Node /\ Graph[e].outgoing \in Seq(Elements)
         /\ Len(Graph[e].outgoing) \in Nat /\ DOMAIN Graph[e].outgoing = 1..Len(Graph[e].outgoing)
         /\ \A k \in 1..Len(Graph[e].outgoing) :
              /\ Graph[e].outgoing[k] \in Elements
              /\ Graph[Graph[e].outgoing[k]].type \notin {"process"} \cup BoundaryEvents
  <1>1. Graph[e] \in Node /\ Graph[e].outgoing \in Seq(Elements)
    BY GraphAssumption DEF Node
  <1>2. Len(Graph[e].outgoing) \in Nat /\ DOMAIN Graph[e].outgoing = 1..Len(Graph[e].outgoing)
    BY <1>1
  <1>3. ASSUME NEW k \in 1..Len(Graph[e].outgoing)
        PROVE  /\ Graph[e].outgoing[k] \in Elements
               /\ Graph[e].outgoing[k] \in Range(Graph[e].outgoing)
    BY <1>1, <1>2, ElementOfSeq DEF Range
  <1>. QED BY <1>1, <1>2, <1>3, FlowAssumption

(* Nothing but the process is queued. *)
LEMMA NotQueued ==
  ASSUME NEW c, NEW t, NEW s, Consistent(c, t, s), NEW p \in 1..Len(c.entities),
         IsScope(c.entities[p]), IsOpen(c.entities[p])
  PROVE  c.entities[1].state # "QUEUED"
  <1>1. /\ CtxType(c) /\ ProcessOf(c, s)
    BY DEF Consistent
  <1>2. DOMAIN c.entities = 1..Len(c.entities) /\ c.entities[p] \in Row
    BY <1>1, CtxFacts
  <1>3. CASE p = 1
    BY <1>3 DEF IsOpen
  <1>4. CASE p # 1
    <2>1. SUFFICES ASSUME c.entities[1].state = "QUEUED" PROVE FALSE
      OBVIOUS
    <2>2. Type(c.entities[p]) = "startEvent"
      BY <1>1, <1>2, <1>4, <2>1 DEF ProcessOf
    <2>3. c.entities[p].multi /\ c.entities[p].element \in Elements
      BY <1>2, <2>2 DEF IsScope, Row
    <2>4. Graph[c.entities[p].element].multiple
      <3>1. ShapeOf(c.entities, p)
        BY <1>2 DEF Consistent
      <3>. QED BY <3>1, <2>3 DEF ShapeOf
    <2>. QED BY <2>2, <2>3, <2>4, ValidAssumption DEF Type, Activities
  <1>. QED BY <1>3, <1>4

(* Whether it is told where it comes from or not, an execution goes on. *)
LEMMA Continued ==
  ASSUME NEW c, NEW t, NEW s, Consistent(c, t, s), NewOnce(c, t), t \in 0..Len(c.entities),
         NEW p \in 1..Len(c.entities), IsOpen(c.entities[p]), Idle(c.entities[p]),
         IsNew(p) /\ p # 1 => p \notin Pending(c),
         IsScope(c.entities[p]), ~c.entities[p].multi,
         NEW m \in Nat, NEW new \in [1..m -> Row],
         \A k \in 1..m : \E e \in Elements, q \in 0..Len(c.entities), f \in Elements \cup {Null} :
           /\ new[k] = NewRow(e, p, q, f)
           /\ Graph[e].type \notin {"process"} \cup BoundaryEvents
           /\ q # 0 => Graph[e].type = "parallel"
  PROVE  /\ Consistent(Branches(c, p, new), t, s) /\ NewOnce(Branches(c, p, new), t)
         /\ NewIn(c, Branches(c, p, new), p)
  <1>1. new \in Seq(Row) /\ Len(new) = m
    OBVIOUS
  <1>2. ASSUME NEW k \in 1..m
        PROVE  /\ new[k].parent = p /\ new[k].state = "NEW" /\ new[k].count = 0 /\ new[k].work = 0
               /\ new[k].multi = Graph[new[k].element].multiple
               /\ Type(new[k]) \notin {"process"} \cup BoundaryEvents
               /\ new[k].prev \in 0..Len(c.entities)
               /\ new[k].prev # 0 => Type(new[k]) = "parallel"
    BY DEF NewRow, Type
  <1>3. c.entities[1].state # "QUEUED"
    BY NotQueued
  <1>4. Consistent(Branches(c, p, new), t, s) /\ NewOnce(Branches(c, p, new), t)
    BY <1>1, <1>2, <1>3, Branched DEF IsOpen
  <1>5. BranchesAre(c, Branches(c, p, new), p, new)
    BY <1>1, BranchesFacts DEF Consistent
  <1>. QED BY <1>1, <1>2, <1>4, <1>5 DEF NewIn

LEMMA TakesOutgoing ==
  ASSUME NEW c, NEW t, NEW s, Consistent(c, t, s), NewOnce(c, t), t \in 0..Len(c.entities),
         NEW p \in 1..Len(c.entities), IsOpen(c.entities[p]), Idle(c.entities[p]),
         IsNew(p) /\ p # 1 => p \notin Pending(c),
         IsScope(c.entities[p]), ~c.entities[p].multi, NEW x \in 1..Len(c.entities)
  PROVE  /\ Consistent(TakeOutgoing(c, p, x), t, s) /\ NewOnce(TakeOutgoing(c, p, x), t)
         /\ NewIn(c, TakeOutgoing(c, p, x), p)
  <1>. DEFINE e == c.entities[x].element
              m == Len(Graph[e].outgoing)
              out == Graph[e].outgoing
              new == [k \in 1..m |-> IF Graph[out[k]].type = "parallel"
                                     THEN NewRow(out[k], p, x, e) ELSE NewRow(out[k], p, 0, Null)]
  <1>1. e \in Elements /\ Len(c.entities) \in Nat
    BY CtxFacts DEF Consistent, Row
  <1>2. /\ m \in Nat /\ DOMAIN out = 1..m
        /\ \A k \in 1..m : out[k] \in Elements /\ Graph[out[k]].type \notin {"process"} \cup BoundaryEvents
    BY <1>1, Flows
  <1>3. TakeOutgoing(c, p, x) = Branches(c, p, new)
    BY <1>2 DEF TakeOutgoing, Outgoing
  <1>. HIDE DEF e, m, out
  <1>4. \A k \in 1..m : \E f \in Elements, q \in 0..Len(c.entities), g \in Elements \cup {Null} :
           /\ new[k] = NewRow(f, p, q, g)
           /\ Graph[f].type \notin {"process"} \cup BoundaryEvents
           /\ q # 0 => Graph[f].type = "parallel"
    <2>. SUFFICES ASSUME NEW k \in 1..m
                  PROVE  \E f \in Elements, q \in 0..Len(c.entities), g \in Elements \cup {Null} :
                           /\ new[k] = NewRow(f, p, q, g)
                           /\ Graph[f].type \notin {"process"} \cup BoundaryEvents
                           /\ q # 0 => Graph[f].type = "parallel"
      OBVIOUS
    <2>1. x \in 0..Len(c.entities) /\ 0 \in 0..Len(c.entities)
      BY <1>1
    <2>. QED BY <2>1, <1>1, <1>2
  <1>5. new \in [1..m -> Row]
    <2>1. ASSUME NEW k \in 1..m PROVE new[k] \in Row
      <3>1. p \in Nat /\ x \in Nat /\ 0 \in Nat /\ out[k] \in Elements
        BY <1>2
      <3>. QED BY <3>1, <1>1, NewRowType
    <2>. QED BY <2>1
  <1>. HIDE DEF new
  <1>6. /\ Consistent(Branches(c, p, new), t, s) /\ NewOnce(Branches(c, p, new), t)
        /\ NewIn(c, Branches(c, p, new), p)
    BY <1>2, <1>4, <1>5, Continued
  <1>. QED BY <1>3, <1>6

WithState(c, x, v) == [c.entities[x] EXCEPT !.state = v]

LEMMA StateIs ==
  ASSUME NEW c, CtxType(c), NEW x \in 1..Len(c.entities), NEW v \in InstanceState
  PROVE  /\ SetState(c, x, v) = [c EXCEPT !.entities[x] = WithState(c, x, v)]
         /\ WithState(c, x, v) \in Row /\ WithState(c, x, v).state = v
         /\ SameRow(WithState(c, x, v), c.entities[x])
         /\ WithState(c, x, v).count = c.entities[x].count
         /\ WithState(c, x, v).work = c.entities[x].work
         /\ WithState(c, x, v).context = c.entities[x].context
  <1>1. c.entities[x] \in Row
    BY CtxFacts
  <1>2. SetState(c, x, v) = [c EXCEPT !.entities[x] = WithState(c, x, v)]
    BY DEF SetState, WithState
  <1>. QED BY <1>1, <1>2 DEF WithState, Row, SameRow

(* The state of an active execution changes to another active one. *)
LEMMA StateChange ==
  ASSUME NEW c, NEW t, NEW s, Consistent(c, t, s), NewOnce(c, t),
         NEW x \in 2..Len(c.entities), NEW u, u = t \/ (t = x /\ u = 0),
         NEW v \in {"CREATED", "STARTED", "QUEUED", "SUSPENDED"}, IsActive(c.entities[x]),
         v = "QUEUED" => Type(c.entities[x]) = "startEvent",
         v = "CREATED" => Kids(c, t, x) = {} /\ Type(c.entities[x]) # "parallel",
         v # "CREATED" => UnsetOf(c, x) = {},
         v \in {"STARTED", "QUEUED"} => ~IsBoundaryEvent(c.entities[x]),
         v = "SUSPENDED" => Idle(c.entities[x]) /\ (IsBoundaryEvent(c.entities[x]) => c.entities[x].work = 0),
         IsMultiInstanceActivity(c.entities[x]) /\ v = "CREATED" =>
           c.entities[x].work = 0 /\ c.entities[x].prev # 0
  PROVE  /\ Consistent(SetState(c, x, v), u, s) /\ NewOnce(SetState(c, x, v), u)
         /\ \A y : /\ Kids(SetState(c, x, v), u, y) = Kids(c, t, y)
                   /\ UnsetOf(SetState(c, x, v), y) = UnsetOf(c, y)
  <1>. DEFINE r == WithState(c, x, v)
  <1>1. CtxType(c) /\ StateOf(c, x, t) /\ x \in 1..Len(c.entities) /\ v \in InstanceState
    <2>1. CtxType(c) /\ x \in 1..Len(c.entities) /\ DOMAIN c.entities = 1..Len(c.entities)
      BY CtxFacts DEF Consistent
    <2>. QED BY <2>1 DEF Consistent, InstanceState
  <1>2. /\ SetState(c, x, v) = [c EXCEPT !.entities[x] = r]
        /\ r \in Row /\ r.state = v /\ SameRow(r, c.entities[x])
        /\ r.count = c.entities[x].count /\ r.work = c.entities[x].work
        /\ r.context = c.entities[x].context
    BY <1>1, StateIs
  <1>. HIDE DEF r
  <1>3. /\ Type(r) = Type(c.entities[x]) /\ r.element = c.entities[x].element
        /\ r.prev = c.entities[x].prev
        /\ IsActivity(r) = IsActivity(c.entities[x])
        /\ IsBoundaryEvent(r) = IsBoundaryEvent(c.entities[x])
        /\ IsMultiInstanceActivity(r) = IsMultiInstanceActivity(c.entities[x])
    BY <1>2, RowLike
  <1>4. IsActive(r) /\ (IsUnset(r) <=> IsUnset(c.entities[x]))
    BY <1>2, <1>3 DEF IsActive, IsUnset, Ended
  <1>5. RowState(c.entities[x], x, Kids(c, t, x), UnsetOf(c, x), x \in Pending(c) \/ x = t, Listed(c, x))
    BY <1>1 DEF StateOf
  <1>6. RowState(r, x, Kids(c, t, x), UnsetOf(c, x), x \in Pending(c) \/ x = u, Listed(c, x))
    <2>1. IsUnset(r) => IsBoundaryEvent(c.entities[x])
      BY <1>3 DEF IsUnset
    <2>2. /\ v = "QUEUED" => Type(r) = "startEvent"
          /\ v = "CREATED" => Kids(c, t, x) = {} /\ Type(r) # "parallel"
          /\ v # "CREATED" => UnsetOf(c, x) = {}
          /\ v \in {"STARTED", "QUEUED"} => ~IsBoundaryEvent(r)
          /\ v = "SUSPENDED" => (IsActivity(r) \/ IsBoundaryEvent(r) => r.work = 0)
          /\ IsMultiInstanceActivity(r) /\ v = "CREATED" => r.work = 0 /\ r.prev # 0
          /\ v \in {"CREATED", "STARTED", "QUEUED", "SUSPENDED"}
      BY <1>2, <1>3 DEF Idle
    <2>3. /\ IsActivity(r) /\ r.work > 0 =>
               UnsetOf(c, x) = {} /\ Kids(c, t, x) = {} /\ ~Listed(c, x) /\ r.work = 1
          /\ IsBoundaryEvent(r) /\ IsActive(r) /\ ~r.context /\ Graph[r.element].defined =>
               Listed(c, x) \/ r.work = 0
      BY <1>2, <1>3, <1>5 DEF RowState
    <2>4. IsUnset(r) => v \in {"CREATED", "SUSPENDED"}
      BY <2>1, <2>2, <1>3
    <2>. HIDE <1>5
    <2>. QED BY ONLY <1>2, <2>2, <2>3, <2>4 DEF RowState
  <1>7. /\ IsUnset(r) <=> IsUnset(c.entities[x])
        /\ IsActive(r)
    BY <1>4
  <1>. HIDE DEF r
  <1>8. PICK d : d = Put(c, x, r)
    OBVIOUS
  <1>10. RowChanges(c, t, x, r, u)
    BY <1>2, <1>6, <1>7 DEF RowChanges
  <1>9. /\ Consistent(d, u, s) /\ NewOnce(d, u)
        /\ \A y : Kids(d, u, y) = Kids(c, t, y) /\ UnsetOf(d, y) = UnsetOf(c, y)
    BY <1>8, <1>10, RowChange
  <1>11. d = SetState(c, x, v)
    BY <1>2, <1>8 DEF Put
  <1>. QED BY <1>9, <1>11

LEMMA EntersSubProcess ==
  ASSUME NEW c, NEW t, NEW s, Consistent(c, t, s), NewOnce(c, t), t \in 0..Len(c.entities),
         NEW x \in 2..Len(c.entities), NEW u, u = t \/ (t = x /\ u = 0),
         Type(c.entities[x]) = "subProcess", ~c.entities[x].multi, IsActive(c.entities[x]),
         IsNew(x) => x \notin Pending(c), UnsetOf(c, x) = {}, Idle(c.entities[x]),
         NEW p, IsOpen(c.entities[p])
  PROVE  /\ Consistent(EnterSubProcess(c, p, x), u, s) /\ NewOnce(EnterSubProcess(c, p, x), u)
         /\ NewIn(SetState(c, x, c.entities[p].state), EnterSubProcess(c, p, x), x)
  <1>0. PICK v \in {"STARTED", "SUSPENDED"} : v = c.entities[p].state
    BY DEF IsOpen
  <1>. DEFINE d == SetState(c, x, v)
              f == StartEvent(c.entities[x].element)
              new == [k \in 1..1 |-> NewRow(f, x, 0, Null)]
  <1>1. /\ CtxType(c) /\ x \in 1..Len(c.entities) /\ Len(c.entities) \in Nat
        /\ c.entities[x] \in Row /\ v \in InstanceState
    BY CtxFacts DEF Consistent, InstanceState
  <1>2. /\ Consistent(d, u, s) /\ NewOnce(d, u)
    <2>1. ~IsBoundaryEvent(c.entities[x])
      BY DEF IsBoundaryEvent, BoundaryEvents
    <2>2. /\ v \in {"CREATED", "STARTED", "QUEUED", "SUSPENDED"} /\ v # "QUEUED" /\ v # "CREATED"
      OBVIOUS
    <2>. QED BY <2>1, <2>2, StateChange
  <1>3. /\ Len(d.entities) = Len(c.entities) /\ d.list = c.list /\ d.next = c.next
        /\ d.entities[x].state = v /\ SameRow(d.entities[x], c.entities[x])
        /\ d.entities[x].work = c.entities[x].work
    <2>1. /\ d = [c EXCEPT !.entities[x] = WithState(c, x, v)]
          /\ WithState(c, x, v) \in Row /\ WithState(c, x, v).state = v
          /\ SameRow(WithState(c, x, v), c.entities[x])
          /\ WithState(c, x, v).work = c.entities[x].work
      BY <1>1, StateIs
    <2>. HIDE DEF d
    <2>2. /\ Len(d.entities) = Len(c.entities) /\ d.list = c.list /\ d.next = c.next
          /\ d.entities[x] = WithState(c, x, v)
      BY <1>1, <2>1, Replaced
    <2>. QED BY <2>1, <2>2
  <1>4. f \in Elements /\ Graph[f].type = "startEvent" /\ Null \in Elements \cup {Null}
    <2>1. c.entities[x].element \in Elements /\ Graph[c.entities[x].element].type = "subProcess"
      BY <1>1 DEF Row, Type
    <2>. QED BY <2>1, ValidAssumption DEF StartEvent
  <1>5. EnterSubProcess(c, p, x) = Branches(d, x, new)
    <2>1. <<NewRow(f, x, 0, Null)>> = new
      OBVIOUS
    <2>. QED BY <2>1, <1>0 DEF EnterSubProcess, Branch
  <1>. HIDE DEF d, f
  <1>6. new \in [1..1 -> Row]
    <2>1. NewRow(f, x, 0, Null) \in Row
      BY <1>1, <1>4, NewRowType
    <2>. QED BY <2>1
  <1>7. \A k \in 1..1 : \E e \in Elements, q \in 0..Len(d.entities), g \in Elements \cup {Null} :
           /\ new[k] = NewRow(e, x, q, g)
           /\ Graph[e].type \notin {"process"} \cup BoundaryEvents
           /\ q # 0 => Graph[e].type = "parallel"
    <2>1. 0 \in 0..Len(d.entities)
      BY <1>1, <1>3
    <2>2. Graph[f].type \notin {"process"} \cup BoundaryEvents
      BY <1>4 DEF BoundaryEvents
    <2>. QED BY <2>1, <2>2, <1>4
  <1>. HIDE DEF new
  <1>8. /\ x \in 1..Len(d.entities) /\ IsScope(d.entities[x]) /\ ~d.entities[x].multi
        /\ u \in 0..Len(d.entities) /\ (IsNew(x) /\ x # 1 => x \notin Pending(d))
        /\ IsOpen(d.entities[x]) /\ Idle(d.entities[x])
    <2>1. Pending(d) = Pending(c)
      BY <1>3, SameList
    <2>2. Type(d.entities[x]) = "subProcess"
      BY <1>3, RowLike
    <2>3. IsActivity(d.entities[x]) <=> IsActivity(c.entities[x])
      BY <1>3, RowLike
    <2>. QED BY <2>1, <2>2, <2>3, <1>1, <1>3 DEF IsScope, SameRow, IsOpen, Idle
  <1>9. /\ Consistent(Branches(d, x, new), u, s) /\ NewOnce(Branches(d, x, new), u)
        /\ NewIn(d, Branches(d, x, new), x)
    <2>1. 1 \in Nat
      OBVIOUS
    <2>2. PICK m \in Nat : m = 1
      BY <2>1
    <2>3. new \in [1..m -> Row]
      BY <1>6, <2>2
    <2>4. \A k \in 1..m : \E e \in Elements, q \in 0..Len(d.entities), g \in Elements \cup {Null} :
           /\ new[k] = NewRow(e, x, q, g)
           /\ Graph[e].type \notin {"process"} \cup BoundaryEvents
           /\ q # 0 => Graph[e].type = "parallel"
      BY <1>7, <2>2
    <2>. QED BY <2>3, <2>4, <1>2, <1>3, <1>8, Continued
  <1>. QED BY <1>0, <1>5, <1>9 DEF d

(* An execution that waits is not continued any more. *)
LEMMA Rests ==
  ASSUME NEW c, NEW x, NEW s, Consistent(c, x, s), NewOnce(c, x), x \in 1..Len(c.entities),
         IsActive(c.entities[x]), c.entities[x].state # "NEW",
         ~(IsBoundaryEvent(c.entities[x]) /\ c.entities[x].state = "STARTED")
  PROVE  Consistent(c, 0, s) /\ NewOnce(c, 0)
  <1>1. /\ CtxType(c) /\ Distinct(c) /\ \A y \in DOMAIN c.entities : StateOf(c, y, x)
        /\ ProcessOf(c, s) /\ Order(c)
    BY DEF Consistent
  <1>2. DOMAIN c.entities = 1..Len(c.entities) /\ Len(c.entities) \in Nat
    BY <1>1, CtxFacts
  <1>3. ASSUME NEW y \in 1..Len(c.entities) PROVE SameCount(c, x, c, 0, y)
    <2>1. StateOf(c, y, x) /\ SameRow(c.entities[y], c.entities[y]) /\ y # 0
      BY <1>1, <1>2 DEF SameRow
    <2>2. CASE y = x
      <3>1. RowState(c.entities[x], x, Kids(c, x, x), UnsetOf(c, x), x \in Pending(c) \/ x = 0, Listed(c, x))
        BY <2>1, <2>2 DEF StateOf, RowState, IsActive, Ended
      <3>. QED BY <3>1, <2>1, <2>2 DEF SameCount
    <2>3. CASE y # x
      <3>1. RowState(c.entities[y], y, Kids(c, x, y), UnsetOf(c, y), y \in Pending(c) \/ y = 0, Listed(c, y))
        BY <2>1, <2>3 DEF StateOf, RowState
      <3>. QED BY <3>1, <2>1, <2>3 DEF SameCount
    <2>. QED BY <2>2, <2>3
  <1>4. Consistent(c, 0, s)
    BY <1>1, <1>3, SameCounts
  <1>5. \A y : Kids(c, 0, y) = Kids(c, x, y)
    BY <1>1, <1>3, SameSets
  <1>. QED BY <1>4, <1>5 DEF NewOnce

(* The scope whose count is to be looked at may be any. *)
LEMMA AnyScope ==
  ASSUME NEW c, NEW t, NEW s, Consistent(c, t, 0)
  PROVE  Consistent(c, t, s)
  BY DEF Consistent, ProcessOf

(* The execution x within s is continued, and has nothing within it. *)
Ready(c, x, s) ==
  /\ Consistent(c, x, 0) /\ NewOnce(c, x)
  /\ x \in 2..Len(c.entities) /\ x \notin Pending(c) /\ s = c.entities[x].parent
  /\ c.entities[x].count <= 0 /\ Kids(c, x, x) = {} /\ Listed(c, x)

Done(c, d, x, s) ==
  Consistent(d, 0, s) /\ NewOnce(d, 0) /\ Moves(c, d, x, s)

LEMMA ListedIdle ==
  ASSUME NEW c, NEW x, NEW t, StateOf(c, x, t), c.entities[x] \in Row,
         IsActive(c.entities[x]), Listed(c, x)
  PROVE  Idle(c.entities[x])
  <1>1. c.entities[x].work \in Nat
    BY DEF Row
  <1>. QED BY <1>1 DEF StateOf, RowState, Idle

LEMMA ReadyFacts ==
  ASSUME NEW c, NEW x, NEW s, Ready(c, x, s)
  PROVE  /\ CtxType(c) /\ x \in 1..Len(c.entities) /\ x # 1 /\ c.entities[x] \in Row
         /\ s \in 1..Len(c.entities) /\ s < x /\ c.entities[s] \in Row
         /\ IsScope(c.entities[s]) /\ x \in Kids(c, x, s)
         /\ IsMultiInstanceActivity(c.entities[x]) <=> c.entities[s].multi
         /\ IsNew(s) /\ s # 1 => s \notin Pending(c)
         /\ IsActive(c.entities[s]) => c.entities[s].state \in {"STARTED", "QUEUED", "SUSPENDED"}
         /\ IsActive(c.entities[x]) => IsActive(c.entities[s])
         /\ StateOf(c, x, x)
         /\ IsActive(c.entities[s]) => Idle(c.entities[s])
         /\ IsActive(c.entities[x]) => Idle(c.entities[x])
  <1>1. /\ Consistent(c, x, 0) /\ NewOnce(c, x)
        /\ x \in 2..Len(c.entities) /\ s = c.entities[x].parent /\ Listed(c, x)
    BY DEF Ready
  <1>2. /\ CtxType(c) /\ ActiveWithin(c) /\ \A y \in DOMAIN c.entities : ShapeOf(c.entities, y)
        /\ \A y \in DOMAIN c.entities : StateOf(c, y, x)
    BY <1>1 DEF Consistent
  <1>3. PICK n \in Nat : n = Len(c.entities)
    BY <1>2, CtxFacts
  <1>4. /\ x \in 1..n /\ x # 1 /\ DOMAIN c.entities = 1..n /\ \A y \in 1..n : c.entities[y] \in Row
    BY <1>1, <1>2, <1>3, CtxFacts
  <1>5. ShapeOf(c.entities, x)
    BY <1>2, <1>4
  <1>6. s \in 1..n /\ s < x
    <2>1. s \in 0..x - 1 /\ (s = 0 <=> x = 1)
      BY <1>1, <1>5 DEF ShapeOf
    <2>. QED BY <2>1, <1>4
  <1>7. IsScope(c.entities[s]) /\ (IsMultiInstanceActivity(c.entities[x]) <=> c.entities[s].multi)
    BY <1>1, <1>4, <1>5 DEF ShapeOf
  <1>8. x \in Kids(c, x, s)
    BY <1>1, <1>4 DEF Kids
  <1>9. IsNew(s) /\ s # 1 => s \notin Pending(c)
    BY <1>1, <1>4, <1>6, <1>8 DEF NewOnce
  <1>10. StateOf(c, x, x) /\ StateOf(c, s, x)
    BY <1>2, <1>4, <1>6
  <1>11. IsActive(c.entities[s]) => c.entities[s].state \in {"STARTED", "QUEUED", "SUSPENDED"}
    BY <1>8, <1>10 DEF StateOf, RowState
  <1>12. IsActive(c.entities[x]) => IsActive(c.entities[s])
    BY <1>1, <1>2, <1>4 DEF ActiveWithin
  <1>13. \A r \in Row : r.work \in Nat
    BY DEF Row
  <1>14. IsActive(c.entities[s]) => Idle(c.entities[s])
    BY <1>4, <1>6, <1>8, <1>10, <1>13 DEF StateOf, RowState, Idle
  <1>15. IsActive(c.entities[x]) => Idle(c.entities[x])
    BY <1>1, <1>4, <1>10, <1>13, SMTT(20) DEF StateOf, RowState, Idle
  <1>. QED BY <1>2, <1>3, <1>4, <1>6, <1>7, <1>8, <1>9, <1>10, <1>11, <1>12, <1>14, <1>15

LEMMA CountIs ==
  ASSUME NEW c, CtxType(c), NEW s \in 1..Len(c.entities), NEW n \in Int
  PROVE  /\ AddCount(c, s, n) = Put(c, s, Counted(c.entities[s], n))
         /\ Counted(c.entities[s], n) \in Row /\ SameRow(Counted(c.entities[s], n), c.entities[s])
         /\ Counted(c.entities[s], n).state = c.entities[s].state
         /\ Counted(c.entities[s], n).count = c.entities[s].count + n
         /\ Counted(c.entities[s], n).work = c.entities[s].work
         /\ Counted(c.entities[s], n).context = c.entities[s].context
         /\ Counted(c.entities[s], n).multi = c.entities[s].multi
  <1>1. c.entities[s] \in Row
    BY CtxFacts
  <1>2. AddCount(c, s, n) = Put(c, s, Counted(c.entities[s], n))
    BY DEF AddCount, Put, Counted
  <1>. QED BY <1>1, <1>2, SMTT(20) DEF Counted, Row, SameRow

LEMMA PutFacts ==
  ASSUME NEW c, CtxType(c), NEW x \in 1..Len(c.entities), NEW r \in Row, NEW d, d = Put(c, x, r)
  PROVE  /\ CtxType(d) /\ Len(d.entities) = Len(c.entities) /\ d.instance = c.instance
         /\ d.list = c.list /\ d.next = c.next
         /\ d.entities[x] = r
         /\ \A y \in 1..Len(c.entities) : y # x => d.entities[y] = c.entities[y]
  BY Replaced DEF Put

(* The execution x ends, or has ended, and its scope counts it no more. *)
LEMMA Finishes ==
  ASSUME NEW c, NEW x, NEW s, Ready(c, x, s), ~IsUnset(c.entities[x]),
         NEW r \in Row, SameRow(r, c.entities[x]), r.count = c.entities[x].count, ~IsActive(r),
         UnsetOf(c, x) # {} => r.state = "TERMINATED",
         NEW d, d = AddCount(Put(c, x, r), s, -1)
  PROVE  /\ Done(c, d, x, s) /\ d.entities[s].state = c.entities[s].state
         /\ d.entities[s].work = c.entities[s].work
  <1>1. /\ CtxType(c) /\ x \in 1..Len(c.entities) /\ x # 1 /\ c.entities[x] \in Row
        /\ s \in 1..Len(c.entities) /\ s < x /\ c.entities[s] \in Row
    BY ReadyFacts
  <1>2. PICK e : e = Put(c, x, r)
    OBVIOUS
  <1>3. /\ CtxType(e) /\ Len(e.entities) = Len(c.entities) /\ e.instance = c.instance
        /\ e.list = c.list /\ e.next = c.next /\ e.entities[x] = r
        /\ \A y \in 1..Len(c.entities) : y # x => e.entities[y] = c.entities[y]
    BY <1>1, <1>2, PutFacts
  <1>4. PICK q \in Row : q = Counted(c.entities[s], -1) /\ SameRow(q, c.entities[s]) /\ q.state = c.entities[s].state
                       /\ q.work = c.entities[s].work
    BY <1>1, CountIs
  <1>5. d = Put(e, s, q)
    <2>1. e.entities[s] = c.entities[s] /\ s \in 1..Len(e.entities)
      BY <1>1, <1>3
    <2>. QED BY <2>1, <1>2, <1>3, <1>4, CountIs
  <1>6. /\ CtxType(d) /\ Len(d.entities) = Len(c.entities) /\ d.instance = c.instance
        /\ d.list = c.list /\ d.next = c.next /\ d.entities[s] = q
        /\ \A y \in 1..Len(c.entities) : y # s => d.entities[y] = e.entities[y]
    <2>1. s \in 1..Len(e.entities)
      BY <1>1, <1>3
    <2>2. /\ CtxType(d) /\ Len(d.entities) = Len(e.entities) /\ d.instance = e.instance
          /\ d.list = e.list /\ d.next = e.next /\ d.entities[s] = q
          /\ \A y \in 1..Len(e.entities) : y # s => d.entities[y] = e.entities[y]
      BY <2>1, <1>3, <1>5, PutFacts
    <2>. QED BY <2>2, <1>3
  <1>7. /\ d.entities[x] = r
        /\ \A y \in 1..Len(c.entities) : y # x /\ y # s => d.entities[y] = c.entities[y]
    BY <1>1, <1>3, <1>6
  <1>8. Consistent(d, 0, s) /\ NewOnce(d, 0)
    <2>1. /\ Consistent(c, x, 0) /\ NewOnce(c, x)
          /\ x \in 2..Len(c.entities) /\ x \notin Pending(c) /\ s = c.entities[x].parent
          /\ c.entities[x].count <= 0 /\ Kids(c, x, x) = {}
      BY DEF Ready
    <2>2. /\ UnsetOf(c, x) # {} => r.state = "TERMINATED"
          /\ ~IsUnset(c.entities[x])
          /\ SameRow(r, c.entities[x]) /\ r.count = c.entities[x].count /\ ~IsActive(r)
      OBVIOUS
    <2>3. /\ CtxType(d) /\ Len(d.entities) = Len(c.entities) /\ d.instance = c.instance
          /\ d.list = c.list /\ d.next = c.next
          /\ d.entities[x] = r /\ d.entities[s] = Counted(c.entities[s], -1)
      BY <1>4, <1>6, <1>7
    <2>. QED BY ONLY <2>1, <2>2, <2>3, <1>7, Finish
  <1>9. Moves(c, d, x, s)
    <2>1. ASSUME NEW y \in 1..Len(c.entities)
          PROVE  /\ SameRow(d.entities[y], c.entities[y])
                 /\ y \notin {x, s} => d.entities[y] = c.entities[y]
                 /\ y # x => d.entities[y].state = c.entities[y].state
                 /\ ~IsActive(c.entities[y]) => ~IsActive(d.entities[y])
      <3>1. CASE y = x
        <4>1. d.entities[y] = r
          BY <3>1, <1>7
        <4>. QED BY <4>1, <3>1
      <3>2. CASE y = s
        BY <3>2, <1>4, <1>6 DEF IsActive
      <3>3. CASE y # x /\ y # s
        BY <3>3, <1>7 DEF SameRow
      <3>. QED BY <3>1, <3>2, <3>3
    <2>. QED BY <2>1, <1>1, <1>6, MovesRows
  <1>. QED BY <1>4, <1>6, <1>8, <1>9 DEF Done

LEMMA EndedContinues ==
  ASSUME NEW c, NEW x, NEW s, Ready(c, x, s), ~IsActive(c.entities[x])
  PROVE  Done(c, AddCount(c, s, -1), x, s)
  <1>1. /\ CtxType(c) /\ x \in 1..Len(c.entities) /\ c.entities[x] \in Row /\ StateOf(c, x, x)
    BY ReadyFacts
  <1>2. /\ UnsetOf(c, x) # {} => c.entities[x].state = "TERMINATED"
        /\ ~IsUnset(c.entities[x])
    BY <1>1 DEF StateOf, RowState, IsActive, Ended, IsUnset
  <1>3. Put(c, x, c.entities[x]) = c
    <2>1. c \in Contexts /\ c.entities \in Seq(Row)
      BY <1>1, CtxFacts
    <2>2. [c.entities EXCEPT ![x] = c.entities[x]] = c.entities
      BY <2>1
    <2>3. [c EXCEPT !.entities = c.entities] = c
      BY <2>1 DEF Contexts
    <2>. QED BY <2>2, <2>3 DEF Put
  <1>4. SameRow(c.entities[x], c.entities[x])
    BY DEF SameRow
  <1>. QED BY <1>1, <1>2, <1>3, <1>4, Finishes

(* A completed execution goes on within its scope: new are its successors. *)
LEMMA Completes ==
  ASSUME NEW c, NEW x, NEW s, Ready(c, x, s), UnsetOf(c, x) = {}, ~IsUnset(c.entities[x]),
         IsActive(c.entities[x]), IsOpen(c.entities[s]),
         NEW d, d = AddCount(SetState(c, x, "COMPLETED"), s, -1)
  PROVE  /\ Done(c, d, x, s) /\ CtxType(d) /\ s \in 1..Len(d.entities) /\ x \in 1..Len(d.entities)
         /\ IsOpen(d.entities[s]) /\ Idle(d.entities[s]) /\ IsScope(d.entities[s])
         /\ IsNew(s) /\ s # 1 => s \notin Pending(d)
         /\ IsMultiInstanceActivity(c.entities[x]) <=> d.entities[s].multi
         /\ d.entities[x].element = c.entities[x].element
  <1>1. /\ CtxType(c) /\ x \in 1..Len(c.entities) /\ x # 1 /\ c.entities[x] \in Row
        /\ s \in 1..Len(c.entities) /\ s < x /\ c.entities[s] \in Row
        /\ IsScope(c.entities[s]) /\ (IsMultiInstanceActivity(c.entities[x]) <=> c.entities[s].multi)
        /\ (IsNew(s) /\ s # 1 => s \notin Pending(c))
        /\ (IsActive(c.entities[s]) => Idle(c.entities[s]))
    BY ReadyFacts
  <1>2. PICK r \in Row : /\ SameRow(r, c.entities[x]) /\ r.count = c.entities[x].count /\ ~IsActive(r)
                         /\ SetState(c, x, "COMPLETED") = Put(c, x, r)
    <2>1. "COMPLETED" \in InstanceState
      BY DEF InstanceState, Ended
    <2>. QED BY <1>1, <2>1, StateIs DEF Put, IsActive, Ended
  <1>3. /\ Done(c, d, x, s) /\ d.entities[s].state = c.entities[s].state
        /\ d.entities[s].work = c.entities[s].work
    BY <1>2, Finishes
  <1>4. Moves(c, d, x, s) /\ CtxType(d)
    BY <1>3 DEF Done, Consistent
  <1>5. MovedRow(c, d, x, s, s) /\ MovedRow(c, d, x, s, x) /\ Len(c.entities) <= Len(d.entities)
    BY <1>1, <1>4 DEF Moves
  <1>6. SameRow(d.entities[s], c.entities[s]) /\ SameRow(d.entities[x], c.entities[x])
        /\ (s \in Pending(d) => s \in Pending(c))
    BY <1>5 DEF MovedRow
  <1>7. s \in 1..Len(d.entities) /\ x \in 1..Len(d.entities)
    <2>1. Len(d.entities) \in Nat /\ Len(c.entities) \in Nat
      BY <1>1, <1>4, CtxFacts
    <2>. QED BY <2>1, <1>1, <1>5
  <1>8. IsOpen(d.entities[s]) /\ Idle(d.entities[s])
    <2>1. IsActivity(d.entities[s]) <=> IsActivity(c.entities[s])
      BY <1>6, RowLike
    <2>. QED BY <2>1, <1>1, <1>3 DEF IsOpen, Idle, IsActive, Ended
  <1>. QED BY <1>1, <1>3, <1>4, <1>6, <1>7, <1>8, RowLike DEF SameRow

LEMMA GoesOn ==
  ASSUME NEW c, NEW d, NEW e, NEW x, NEW s, Done(c, d, x, s), CtxType(c), CtxType(d),
         s \in 1..Len(d.entities), Consistent(e, 0, s), NewOnce(e, 0), NewIn(d, e, s)
  PROVE  Done(c, e, x, s)
  <1>1. CtxType(e)
    BY DEF Consistent
  <1>2. Moves(d, e, x, s)
    BY MovesBranches
  <1>. QED BY <1>1, <1>2, MovesOn DEF Done

LEMMA CompletedContinues ==
  ASSUME NEW c, NEW x, NEW s, Ready(c, x, s), UnsetOf(c, x) = {}, ~IsUnset(c.entities[x]),
         IsActive(c.entities[x]), IsOpen(c.entities[s])
  PROVE  Done(c, Completed(c, s, x), x, s)
  <1>1. PICK d : d = AddCount(SetState(c, x, "COMPLETED"), s, -1)
    OBVIOUS
  <1>2. /\ Done(c, d, x, s) /\ CtxType(d) /\ s \in 1..Len(d.entities) /\ x \in 1..Len(d.entities)
        /\ IsOpen(d.entities[s]) /\ Idle(d.entities[s]) /\ IsScope(d.entities[s])
        /\ IsNew(s) /\ s # 1 => s \notin Pending(d)
        /\ IsMultiInstanceActivity(c.entities[x]) <=> d.entities[s].multi
    BY <1>1, Completes
  <1>3. CASE IsMultiInstanceActivity(c.entities[x])
    BY <1>1, <1>2, <1>3 DEF Completed
  <1>4. CASE ~IsMultiInstanceActivity(c.entities[x])
    <2>1. PICK e : e = TakeOutgoing(d, s, x)
      OBVIOUS
    <2>2. PICK o \in 0..Len(d.entities) : o = 0
      BY <1>2, CtxFacts
    <2>3. Consistent(d, o, s) /\ NewOnce(d, o)
      BY <1>2, <2>2 DEF Done
    <2>4. Consistent(e, 0, s) /\ NewOnce(e, 0) /\ NewIn(d, e, s)
      BY <1>2, <1>4, <2>1, <2>2, <2>3, TakesOutgoing
    <2>5. Done(c, e, x, s)
      BY <1>2, <2>4, ReadyFacts, GoesOn
    <2>. QED BY <1>1, <1>4, <2>1, <2>5 DEF Completed
  <1>. QED BY <1>3, <1>4

(* A multi-instance completes. *)
LEMMA MultiInstanceCompletes ==
  ASSUME NEW c, NEW x, NEW s, Ready(c, x, s), UnsetOf(c, x) = {}, ~IsUnset(c.entities[x]),
         IsActive(c.entities[x]), IsOpen(c.entities[s]),
         ~IsMultiInstanceActivity(c.entities[x])
  PROVE  Done(c, CompletedMultiInstance(c, s, x), x, s)
  <1>1. PICK d : d = AddCount(SetState(c, x, "COMPLETED"), s, -1)
    OBVIOUS
  <1>2. /\ Done(c, d, x, s) /\ CtxType(d) /\ s \in 1..Len(d.entities) /\ x \in 1..Len(d.entities)
        /\ IsOpen(d.entities[s]) /\ Idle(d.entities[s]) /\ IsScope(d.entities[s])
        /\ IsNew(s) /\ s # 1 => s \notin Pending(d)
        /\ ~d.entities[s].multi
    BY <1>1, Completes
  <1>3. PICK el \in Elements : el = c.entities[x].element
    BY ReadyFacts DEF Row
  <1>4. PICK m \in Nat : m = Len(Graph[el].outgoing)
    BY Flows
  <1>5. /\ DOMAIN Graph[el].outgoing = 1..m
        /\ \A k \in 1..m : /\ Graph[el].outgoing[k] \in Elements
                           /\ Graph[Graph[el].outgoing[k]].type \notin {"process"} \cup BoundaryEvents
    BY <1>4, Flows
  <1>6. PICK new : new = [k \in 1..m |-> NewRow(Graph[el].outgoing[k], s, 0, Null)]
    OBVIOUS
  <1>7. CompletedMultiInstance(c, s, x) = Branches(d, s, new)
    BY <1>1, <1>3, <1>5, <1>6 DEF CompletedMultiInstance, Outgoing
  <1>8. PICK o \in 0..Len(d.entities) : o = 0
    BY <1>2, CtxFacts
  <1>9. new \in [1..m -> Row]
    <2>1. \A k \in 1..m : NewRow(Graph[el].outgoing[k], s, 0, Null) \in Row
      <3>1. s \in Nat /\ 0 \in Nat /\ Null \in Elements \cup {Null}
        BY <1>2
      <3>. QED BY <3>1, <1>5, NewRowType
    <2>. QED BY <2>1, <1>6
  <1>10. \A k \in 1..m : \E f \in Elements, q \in 0..Len(d.entities), g \in Elements \cup {Null} :
           /\ new[k] = NewRow(f, s, q, g)
           /\ Graph[f].type \notin {"process"} \cup BoundaryEvents
           /\ q # 0 => Graph[f].type = "parallel"
    <2>1. ASSUME NEW k \in 1..m
          PROVE  \E f \in Elements, q \in 0..Len(d.entities), g \in Elements \cup {Null} :
                   /\ new[k] = NewRow(f, s, q, g)
                   /\ Graph[f].type \notin {"process"} \cup BoundaryEvents
                   /\ q # 0 => Graph[f].type = "parallel"
      <3>1. new[k] = NewRow(Graph[el].outgoing[k], s, o, Null) /\ Null \in Elements \cup {Null}
        BY <1>6, <1>8
      <3>. QED BY <3>1, <1>5, <1>8
    <2>. QED BY <2>1
  <1>11. Consistent(d, o, s) /\ NewOnce(d, o)
    BY <1>2, <1>8 DEF Done
  <1>12. PICK e : e = Branches(d, s, new)
    OBVIOUS
  <1>13. Consistent(e, o, s) /\ NewOnce(e, o) /\ NewIn(d, e, s)
    BY <1>2, <1>9, <1>10, <1>11, <1>12, Continued
  <1>14. Done(c, e, x, s)
    BY <1>2, <1>8, <1>13, ReadyFacts, GoesOn
  <1>. QED BY <1>7, <1>12, <1>14

LEMMA StateMoves ==
  ASSUME NEW c, CtxType(c), NEW x \in 1..Len(c.entities), NEW r \in Row,
         SameRow(r, c.entities[x]), IsActive(c.entities[x]), NEW s, NEW d, d = Put(c, x, r)
  PROVE  Moves(c, d, x, s) /\ CtxType(d) /\ Len(d.entities) = Len(c.entities)
  <1>1. /\ CtxType(d) /\ Len(d.entities) = Len(c.entities) /\ d.list = c.list /\ d.next = c.next
        /\ d.entities[x] = r
        /\ \A y \in 1..Len(c.entities) : y # x => d.entities[y] = c.entities[y]
    BY PutFacts
  <1>2. ASSUME NEW y \in 1..Len(c.entities)
        PROVE  /\ SameRow(d.entities[y], c.entities[y])
               /\ y \notin {x, s} => d.entities[y] = c.entities[y]
               /\ y # x => d.entities[y].state = c.entities[y].state
               /\ ~IsActive(c.entities[y]) => ~IsActive(d.entities[y])
    <2>1. CASE y = x
      BY <2>1, <1>1
    <2>2. CASE y # x
      BY <2>2, <1>1 DEF SameRow
    <2>. QED BY <2>1, <2>2
  <1>. QED BY <1>1, <1>2, MovesRows

LEMMA NothingMoves ==
  ASSUME NEW c, NEW x, NEW s, Ready(c, x, s), Consistent(c, 0, 0), NewOnce(c, 0)
  PROVE  Done(c, c, x, s)
  <1>1. CtxType(c)
    BY ReadyFacts
  <1>2. Moves(c, c, x, s)
    BY <1>1, CtxFacts DEF Moves, MovedRow, SameRow
  <1>. QED BY <1>2, AnyScope DEF Done

LEMMA StaysAsItIs ==
  ASSUME NEW c, NEW x, NEW s, Ready(c, x, s), IsActive(c.entities[x]),
         c.entities[x].state # "NEW",
         ~(IsBoundaryEvent(c.entities[x]) /\ c.entities[x].state = "STARTED")
  PROVE  Done(c, c, x, s)
  <1>1. Consistent(c, x, 0) /\ NewOnce(c, x) /\ x \in 1..Len(c.entities)
    BY ReadyFacts DEF Ready
  <1>2. Consistent(c, 0, 0) /\ NewOnce(c, 0)
    BY <1>1, Rests
  <1>. QED BY <1>2, NothingMoves

LEMMA StateContinues ==
  ASSUME NEW c, NEW x, NEW s, Ready(c, x, s), IsActive(c.entities[x]),
         NEW v \in {"CREATED", "STARTED", "QUEUED", "SUSPENDED"},
         v = "QUEUED" => Type(c.entities[x]) = "startEvent",
         v = "CREATED" => Type(c.entities[x]) # "parallel",
         v # "CREATED" => UnsetOf(c, x) = {},
         v \in {"STARTED", "QUEUED"} => ~IsBoundaryEvent(c.entities[x]),
         v = "SUSPENDED" /\ IsBoundaryEvent(c.entities[x]) => c.entities[x].work = 0,
         IsMultiInstanceActivity(c.entities[x]) /\ v = "CREATED" =>
           c.entities[x].work = 0 /\ c.entities[x].prev # 0
  PROVE  Done(c, SetState(c, x, v), x, s)
  <1>1. /\ CtxType(c) /\ x \in 1..Len(c.entities) /\ v \in InstanceState /\ Idle(c.entities[x])
    BY ReadyFacts DEF InstanceState
  <1>2. /\ Consistent(c, x, 0) /\ NewOnce(c, x) /\ x \in 2..Len(c.entities) /\ Kids(c, x, x) = {}
    BY DEF Ready
  <1>3. PICK o : o = 0
    OBVIOUS
  <1>4. o = x \/ (x = x /\ o = 0)
    BY <1>3
  <1>5. Consistent(SetState(c, x, v), o, o) /\ NewOnce(SetState(c, x, v), o)
    BY <1>1, <1>2, <1>3, <1>4, StateChange
  <1>6. PICK r \in Row : SameRow(r, c.entities[x]) /\ SetState(c, x, v) = Put(c, x, r)
    BY <1>1, StateIs DEF Put
  <1>7. Moves(c, SetState(c, x, v), x, s)
    BY <1>1, <1>6, StateMoves
  <1>. QED BY <1>3, <1>5, <1>7, AnyScope DEF Done

LEMMA SubProcessContinues ==
  ASSUME NEW c, NEW x, NEW s, Ready(c, x, s), IsActive(c.entities[x]),
         Type(c.entities[x]) = "subProcess", ~c.entities[x].multi, UnsetOf(c, x) = {},
         IsOpen(c.entities[s])
  PROVE  Done(c, EnterSubProcess(c, s, x), x, s)
  <1>1. /\ CtxType(c) /\ x \in 1..Len(c.entities) /\ Idle(c.entities[x])
        /\ c.entities[s].state \in InstanceState
    BY ReadyFacts DEF InstanceState, IsOpen
  <1>2. /\ Consistent(c, x, 0) /\ NewOnce(c, x) /\ x \in 2..Len(c.entities)
        /\ IsNew(x) => x \notin Pending(c)
    BY DEF Ready
  <1>3. PICK o : o = 0
    OBVIOUS
  <1>4. (o = x \/ (x = x /\ o = 0)) /\ x \in 0..Len(c.entities)
    BY <1>1, <1>3, CtxFacts
  <1>5. PICK d, e : d = SetState(c, x, c.entities[s].state) /\ e = EnterSubProcess(c, s, x)
    OBVIOUS
  <1>6. Consistent(e, o, o) /\ NewOnce(e, o) /\ NewIn(d, e, x)
    BY <1>1, <1>2, <1>3, <1>4, <1>5, EntersSubProcess
  <1>7. PICK r \in Row : SameRow(r, c.entities[x]) /\ d = Put(c, x, r)
    BY <1>1, <1>5, StateIs DEF Put
  <1>8. Moves(c, d, x, s) /\ CtxType(d) /\ x \in 1..Len(d.entities)
    BY <1>1, <1>7, StateMoves
  <1>9. CtxType(e)
    BY <1>6 DEF Consistent
  <1>10. Moves(d, e, x, s)
    BY <1>6, <1>8, MovesBranches
  <1>11. Moves(c, e, x, s)
    BY <1>1, <1>8, <1>9, <1>10, MovesOn
  <1>. QED BY <1>3, <1>5, <1>6, <1>11, AnyScope DEF Done

(* Boundary events *)

LEMMA BoundaryOf ==
  ASSUME NEW e \in Elements
  PROVE  /\ Graph[e].boundary \in Seq(Elements)
         /\ Len(Graph[e].boundary) \in Nat /\ DOMAIN Graph[e].boundary = 1..Len(Graph[e].boundary)
         /\ \A k \in 1..Len(Graph[e].boundary) :
              /\ Graph[e].boundary[k] \in Elements
              /\ Graph[Graph[e].boundary[k]].type \in BoundaryEvents
              /\ Graph[Graph[e].boundary[k]].multiple = FALSE
  <1>1. Graph[e] \in Node /\ Graph[e].boundary \in Seq(Elements)
    BY GraphAssumption DEF Node
  <1>2. Len(Graph[e].boundary) \in Nat /\ DOMAIN Graph[e].boundary = 1..Len(Graph[e].boundary)
    BY <1>1
  <1>3. ASSUME NEW k \in 1..Len(Graph[e].boundary)
        PROVE  /\ Graph[e].boundary[k] \in Elements
               /\ Graph[Graph[e].boundary[k]].type \in BoundaryEvents
               /\ Graph[Graph[e].boundary[k]].multiple = FALSE
    <2>1. Graph[e].boundary[k] \in Elements /\ Graph[e].boundary[k] \in Range(Graph[e].boundary)
      BY <1>1, <1>2, ElementOfSeq DEF Range
    <2>2. Graph[Graph[e].boundary[k]].type \in BoundaryEvents
      BY <2>1, ValidAssumption
    <2>3. Graph[Graph[e].boundary[k]].type \notin Activities
      BY <2>2 DEF BoundaryEvents, Activities
    <2>4. Graph[Graph[e].boundary[k]].multiple \in BOOLEAN
      BY <2>1, GraphAssumption DEF Node
    <2>5. ~Graph[Graph[e].boundary[k]].multiple
      BY <2>1, <2>3, ValidAssumption
    <2>. QED BY <2>1, <2>2, <2>4, <2>5
  <1>. QED BY <1>1, <1>2, <1>3

LEMMA UndefinedFacts ==
  ASSUME NEW r \in Row
  PROVE  /\ Undefined(r) \in Nat
         /\ IsFiniteSet({k \in DOMAIN Graph[r.element].boundary : ~Graph[Graph[r.element].boundary[k]].defined})
  <1>1. PICK m \in Nat : m = Len(Graph[r.element].boundary) /\ DOMAIN Graph[r.element].boundary = 1..m
    BY BoundaryOf DEF Row
  <1>2. IsFiniteSet(1..m)
    BY FS_Interval
  <1>3. IsFiniteSet({k \in 1..m : ~Graph[Graph[r.element].boundary[k]].defined})
    BY <1>2, FS_Subset
  <1>. QED BY <1>1, <1>3, FS_CardinalityType DEF Undefined

(* d is AttachBoundaryEvents(c, s, x). *)
Attaches(c, d, x, s) ==
  LET boundary == Graph[c.entities[x].element].boundary
  IN  /\ CtxType(d) /\ d.instance = c.instance
      /\ Extended(c, d, Numbers(Len(c.entities), Len(boundary)))
      /\ Len(d.entities) = Len(c.entities) + Len(boundary)
      /\ \A y \in 1..Len(c.entities) : y \notin {x, s} => d.entities[y] = c.entities[y]
      /\ d.entities[s] = Counted(c.entities[s], Len(boundary))
      /\ d.entities[x] = Counted(c.entities[x], -Undefined(c.entities[x]))
      /\ \A k \in 1..Len(boundary) : d.entities[Len(c.entities) + k] =
           Inside(NewRow(boundary[k], s, x, c.entities[x].element), c.entities[s])

LEMMA AttachFacts ==
  ASSUME NEW c, CtxType(c), Distinct(c), NEW x \in 1..Len(c.entities),
         NEW s \in 1..Len(c.entities), s # x
  PROVE  Attaches(c, AttachBoundaryEvents(c, s, x), x, s)
  <1>1. PICK n \in Nat, el \in Elements, m \in Nat :
          /\ n = Len(c.entities) /\ el = c.entities[x].element /\ m = Len(Graph[el].boundary)
    <2>1. c.entities[x] \in Row /\ Len(c.entities) \in Nat
      BY CtxFacts
    <2>. QED BY <2>1, BoundaryOf DEF Row
  <1>2. PICK new : new = [k \in 1..m |-> NewRow(Graph[el].boundary[k], s, x, el)]
    OBVIOUS
  <1>3. DOMAIN Graph[el].boundary = 1..m /\ \A k \in 1..m : Graph[el].boundary[k] \in Elements
    BY <1>1, BoundaryOf
  <1>4. new \in Seq(Row) /\ Len(new) = m
    <2>1. s \in Nat /\ x \in Nat /\ el \in Elements \cup {Null}
      BY <1>1
    <2>2. \A k \in 1..m : NewRow(Graph[el].boundary[k], s, x, el) \in Row
      BY <1>3, <2>1, NewRowType
    <2>3. new \in [1..m -> Row]
      BY <1>2, <2>2
    <2>. QED BY <2>3
  <1>5. PICK b : b = Branches(c, s, new)
    OBVIOUS
  <1>6. BranchesAre(c, b, s, new)
    BY <1>4, <1>5, BranchesFacts
  <1>7. /\ CtxType(b) /\ b.instance = c.instance /\ Extended(c, b, Numbers(n, m))
        /\ Len(b.entities) = n + m
        /\ \A y \in 1..n : b.entities[y] = IF y = s THEN Counted(c.entities[s], m) ELSE c.entities[y]
        /\ \A k \in 1..m : b.entities[n + k] = Inside(new[k], c.entities[s])
    BY <1>1, <1>4, <1>6 DEF BranchesAre
  <1>8. x \in 1..Len(b.entities) /\ b.entities[x] = c.entities[x] /\ CtxType(b)
    <2>1. x \in 1..n
      BY <1>1
    <2>2. \A z \in 1..n : z \in 1..n + m
      OBVIOUS
    <2>. QED BY <2>1, <2>2, <1>7
  <1>9. PICK u, d : u \in Nat /\ u = Undefined(c.entities[x]) /\ d = AttachBoundaryEvents(c, s, x)
    BY UndefinedFacts, CtxFacts
  <1>10. d = AddCount(b, x, -u)
    BY <1>1, <1>2, <1>3, <1>5, <1>9 DEF AttachBoundaryEvents
  <1>11. -u \in Int
    BY <1>9
  <1>12. PICK r \in Row : r = Counted(c.entities[x], -u) /\ d = Put(b, x, r)
    BY <1>7, <1>8, <1>10, <1>11, CountIs
  <1>13. /\ CtxType(d) /\ Len(d.entities) = Len(b.entities) /\ d.instance = b.instance
         /\ d.list = b.list /\ d.next = b.next /\ d.entities[x] = r
         /\ \A y \in 1..Len(b.entities) : y # x => d.entities[y] = b.entities[y]
    BY <1>8, <1>12, PutFacts
  <1>14. Extended(c, d, Numbers(n, m))
    <2>1. /\ Pending(d) = Pending(b) /\ (Distinct(d) <=> Distinct(b))
          /\ \A y : Listed(d, y) <=> Listed(b, y)
          /\ \A y, z : Before(d, y, z) <=> Before(b, y, z)
      BY <1>13, SameList
    <2>. QED BY <2>1, <1>7, <1>13 DEF Extended
  <1>15. \A y \in 1..n : y \in 1..Len(b.entities)
    BY <1>7
  <1>16. \A k \in 1..m : n + k \in 1..Len(b.entities) /\ n + k # x
    <2>1. x \in 1..n
      BY <1>1
    <2>2. \A k \in 1..m : n + k \in 1..n + m /\ n + k # x
      BY <2>1
    <2>. QED BY <2>2, <1>7
  <1>17. \A k \in 1..m : d.entities[n + k] = Inside(NewRow(Graph[el].boundary[k], s, x, el), c.entities[s])
    BY <1>2, <1>7, <1>13, <1>16
  <1>18. /\ d.entities[s] = Counted(c.entities[s], m)
         /\ \A y \in 1..n : y \notin {x, s} => d.entities[y] = c.entities[y]
    BY <1>1, <1>7, <1>13, <1>15
  <1>. QED BY <1>1, <1>7, <1>9, <1>12, <1>13, <1>14, <1>17, <1>18 DEF Attaches

IsAttachedRow(r, b, s, x) ==
  /\ r.element = b /\ r.parent = s /\ r.prev = x /\ r.multi = FALSE
  /\ r.state = "NEW" /\ r.count = 0 /\ r.work = 0
  /\ IsBoundaryEvent(r) /\ ~IsMultiInstanceActivity(r) /\ Type(r) # "process"
  /\ IsUnset(r) <=> ~Graph[b].defined

LEMMA AttachedRow ==
  ASSUME NEW b \in Elements, Graph[b].type \in BoundaryEvents, Graph[b].multiple = FALSE,
         NEW s, NEW x, NEW e, NEW scope
  PROVE  IsAttachedRow(Inside(NewRow(b, s, x, e), scope), b, s, x)
  <1>. DEFINE r == Inside(NewRow(b, s, x, e), scope)
  <1>1. /\ r.element = b /\ r.parent = s /\ r.prev = x /\ r.multi = FALSE
        /\ r.state = "NEW" /\ r.count = 0 /\ r.work = 0 /\ r.context = FALSE
    BY DEF Inside, NewRow
  <1>. HIDE DEF r
  <1>2. IsBoundaryEvent(r) /\ ~IsMultiInstanceActivity(r) /\ Type(r) # "process" /\ IsActive(r)
    BY <1>1 DEF IsBoundaryEvent, IsMultiInstanceActivity, Type, BoundaryEvents, IsActive, Ended
  <1>3. IsAttachedRow(r, b, s, x)
    BY <1>1, <1>2 DEF IsUnset, IsAttachedRow
  <1>. QED BY <1>3 DEF r

(* As many of the attached boundary events are to be set as are not defined. *)
LEMMA AttachedUnset ==
  ASSUME NEW d, NEW n \in Nat, NEW m \in Nat, NEW B, NEW u, IsFiniteSet({k \in 1..m : B[k]}),
         u = Cardinality({k \in 1..m : B[k]}),
         \A k \in 1..m : IsUnset(d.entities[n + k]) <=> B[k]
  PROVE  u = Cardinality(NewUnset(d, n, m))
  <1>1. PICK S : S = {k \in 1..m : B[k]}
    OBVIOUS
  <1>2. PICK T : T = NewUnset(d, n, m)
    OBVIOUS
  <1>3. PICK f : f = [k \in S |-> n + k]
    OBVIOUS
  <1>4. \A k \in S : k \in 1..m /\ B[k] /\ f[k] = n + k
    BY <1>1, <1>3
  <1>5. \A k \in S : f[k] \in T
    <2>1. ASSUME NEW k \in S PROVE f[k] \in T
      <3>1. k \in 1..m /\ n + k \in Numbers(n, m) /\ IsUnset(d.entities[n + k])
        BY <1>4 DEF Numbers
      <3>. QED BY <3>1, <1>2, <1>4 DEF NewUnset
    <2>. QED BY <2>1
  <1>6. \A k, l \in S : f[k] = f[l] => k = l
    <2>1. ASSUME NEW k \in S, NEW l \in S, f[k] = f[l] PROVE k = l
      <3>1. k \in Int /\ l \in Int /\ n + k = n + l
        BY <2>1, <1>4
      <3>. QED BY <3>1
    <2>. QED BY <2>1
  <1>7. \A y \in T : \E k \in S : f[k] = y
    <2>1. ASSUME NEW y \in T PROVE \E k \in S : f[k] = y
      <3>1. y \in n + 1..n + m /\ IsUnset(d.entities[y])
        BY <1>2 DEF NewUnset, Numbers
      <3>2. y - n \in 1..m /\ n + (y - n) = y
        BY <3>1
      <3>3. PICK k \in 1..m : n + k = y
        BY <3>2
      <3>4. k \in S
        BY <3>1, <3>3, <1>1
      <3>. QED BY <3>3, <3>4, <1>4
    <2>. QED BY <2>1
  <1>8. f \in Bijection(S, T)
    <2>1. f \in [S -> T]
      BY <1>3, <1>5
    <2>2. f \in Injection(S, T)
      BY <2>1, <1>6 DEF Injection, IsInjective
    <2>3. f \in Surjection(S, T)
      BY <2>1, <1>7 DEF Surjection
    <2>. QED BY <2>2, <2>3 DEF Bijection
  <1>9. ExistsBijection(S, T)
    BY <1>8 DEF ExistsBijection
  <1>10. Cardinality(S) = Cardinality(T)
    BY <1>1, <1>9, FS_Bijection
  <1>. QED BY <1>1, <1>2, <1>10

(* An activity that has been created has boundary events attached. *)
LEMMA Attached ==
  ASSUME NEW c, NEW x, NEW s, Ready(c, x, s), IsActivity(c.entities[x]),
         ~IsMultiInstanceActivity(c.entities[x]), c.entities[x].state = "CREATED",
         c.entities[x].work = 0, UnsetOf(c, x) = {}, IsOpen(c.entities[s]),
         NEW d, Attaches(c, d, x, s)
  PROVE  /\ Ready(d, x, s) /\ Moves(c, d, x, s)
         /\ d.entities[x].state = "CREATED" /\ d.entities[s].state = c.entities[s].state
  <1>1. /\ CtxType(c) /\ x \in 1..Len(c.entities) /\ x # 1 /\ c.entities[x] \in Row
        /\ s \in 1..Len(c.entities) /\ s < x /\ c.entities[s] \in Row
        /\ IsScope(c.entities[s]) /\ ~c.entities[s].multi
        /\ (IsNew(s) /\ s # 1 => s \notin Pending(c))
        /\ (IsActive(c.entities[s]) => Idle(c.entities[s]))
    BY ReadyFacts
  <1>2. /\ Consistent(c, x, 0) /\ NewOnce(c, x) /\ x \in 2..Len(c.entities) /\ x \notin Pending(c)
        /\ s = c.entities[x].parent /\ Kids(c, x, x) = {} /\ Listed(c, x)
    BY DEF Ready
  <1>3. PICK n \in Nat, el \in Elements, m \in Nat, u \in Nat :
          /\ n = Len(c.entities) /\ el = c.entities[x].element /\ m = Len(Graph[el].boundary)
          /\ u = Undefined(c.entities[x])
    <2>1. Len(c.entities) \in Nat /\ Undefined(c.entities[x]) \in Nat
      BY <1>1, CtxFacts, UndefinedFacts
    <2>. QED BY <1>1, <2>1, BoundaryOf DEF Row
  <1>4. x \in 1..n /\ s \in 1..n /\ \A y \in 1..n : c.entities[y] \in Row
    BY <1>1, <1>3, CtxFacts
  <1>5. /\ CtxType(d) /\ d.instance = c.instance /\ Extended(c, d, Numbers(n, m))
        /\ Len(d.entities) = n + m
        /\ \A y \in 1..n : y \notin {x, s} => d.entities[y] = c.entities[y]
        /\ d.entities[s] = Counted(c.entities[s], m)
        /\ d.entities[x] = Counted(c.entities[x], -u)
        /\ \A k \in 1..m : d.entities[n + k] = Inside(NewRow(Graph[el].boundary[k], s, x, el), c.entities[s])
    BY <1>3 DEF Attaches
  <1>6. m \in Int /\ -u \in Int /\ u \in Int
    OBVIOUS
  <1>7. ASSUME NEW y \in 1..n
        PROVE  /\ SameRow(d.entities[y], c.entities[y]) /\ d.entities[y].state = c.entities[y].state
               /\ d.entities[y] = Recounted(c.entities[y], y, s, m, x, u)
    <2>1. c.entities[y] \in Row
      BY <1>4
    <2>2. /\ [c.entities[y] EXCEPT !.count = @ + 0 - 0] = c.entities[y]
          /\ [c.entities[y] EXCEPT !.count = @ + m - 0] = [c.entities[y] EXCEPT !.count = @ + m]
          /\ [c.entities[y] EXCEPT !.count = @ + 0 - u] = [c.entities[y] EXCEPT !.count = @ + (-u)]
      BY <2>1, <1>6, Recount, SMTT(20)
    <2>3. CASE y = s
      <3>1. y # x
        BY <2>3, <1>1
      <3>2. d.entities[y] = Recounted(c.entities[y], y, s, m, x, u)
        BY <2>2, <2>3, <3>1, <1>5 DEF Recounted, Counted
      <3>. QED BY <2>1, <2>3, <3>2, <1>5, <1>6, <1>1, CountIs
    <2>4. CASE y = x
      <3>1. y # s
        BY <2>4, <1>1
      <3>2. d.entities[y] = Recounted(c.entities[y], y, s, m, x, u)
        BY <2>2, <2>4, <3>1, <1>5 DEF Recounted, Counted
      <3>. QED BY <2>1, <2>4, <3>2, <1>5, <1>6, <1>1, CountIs
    <2>5. CASE y # x /\ y # s
      <3>1. d.entities[y] = c.entities[y]
        BY <2>5, <1>5
      <3>2. d.entities[y] = Recounted(c.entities[y], y, s, m, x, u)
        BY <2>2, <2>5, <3>1 DEF Recounted
      <3>. QED BY <3>1, <3>2 DEF SameRow
    <2>. QED BY <2>3, <2>4, <2>5
  <1>8. ASSUME NEW k \in 1..m
        PROVE  /\ d.entities[n + k].element = Graph[el].boundary[k]
               /\ d.entities[n + k].parent = s /\ d.entities[n + k].prev = x
               /\ d.entities[n + k].multi = FALSE
               /\ d.entities[n + k].state = "NEW" /\ d.entities[n + k].count = 0
               /\ d.entities[n + k].work = 0
               /\ IsBoundaryEvent(d.entities[n + k]) /\ ~IsMultiInstanceActivity(d.entities[n + k])
               /\ Type(d.entities[n + k]) # "process"
               /\ IsUnset(d.entities[n + k]) <=> ~Graph[Graph[el].boundary[k]].defined
    <2>1. /\ Graph[el].boundary[k] \in Elements
          /\ Graph[Graph[el].boundary[k]].type \in BoundaryEvents
          /\ Graph[Graph[el].boundary[k]].multiple = FALSE
      BY <1>3, BoundaryOf
    <2>2. d.entities[n + k] = Inside(NewRow(Graph[el].boundary[k], s, x, el), c.entities[s])
      BY <1>5
    <2>3. IsAttachedRow(Inside(NewRow(Graph[el].boundary[k], s, x, el), c.entities[s]),
                        Graph[el].boundary[k], s, x)
      BY <2>1, AttachedRow
    <2>. QED BY <2>2, <2>3 DEF IsAttachedRow
  <1>9. u = Cardinality(NewUnset(d, n, m))
    <2>1. PICK B : B = [k \in 1..m |-> ~Graph[Graph[el].boundary[k]].defined]
      OBVIOUS
    <2>2. DOMAIN Graph[el].boundary = 1..m
      BY <1>3, BoundaryOf
    <2>3. {k \in 1..m : B[k]} = {k \in DOMAIN Graph[el].boundary : ~Graph[Graph[el].boundary[k]].defined}
      BY <2>1, <2>2
    <2>4. IsFiniteSet({k \in 1..m : B[k]}) /\ u = Cardinality({k \in 1..m : B[k]})
      BY <2>3, <1>1, <1>3, UndefinedFacts DEF Undefined
    <2>5. \A k \in 1..m : IsUnset(d.entities[n + k]) <=> B[k]
      BY <2>1, <1>8
    <2>. QED BY <2>4, <2>5, AttachedUnset
  <1>10. ASSUME NEW y \in Numbers(n, m)
         PROVE  /\ NewWithin(d, y, s, x)
                /\ n < y
    <2>1. y \in n + 1..n + m
      BY DEF Numbers
    <2>2. y - n \in 1..m /\ n + (y - n) = y /\ n < y /\ y # 1 /\ y \in Nat
      BY <2>1, <1>4
    <2>3. PICK k \in 1..m : n + k = y
      BY <2>2
    <2>4. /\ d.entities[y].parent = s /\ d.entities[y].prev = x /\ d.entities[y].multi = FALSE
          /\ d.entities[y].state = "NEW" /\ d.entities[y].count = 0 /\ d.entities[y].work = 0
          /\ IsBoundaryEvent(d.entities[y]) /\ ~IsMultiInstanceActivity(d.entities[y])
          /\ Type(d.entities[y]) # "process"
      BY <2>3, <1>8
    <2>5. s \in 0..y - 1 /\ x \in 0..y - 1 /\ s # 0 /\ x # 0
      BY <1>4, <2>2
    <2>6. SameRow(d.entities[s], c.entities[s]) /\ SameRow(d.entities[x], c.entities[x])
      BY <1>4, <1>7
    <2>7. /\ IsScope(d.entities[s]) /\ d.entities[s].multi = c.entities[s].multi
          /\ IsActivity(d.entities[x]) /\ ~IsMultiInstanceActivity(d.entities[x])
          /\ d.entities[x].parent = s
      BY <1>1, <1>2, <2>6, RowLike DEF SameRow
    <2>8. ShapeOf(d.entities, y)
      BY <1>1, <2>2, <2>4, <2>5, <2>7 DEF ShapeOf
    <2>. QED BY <2>2, <2>4, <2>8 DEF NewWithin
  <1>11. c.entities[1].state # "QUEUED"
    BY <1>1, <1>2, NotQueued
  <1>12. Consistent(d, x, 0) /\ NewOnce(d, x)
    <2>1. /\ x \in 0..Len(c.entities) /\ s \in 1..Len(c.entities)
          /\ c.entities[s].state \in {"STARTED", "QUEUED", "SUSPENDED"} /\ Idle(c.entities[s])
      BY <1>1, <1>3, <1>4 DEF IsOpen, IsActive, Ended
    <2>2. /\ Extended(c, d, Numbers(Len(c.entities), m)) /\ Len(d.entities) = Len(c.entities) + m
          /\ \A y \in 1..Len(c.entities) : d.entities[y] = Recounted(c.entities[y], y, s, m, x, u)
          /\ \A y \in Numbers(Len(c.entities), m) : NewWithin(d, y, s, x)
          /\ u = Cardinality(NewUnset(d, Len(c.entities), m))
      BY <1>3, <1>5, <1>7, <1>9, <1>10
    <2>3. u # 0 => x # 0 /\ c.entities[x].state = "CREATED" /\ c.entities[x].work = 0
      BY <1>4
    <2>4. PICK o : o = 0
      OBVIOUS
    <2>5. Consistent(c, x, o) /\ NewOnce(c, x) /\ CtxType(d) /\ d.instance = c.instance
      BY <1>2, <1>5, <2>4
    <2>6. Consistent(d, x, o) /\ NewOnce(d, x)
      BY <1>1, <1>11, <2>1, <2>2, <2>3, <2>5, Grown
    <2>. QED BY <2>4, <2>6
  <1>13. d.entities[x].state = "CREATED" /\ d.entities[s].state = c.entities[s].state /\ d.entities[x].parent = s
    BY <1>2, <1>4, <1>7 DEF SameRow
  <1>14. x \in 2..Len(d.entities)
    <2>1. x \in 1..n + m
      BY <1>4
    <2>. QED BY <2>1, <1>1, <1>5
  <1>15. \A y \in 1..n : /\ y \notin Numbers(n, m) /\ y # 0
                         /\ (y \in Pending(d) => y \in Pending(c)) /\ (Listed(d, y) <=> Listed(c, y))
    <2>1. \A y \in 1..n : y \notin Numbers(n, m) /\ y # 0
      BY NumbersFacts
    <2>. QED BY <2>1, <1>5 DEF Extended
  <1>16. x \notin Pending(d) /\ Listed(d, x)
    BY <1>2, <1>4, <1>5, <1>15 DEF Extended
  <1>17. DOMAIN d.entities = 1..n + m /\ DOMAIN c.entities = 1..n
    <2>1. DOMAIN d.entities = 1..Len(d.entities) /\ DOMAIN c.entities = 1..Len(c.entities)
      BY <1>1, <1>5, CtxFacts
    <2>. QED BY <2>1, <1>3, <1>5
  <1>18. Kids(d, x, x) = {}
    <2>1. SUFFICES ASSUME NEW y \in Kids(d, x, x) PROVE FALSE
      OBVIOUS
    <2>2. /\ y \in 1..n + m /\ d.entities[y].parent = x
          /\ IsActive(d.entities[y]) \/ y \in Pending(d) \/ y = x
      BY <1>17 DEF Kids
    <2>3. CASE y \in 1..n
      <3>1. /\ c.entities[y].parent = x
            /\ IsActive(c.entities[y]) \/ y \in Pending(c) \/ y = x
        BY <2>2, <2>3, <1>7, <1>15 DEF SameRow, IsActive
      <3>2. y \in Kids(c, x, x)
        BY <2>3, <3>1, <1>17 DEF Kids
      <3>. QED BY <3>2, <1>2
    <2>4. CASE y \notin 1..n
      <3>1. y \in Numbers(n, m)
        BY <2>2, <2>4, NumbersFacts
      <3>2. d.entities[y].parent = s
        BY <3>1, <1>10 DEF NewWithin
      <3>. QED BY <2>2, <3>2, <1>1, <1>4
    <2>. QED BY <2>3, <2>4
  <1>19. d.entities[x].count <= 0
    <2>1. CountedRow(d, x, x) /\ IsActive(d.entities[x])
      <3>1. x \in DOMAIN d.entities
        BY <1>5, <1>14, <1>17
      <3>. QED BY <3>1, <1>12, <1>13 DEF Consistent, IsActive, Ended
    <2>2. d.entities[x].count = Cardinality(Kids(d, x, x)) - Cardinality(UnsetOf(d, x))
      BY <2>1 DEF CountedRow
    <2>3. Cardinality(Kids(d, x, x)) = 0 /\ Cardinality(UnsetOf(d, x)) \in Nat
      BY <1>5, <1>18, SetsOf, ZenonT(40)
    <2>. QED BY <2>2, <2>3
  <1>20. Moves(c, d, x, s)
    <2>1. ASSUME NEW y \in 1..n PROVE MovedRow(c, d, x, s, y)
      BY <1>5, <1>7, <1>15 DEF MovedRow, IsActive
    <2>2. ASSUME NEW y \in 1..n + m, y > n PROVE d.entities[y].parent \in {x, s}
      <3>1. y \in Numbers(n, m)
        BY <2>2 DEF Numbers
      <3>. QED BY <3>1, <1>10 DEF NewWithin
    <2>3. Len(c.entities) = n /\ Len(d.entities) = n + m
      BY <1>3, <1>5
    <2>4. n <= n + m
      OBVIOUS
    <2>. QED BY <2>1, <2>2, <2>3, <2>4 DEF Moves
  <1>. QED BY <1>12, <1>13, <1>14, <1>16, <1>18, <1>19, <1>20 DEF Ready

LEMMA DoneAfter ==
  ASSUME NEW c, NEW d, NEW e, NEW x, NEW s, CtxType(c), CtxType(d), Moves(c, d, x, s), Done(d, e, x, s)
  PROVE  Done(c, e, x, s)
  BY MovesOn DEF Done, Consistent

(* A new activity has been created before its boundary events are attached. *)
LEMMA CreatedFirst ==
  ASSUME NEW c, NEW x, NEW s, Ready(c, x, s), IsActivity(c.entities[x]),
         ~IsMultiInstanceActivity(c.entities[x]), c.entities[x].state \in {"NEW", "SUSPENDED"},
         IsOpen(c.entities[s]), NEW d, d = SetState(c, x, "CREATED")
  PROVE  /\ Ready(d, x, s) /\ Moves(c, d, x, s) /\ UnsetOf(d, x) = {}
         /\ SameRow(d.entities[x], c.entities[x])
         /\ d.entities[x].state = "CREATED" /\ d.entities[x].work = 0
         /\ d.entities[s].state = c.entities[s].state
  <1>1. /\ CtxType(c) /\ x \in 1..Len(c.entities) /\ x # 1 /\ c.entities[x] \in Row
        /\ s \in 1..Len(c.entities) /\ s < x /\ StateOf(c, x, x)
        /\ (IsActive(c.entities[x]) => Idle(c.entities[x]))
    BY ReadyFacts
  <1>2. /\ Consistent(c, x, 0) /\ NewOnce(c, x) /\ x \in 2..Len(c.entities) /\ x \notin Pending(c)
        /\ s = c.entities[x].parent /\ Kids(c, x, x) = {} /\ c.entities[x].count <= 0 /\ Listed(c, x)
    BY DEF Ready
  <1>3. c.entities[x].work = 0 /\ UnsetOf(c, x) = {}
    BY <1>1 DEF StateOf, RowState, Idle, IsActive, Ended
  <1>4. PICK r \in Row : /\ SameRow(r, c.entities[x]) /\ r.count = c.entities[x].count
                         /\ r.work = c.entities[x].work /\ r.state = "CREATED" /\ d = Put(c, x, r)
    <2>1. "CREATED" \in InstanceState
      BY DEF InstanceState
    <2>. QED BY <1>1, <2>1, StateIs DEF Put
  <1>5. /\ CtxType(d) /\ Len(d.entities) = Len(c.entities) /\ d.list = c.list /\ d.next = c.next
        /\ d.entities[x] = r
        /\ \A y \in 1..Len(c.entities) : y # x => d.entities[y] = c.entities[y]
    BY <1>1, <1>4, PutFacts
  <1>6. IsActive(c.entities[x]) /\ Type(c.entities[x]) # "parallel"
    BY DEF IsActive, Ended, IsActivity, Activities
  <1>7. PICK v : v = "CREATED"
    OBVIOUS
  <1>8. /\ v \in {"CREATED", "STARTED", "QUEUED", "SUSPENDED"} /\ v # "QUEUED" /\ v # "STARTED" /\ v # "SUSPENDED"
        /\ d = SetState(c, x, v)
    BY <1>7
  <1>9. /\ Consistent(d, x, 0) /\ NewOnce(d, x)
        /\ \A y : Kids(d, x, y) = Kids(c, x, y) /\ UnsetOf(d, y) = UnsetOf(c, y)
    <2>1. PICK o, t, u : o = 0 /\ t = x /\ u = t
      OBVIOUS
    <2>2. /\ Consistent(c, t, o) /\ NewOnce(c, t) /\ (u = t \/ (t = x /\ u = 0))
          /\ x \in 2..Len(c.entities) /\ IsActive(c.entities[x]) /\ Type(c.entities[x]) # "parallel"
          /\ Kids(c, t, x) = {} /\ ~IsMultiInstanceActivity(c.entities[x])
      BY <1>2, <1>6, <2>1
    <2>3. /\ Consistent(SetState(c, x, v), u, o) /\ NewOnce(SetState(c, x, v), u)
          /\ \A y : /\ Kids(SetState(c, x, v), u, y) = Kids(c, t, y)
                    /\ UnsetOf(SetState(c, x, v), y) = UnsetOf(c, y)
      <3>1. /\ v = "QUEUED" => Type(c.entities[x]) = "startEvent"
            /\ v = "CREATED" => Kids(c, t, x) = {} /\ Type(c.entities[x]) # "parallel"
            /\ v # "CREATED" => UnsetOf(c, x) = {}
            /\ v \in {"STARTED", "QUEUED"} => ~IsBoundaryEvent(c.entities[x])
            /\ v = "SUSPENDED" => Idle(c.entities[x]) /\ (IsBoundaryEvent(c.entities[x]) => c.entities[x].work = 0)
            /\ IsMultiInstanceActivity(c.entities[x]) /\ v = "CREATED" =>
                 c.entities[x].work = 0 /\ c.entities[x].prev # 0
        BY <2>2, <1>7
      <3>. QED BY ONLY <2>2, <3>1, <1>8, StateChange
    <2>. QED BY <2>1, <2>3, <1>8
  <1>10. Pending(d) = Pending(c) /\ Listed(d, x)
    BY <1>2, <1>5, SameList
  <1>11. Ready(d, x, s)
    BY <1>2, <1>4, <1>5, <1>9, <1>10 DEF Ready, SameRow
  <1>12. Moves(c, d, x, s)
    BY <1>1, <1>4, <1>6, StateMoves
  <1>13. d.entities[s] = c.entities[s]
    BY <1>1, <1>5
  <1>. QED BY <1>3, <1>4, <1>5, <1>9, <1>11, <1>12, <1>13

LEMMA AttachState ==
  ASSUME NEW c, CtxType(c), NEW x \in 1..Len(c.entities), NEW s \in 1..Len(c.entities), s # x,
         NEW d, Attaches(c, d, x, s), NEW v \in InstanceState,
         NEW p, p = SetState(c, x, v), NEW q, q = SetState(d, x, v)
  PROVE  /\ Attaches(p, q, x, s)
         /\ q.entities[x].count = d.entities[x].count /\ SameRow(q.entities[x], d.entities[x])
  <1>1. PICK n \in Nat, el \in Elements, m \in Nat, u \in Nat :
          /\ n = Len(c.entities) /\ el = c.entities[x].element /\ m = Len(Graph[el].boundary)
          /\ u = Undefined(c.entities[x])
    <2>1. Len(c.entities) \in Nat /\ Undefined(c.entities[x]) \in Nat /\ c.entities[x] \in Row
      BY CtxFacts, UndefinedFacts
    <2>. QED BY <2>1, BoundaryOf DEF Row
  <1>2. x \in 1..n /\ s \in 1..n /\ \A y \in 1..n : c.entities[y] \in Row
    BY <1>1, CtxFacts
  <1>3. /\ CtxType(d) /\ d.instance = c.instance /\ Extended(c, d, Numbers(n, m))
        /\ Len(d.entities) = n + m
        /\ \A y \in 1..n : y \notin {x, s} => d.entities[y] = c.entities[y]
        /\ d.entities[s] = Counted(c.entities[s], m)
        /\ d.entities[x] = Counted(c.entities[x], -u)
        /\ \A k \in 1..m : d.entities[n + k] = Inside(NewRow(Graph[el].boundary[k], s, x, el), c.entities[s])
    BY <1>1 DEF Attaches
  <1>4. x \in 1..n + m
    BY <1>2
  <1>5. PICK r \in Row : r = WithState(c, x, v) /\ p = Put(c, x, r)
    BY StateIs DEF Put
  <1>6. PICK t \in Row : /\ t = WithState(d, x, v) /\ q = Put(d, x, t) /\ t.count = d.entities[x].count
                         /\ SameRow(t, d.entities[x])
    BY <1>3, <1>4, StateIs DEF Put
  <1>7. /\ CtxType(p) /\ Len(p.entities) = n /\ p.instance = c.instance
        /\ p.list = c.list /\ p.next = c.next /\ p.entities[x] = r
        /\ \A y \in 1..n : y # x => p.entities[y] = c.entities[y]
    BY <1>1, <1>5, PutFacts
  <1>8. /\ CtxType(q) /\ Len(q.entities) = n + m /\ q.instance = c.instance
        /\ q.list = d.list /\ q.next = d.next /\ q.entities[x] = t
        /\ \A y \in 1..n + m : y # x => q.entities[y] = d.entities[y]
    <2>1. x \in 1..Len(d.entities) /\ CtxType(d)
      BY <1>3, <1>4
    <2>2. /\ CtxType(q) /\ Len(q.entities) = Len(d.entities) /\ q.instance = d.instance
          /\ q.list = d.list /\ q.next = d.next /\ q.entities[x] = t
          /\ \A y \in 1..Len(d.entities) : y # x => q.entities[y] = d.entities[y]
      BY <2>1, <1>6, PutFacts
    <2>. QED BY <2>2, <1>3
  <1>9. Extended(p, q, Numbers(n, m))
    <2>1. /\ Pending(p) = Pending(c) /\ \A y : Listed(p, y) <=> Listed(c, y)
          /\ \A y, z : Before(p, y, z) <=> Before(c, y, z)
      BY <1>7, SameList
    <2>2. /\ Pending(q) = Pending(d) /\ (Distinct(q) <=> Distinct(d))
          /\ \A y : Listed(q, y) <=> Listed(d, y)
          /\ \A y, z : Before(q, y, z) <=> Before(d, y, z)
      BY <1>8, SameList
    <2>. QED BY <2>1, <2>2, <1>3, <1>7, <1>8 DEF Extended
  <1>10. r.element = el /\ Undefined(r) = u
    <2>1. r.element = c.entities[x].element
      BY <1>2, <1>5 DEF WithState, Row
    <2>. QED BY <2>1, <1>1 DEF Undefined
  <1>11. t = Counted(r, -u)
    <2>1. PICK e \in Row : e = c.entities[x]
      BY <1>2
    <2>2. r = [e EXCEPT !.state = v]
      BY <2>1, <1>5 DEF WithState
    <2>3. t = [Counted(e, -u) EXCEPT !.state = v]
      BY <2>1, <1>3, <1>6 DEF WithState
    <2>. QED BY <2>2, <2>3 DEF Counted, Row
  <1>12. q.entities[s] = Counted(p.entities[s], m)
    <2>1. s \in 1..n + m
      BY <1>2
    <2>. QED BY <2>1, <1>2, <1>3, <1>7, <1>8
  <1>13. \A y \in 1..n : y \notin {x, s} => q.entities[y] = p.entities[y]
    <2>1. \A y \in 1..n : y \in 1..n + m
      OBVIOUS
    <2>. QED BY <2>1, <1>3, <1>7, <1>8
  <1>14. \A k \in 1..m : q.entities[n + k] = Inside(NewRow(Graph[el].boundary[k], s, x, el), p.entities[s])
    <2>1. \A k \in 1..m : n + k \in 1..n + m /\ n + k # x
      BY <1>2
    <2>. QED BY <2>1, <1>2, <1>3, <1>7, <1>8
  <1>15. Attaches(p, q, x, s)
    BY <1>1, <1>7, <1>8, <1>9, <1>10, <1>11, <1>12, <1>13, <1>14, ZenonT(40) DEF Attaches
  <1>. QED BY <1>6, <1>8, <1>15

LEMMA ActivityCreated ==
  ASSUME NEW c, NEW x, NEW s, Ready(c, x, s), IsActivity(c.entities[x]), ~c.entities[x].multi,
         ~IsMultiInstanceActivity(c.entities[x]), c.entities[x].state \in {"NEW", "SUSPENDED"},
         IsOpen(c.entities[s])
  PROVE  Done(c, Created(c, s, x), x, s)
  <1>1. /\ CtxType(c) /\ x \in 1..Len(c.entities) /\ s \in 1..Len(c.entities) /\ s # x
        /\ Distinct(c) /\ x # 1
    BY ReadyFacts DEF Ready, Consistent
  <1>2. PICK v \in InstanceState : v = "CREATED"
    BY DEF InstanceState
  <1>3. PICK p, d, q : /\ p = SetState(c, x, v) /\ d = AttachBoundaryEvents(c, s, x)
                       /\ q = SetState(d, x, v)
    OBVIOUS
  <1>4. /\ Ready(p, x, s) /\ Moves(c, p, x, s) /\ UnsetOf(p, x) = {}
        /\ SameRow(p.entities[x], c.entities[x])
        /\ p.entities[x].state = "CREATED" /\ p.entities[x].work = 0
        /\ IsOpen(p.entities[s])
    BY <1>2, <1>3, CreatedFirst DEF IsOpen
  <1>5. Attaches(c, d, x, s)
    BY <1>1, <1>3, AttachFacts
  <1>6. /\ Attaches(p, q, x, s)
        /\ q.entities[x].count = d.entities[x].count /\ SameRow(q.entities[x], d.entities[x])
    BY <1>1, <1>3, <1>5, AttachState
  <1>7. /\ Ready(q, x, s) /\ Moves(p, q, x, s)
        /\ q.entities[x].state = "CREATED" /\ IsOpen(q.entities[s])
    <2>1. IsActivity(p.entities[x]) /\ ~IsMultiInstanceActivity(p.entities[x])
      BY <1>4, RowLike
    <2>. QED BY <2>1, <1>4, <1>6, Attached DEF IsOpen
  <1>8. /\ CtxType(p) /\ CtxType(q) /\ x \in 1..Len(q.entities) /\ s \in 1..Len(q.entities)
    BY <1>4, <1>7, ReadyFacts
  <1>9. Moves(c, q, x, s)
    BY <1>1, <1>4, <1>7, <1>8, MovesOn
  <1>10. SameRow(q.entities[x], c.entities[x])
    <2>1. MovedRow(c, q, x, s, x)
      BY <1>1, <1>9 DEF Moves
    <2>. QED BY <2>1 DEF MovedRow
  <1>11. /\ IsActive(q.entities[x]) /\ IsActivity(q.entities[x]) /\ ~q.entities[x].multi
         /\ ~IsMultiInstanceActivity(q.entities[x]) /\ ~IsBoundaryEvent(q.entities[x])
         /\ Type(q.entities[x]) = Type(c.entities[x])
    <2>1. ~IsBoundaryEvent(c.entities[x])
      BY DEF IsActivity, IsBoundaryEvent, Activities, BoundaryEvents
    <2>. QED BY <2>1, <1>7, <1>10, RowLike DEF SameRow, IsActive, Ended
  <1>12. Type(d.entities[x]) = Type(c.entities[x]) /\ ~IsMultiInstanceActivity(d.entities[x])
         /\ d.entities[x].element = q.entities[x].element
    BY <1>6, <1>11, RowLike
  <1>13. CASE d.entities[x].count # 0
    <2>1. Created(c, s, x) = q
      BY <1>2, <1>3, <1>13 DEF Created
    <2>2. Done(q, q, x, s)
      BY <1>7, <1>11, StaysAsItIs
    <2>. QED BY <2>1, <2>2, <1>1, <1>8, <1>9, DoneAfter
  <1>14. CASE d.entities[x].count = 0
    <2>1. Created(c, s, x) = Started(d, s, x)
      BY <1>3, <1>14 DEF Created
    <2>2. UnsetOf(q, x) = {}
      <3>1. CountedRow(q, x, x) /\ Kids(q, x, x) = {} /\ q.entities[x].count = 0
        <4>1. x \in DOMAIN q.entities
          BY <1>8, CtxFacts
        <4>. QED BY <4>1, <1>6, <1>7, <1>14 DEF Ready, Consistent
      <3>2. 0 = Cardinality(Kids(q, x, x)) - Cardinality(UnsetOf(q, x))
        BY <3>1, <1>11 DEF CountedRow
      <3>3. /\ Cardinality(Kids(q, x, x)) \in Nat /\ Cardinality(UnsetOf(q, x)) \in Nat
            /\ Cardinality(Kids(q, x, x)) = 0 <=> Kids(q, x, x) = {}
            /\ Cardinality(UnsetOf(q, x)) = 0 <=> UnsetOf(q, x) = {}
        BY <1>8, SetsOf
      <3>. QED BY <3>1, <3>2, <3>3
    <2>3. \A w : SetState(d, x, w) = SetState(q, x, w)
      <3>1. d \in Contexts /\ d.entities \in Seq(Row) /\ x \in DOMAIN d.entities
        <4>1. CtxType(d) /\ Len(q.entities) = Len(d.entities)
          <5>1. CtxType(d) /\ Len(d.entities) = Len(c.entities) + Len(Graph[c.entities[x].element].boundary)
            BY <1>5 DEF Attaches
          <5>2. /\ Len(q.entities) = Len(p.entities) + Len(Graph[p.entities[x].element].boundary)
                /\ Len(p.entities) = Len(c.entities)
            <6>1. Len(p.entities) = Len(c.entities)
              <7>1. PICK r \in Row : p = Put(c, x, r)
                <8>1. p = Put(c, x, WithState(c, x, v)) /\ WithState(c, x, v) \in Row
                  BY <1>1, <1>3, StateIs DEF Put
                <8>. QED BY <8>1
              <7>. QED BY <7>1, <1>1, PutFacts
            <6>. QED BY <6>1, <1>6 DEF Attaches
          <5>. QED BY <5>1, <5>2, <1>4 DEF SameRow
        <4>2. x \in 1..Len(d.entities)
          BY <4>1, <1>8
        <4>. QED BY <4>1, <4>2, CtxFacts
      <3>2. \A r : [d.entities[x] EXCEPT !.state = r] = [[d.entities[x] EXCEPT !.state = v] EXCEPT !.state = r]
        <4>1. d.entities[x] \in Row
          BY <3>1
        <4>. QED BY <4>1 DEF Row
      <3>. QED BY <3>1, <3>2, <1>3, ZenonT(40) DEF SetState, Contexts
    <2>4. CASE Type(c.entities[x]) = "subProcess"
      <3>1. Started(d, s, x) = EnterSubProcess(d, s, x)
        BY <2>4, <1>12 DEF Started
      <3>2. d.entities[s].state = q.entities[s].state
        <4>1. q.entities[s] = d.entities[s]
          <5>1. PICK m \in Nat : Len(d.entities) = Len(c.entities) + m /\ CtxType(d)
            <6>1. c.entities[x].element \in Elements
              BY <1>1, CtxFacts DEF Row
            <6>. QED BY <6>1, <1>5, BoundaryOf DEF Attaches
          <5>2. x \in 1..Len(d.entities) /\ s \in 1..Len(d.entities)
            <6>1. PICK l \in Nat : l = Len(c.entities)
              BY <1>1, CtxFacts
            <6>2. x \in 1..l /\ s \in 1..l /\ Len(d.entities) = l + m
              BY <5>1, <6>1, <1>1
            <6>. QED BY <6>2
          <5>3. PICK r \in Row : q = Put(d, x, r)
            <6>1. q = Put(d, x, WithState(d, x, v)) /\ WithState(d, x, v) \in Row
              BY <5>1, <5>2, <1>3, StateIs DEF Put
            <6>. QED BY <6>1
          <5>. QED BY <5>1, <5>2, <5>3, <1>1, PutFacts
        <4>. QED BY <4>1
      <3>3. EnterSubProcess(d, s, x) = EnterSubProcess(q, s, x)
        BY <2>3, <3>2, <1>12 DEF EnterSubProcess
      <3>4. Done(q, EnterSubProcess(q, s, x), x, s)
        BY <2>2, <2>4, <1>7, <1>11, SubProcessContinues
      <3>. QED BY <2>1, <3>1, <3>3, <3>4, <1>1, <1>8, <1>9, DoneAfter
    <2>5. CASE Type(c.entities[x]) # "subProcess"
      <3>1. Started(d, s, x) = SetState(q, x, "STARTED")
        BY <2>3, <2>5, <1>12 DEF Started
      <3>2. Done(q, SetState(q, x, "STARTED"), x, s)
        <4>1. PICK w : w = "STARTED"
          OBVIOUS
        <4>2. w \in {"CREATED", "STARTED", "QUEUED", "SUSPENDED"} /\ w # "SUSPENDED" /\ w # "QUEUED" /\ w # "CREATED"
          BY <4>1
        <4>3. Done(q, SetState(q, x, w), x, s)
          BY <4>2, <2>2, <1>7, <1>11, StateContinues
        <4>. QED BY <4>1, <4>3
      <3>. QED BY <2>1, <3>1, <3>2, <1>1, <1>8, <1>9, DoneAfter
    <2>. QED BY <2>4, <2>5
  <1>. QED BY <1>13, <1>14

(* Multi-instances *)

LEMMA MultiFacts ==
  ASSUME NEW c, NEW t, NEW z, Consistent(c, t, z), NEW x \in 1..Len(c.entities), c.entities[x].multi
  PROVE  /\ IsActivity(c.entities[x]) /\ ~IsMultiInstanceActivity(c.entities[x])
         /\ ~IsBoundaryEvent(c.entities[x]) /\ Type(c.entities[x]) # "parallel" /\ x # 1
         /\ Graph[c.entities[x].element].multiple /\ IsScope(c.entities[x])
         /\ Type(c.entities[x]) # "startEvent"
  <1>1. CtxType(c) /\ ShapeOf(c.entities, x) /\ c.entities[x] \in Row
    <2>1. CtxType(c) /\ x \in DOMAIN c.entities
      BY CtxFacts DEF Consistent
    <2>. QED BY <2>1, CtxFacts DEF Consistent
  <1>2. Graph[c.entities[x].element].multiple /\ c.entities[x].element \in Elements
    BY <1>1 DEF ShapeOf, Row
  <1>3. Type(c.entities[x]) \in Activities
    BY <1>2, ValidAssumption DEF Type
  <1>4. x # 1
    BY <1>1, <1>3 DEF ShapeOf, Activities
  <1>. QED BY <1>2, <1>3, <1>4 DEF IsActivity, IsMultiInstanceActivity, IsBoundaryEvent,
         BoundaryEvents, Activities, IsScope

LEMMA MultiStarted ==
  ASSUME NEW c, NEW t, NEW z, Consistent(c, t, z), NEW x \in 2..Len(c.entities),
         NEW u, u = t \/ (t = x /\ u = 0), c.entities[x].multi, IsActive(c.entities[x]),
         UnsetOf(c, x) = {}, NEW r \in Row, SameRow(r, c.entities[x]),
         r.count = c.entities[x].count, r.state = "STARTED", r.work = 0
  PROVE  RowChanges(c, t, x, r, u)
  <1>1. /\ IsActivity(c.entities[x]) /\ ~IsMultiInstanceActivity(c.entities[x])
        /\ ~IsBoundaryEvent(c.entities[x]) /\ Type(c.entities[x]) # "parallel"
    <2>1. x \in 1..Len(c.entities)
      BY CtxFacts DEF Consistent
    <2>. QED BY <2>1, MultiFacts
  <1>2. /\ IsActivity(r) /\ ~IsMultiInstanceActivity(r) /\ ~IsBoundaryEvent(r)
        /\ Type(r) # "parallel"
    BY <1>1, RowLike
  <1>0. ~(r.work > 0)
    OBVIOUS
  <1>3. IsActive(r) /\ ~IsUnset(r) /\ ~IsUnset(c.entities[x])
    BY <1>1, <1>2 DEF IsActive, Ended, IsUnset
  <1>4. RowState(r, x, Kids(c, t, x), UnsetOf(c, x), x \in Pending(c) \/ x = u, Listed(c, x))
    BY <1>0, <1>2, <1>3 DEF RowState
  <1>. QED BY <1>3, <1>4 DEF RowChanges

(* The rows of the activities of a multi-instance. *)
MultiRowsAre(c, d, x, n, before) ==
  /\ SameRow(d.entities[x], c.entities[x])
  /\ \A k \in 1..n :
       /\ d.entities[Len(c.entities) + k] =
            Inside(NewRow(c.entities[x].element, x, before[k], Null), c.entities[x])
       /\ before[k] = 0 \/ (before[k] = Len(c.entities) + k - 1 /\ k > 1)

LEMMA MultiRows ==
  ASSUME NEW c, NEW t, NEW z, Consistent(c, t, z), NEW x \in 1..Len(c.entities), c.entities[x].multi,
         NEW n \in Nat, NEW before, NEW d, MultiRowsAre(c, d, x, n, before),
         NEW y \in Numbers(Len(c.entities), n)
  PROVE  NewWithin(d, y, x, 0) /\ ~IsUnset(d.entities[y])
  <1>. PICK l, el : l \in Nat /\ l = Len(c.entities) /\ el = c.entities[x].element
    BY CtxFacts DEF Consistent
  <1>0. /\ \A k \in 1..n : d.entities[l + k] = Inside(NewRow(el, x, before[k], Null), c.entities[x])
        /\ SameRow(d.entities[x], c.entities[x])
        /\ \A k \in 1..n : before[k] = 0 \/ (before[k] = l + k - 1 /\ k > 1)
    BY DEF MultiRowsAre
  <1>1. /\ Graph[el].multiple /\ Type(c.entities[x]) \notin BoundaryEvents \cup {"process"}
        /\ IsScope(c.entities[x]) /\ Graph[el].type = Type(c.entities[x])
    BY MultiFacts DEF IsActivity, Activities, BoundaryEvents, Type
  <1>2. y \in l + 1..l + n
    BY DEF Numbers
  <1>3. y - l \in 1..n /\ l + (y - l) = y
    BY <1>2
  <1>4. PICK k \in 1..n : l + k = y
    BY <1>3
  <1>5. ASSUME NEW j \in 1..n
        PROVE  /\ d.entities[l + j].element = el /\ d.entities[l + j].parent = x
               /\ d.entities[l + j].prev = before[j] /\ ~d.entities[l + j].multi
               /\ d.entities[l + j].state = "NEW" /\ d.entities[l + j].count = 0
               /\ d.entities[l + j].work = 0
    <2>1. d.entities[l + j] = Inside(NewRow(el, x, before[j], Null), c.entities[x])
      BY <1>0
    <2>2. PICK q : q = NewRow(el, x, before[j], Null)
      OBVIOUS
    <2>3. /\ q.element = el /\ q.parent = x /\ q.prev = before[j]
          /\ q.state = "NEW" /\ q.count = 0 /\ q.work = 0 /\ "multi" \in DOMAIN q
          /\ q = [element |-> el, parent |-> x, prev |-> before[j], from |-> Null,
                  multi |-> Graph[el].multiple, state |-> "NEW", count |-> 0,
                  context |-> FALSE, work |-> 0]
      BY <2>2 DEF NewRow
    <2>4. PICK r : r = Inside(q, c.entities[x])
      OBVIOUS
    <2>5. /\ r.element = el /\ r.parent = x /\ r.prev = before[j]
          /\ r.state = "NEW" /\ r.count = 0 /\ r.work = 0
          /\ r.multi = (q.multi /\ ~c.entities[x].multi)
      BY <2>3, <2>4 DEF Inside
    <2>. QED BY <2>1, <2>2, <2>4, <2>5
  <1>6. PICK r : r = d.entities[y]
    OBVIOUS
  <1>7. /\ r.element = el /\ r.parent = x /\ r.prev = before[k] /\ ~r.multi
        /\ r.state = "NEW" /\ r.count = 0 /\ r.work = 0
    BY <1>4, <1>5, <1>6
  <1>8. Type(r) # "process" /\ ~IsBoundaryEvent(r) /\ IsMultiInstanceActivity(r)
    BY <1>1, <1>7 DEF Type, IsBoundaryEvent, IsMultiInstanceActivity
  <1>9. y # 1 /\ x \in 0..y - 1 /\ r.prev \in 0..y - 1 /\ x # 0
    <2>1. x \in 1..l /\ y > l /\ y \in Nat
      BY <1>2
    <2>2. r.prev = 0 \/ (r.prev = l + k - 1 /\ k > 1)
      BY <1>0, <1>7
    <2>. QED BY <2>1, <2>2, <1>4
  <1>10. r.prev # 0 => d.entities[r.prev].parent = x
    <2>1. ASSUME r.prev # 0 PROVE d.entities[r.prev].parent = x
      <3>1. r.prev = l + k - 1 /\ k > 1
        BY <2>1, <1>0, <1>7
      <3>2. k - 1 \in 1..n /\ l + (k - 1) = r.prev
        BY <3>1
      <3>. QED BY <3>2, <1>5
    <2>. QED BY <2>1
  <1>11. IsScope(d.entities[x]) /\ d.entities[x].multi
    BY <1>0, <1>1, RowLike DEF SameRow
  <1>12. ShapeOf(d.entities, y)
    BY <1>6, <1>7, <1>8, <1>9, <1>10, <1>11 DEF ShapeOf
  <1>. QED BY <1>6, <1>7, <1>8, <1>12 DEF NewWithin, IsUnset

LEMMA MultiInstanceStarts ==
  ASSUME NEW c, NEW t, NEW z, Consistent(c, t, z), NewOnce(c, t), t \in 0..Len(c.entities),
         NEW x \in 2..Len(c.entities), NEW u, u = t \/ (t = x /\ u = 0),
         c.entities[x].multi, IsActive(c.entities[x]), UnsetOf(c, x) = {}, c.entities[x].work = 0,
         IsNew(x) => x \notin Pending(c), NEW n \in Nat,
         NEW d, d = StartMultiInstance(c, x, n)
  PROVE  /\ Consistent(d, u, z) /\ NewOnce(d, u)
         /\ \E r \in Row : SameRow(r, c.entities[x]) /\ NewIn(Put(c, x, r), d, x)
  <1>1. /\ CtxType(c) /\ x \in 1..Len(c.entities) /\ Len(c.entities) \in Nat
        /\ c.entities[x] \in Row
    BY CtxFacts DEF Consistent
  <1>2. PICK el \in Elements : el = c.entities[x].element
    BY <1>1 DEF Row
  <1>3. PICK r \in Row : /\ r = [c.entities[x] EXCEPT !.state = "STARTED", !.context = TRUE]
                         /\ SameRow(r, c.entities[x]) /\ r.count = c.entities[x].count
                         /\ r.state = "STARTED" /\ r.work = 0
    <2>1. PICK q : q = [c.entities[x] EXCEPT !.state = "STARTED", !.context = TRUE]
      OBVIOUS
    <2>2. /\ q \in Row /\ SameRow(q, c.entities[x]) /\ q.count = c.entities[x].count
          /\ q.state = "STARTED" /\ q.work = 0
      BY <1>1, <2>1 DEF Row, SameRow, InstanceState
    <2>. QED BY <2>1, <2>2
  <1>4. PICK p : p = Put(c, x, r)
    OBVIOUS
  <1>5. /\ CtxType(p) /\ Len(p.entities) = Len(c.entities) /\ p.list = c.list
        /\ p.next = c.next /\ p.entities[x] = r
    BY <1>1, <1>4, PutFacts
  <1>6. RowChanges(c, t, x, r, u)
    BY <1>3, MultiStarted
  <1>7. Consistent(p, u, z) /\ NewOnce(p, u)
    BY <1>4, <1>6, RowChange
  <1>8. PICK before : before = [k \in 1..n |-> IF Graph[el].sequential /\ k > 1
                                               THEN Len(c.entities) + k - 1 ELSE 0]
    OBVIOUS
  <1>9. PICK new : new = [k \in 1..n |-> NewRow(el, x, before[k], Null)]
    OBVIOUS
  <1>10. d = Branches(p, x, new)
    <2>1. [SetState(c, x, "STARTED") EXCEPT !.entities[x].context = TRUE] = p
      <3>1. c \in Contexts /\ c.entities \in Seq(Row) /\ x \in DOMAIN c.entities
        BY <1>1, CtxFacts
      <3>2. [[c.entities EXCEPT ![x] = [c.entities[x] EXCEPT !.state = "STARTED"]] EXCEPT
               ![x] = [[c.entities[x] EXCEPT !.state = "STARTED"] EXCEPT !.context = TRUE]] =
            [c.entities EXCEPT ![x] = r]
        <4>1. [[c.entities[x] EXCEPT !.state = "STARTED"] EXCEPT !.context = TRUE] = r
          BY <1>1, <1>3 DEF Row
        <4>. QED BY <4>1, <3>1
      <3>3. SetState(c, x, "STARTED").entities = [c.entities EXCEPT ![x] = [c.entities[x] EXCEPT !.state = "STARTED"]]
        BY <3>1 DEF SetState, Contexts
      <3>4. SetState(c, x, "STARTED").entities[x] = [c.entities[x] EXCEPT !.state = "STARTED"]
        BY <3>1, <3>3
      <3>. QED BY <3>1, <3>2, <3>3, <3>4, <1>4 DEF SetState, Contexts, Put
    <2>2. [k \in 1..n |-> NewRow(el, x, IF Graph[el].sequential /\ k > 1
                                        THEN Len(c.entities) + k - 1 ELSE 0, Null)] = new
      BY <1>8, <1>9
    <2>. QED BY <2>1, <2>2, <1>2 DEF StartMultiInstance
  <1>11. \A k \in 1..n : before[k] \in Nat /\
           (before[k] = 0 \/ (before[k] = Len(c.entities) + k - 1 /\ k > 1))
    BY <1>1, <1>8
  <1>12. new \in Seq(Row) /\ Len(new) = n
    <2>1. \A k \in 1..n : NewRow(el, x, before[k], Null) \in Row
      <3>1. x \in Nat /\ Null \in Elements \cup {Null}
        BY <1>1
      <3>. QED BY <3>1, <1>11, NewRowType
    <2>2. new \in [1..n -> Row]
      BY <2>1, <1>9
    <2>. QED BY <2>2
  <1>13. BranchesAre(p, d, x, new)
    <2>1. Distinct(p) /\ x \in 1..Len(p.entities)
      BY <1>1, <1>5, <1>7 DEF Consistent
    <2>. QED BY <2>1, <1>5, <1>10, <1>12, BranchesFacts
  <1>14. PICK l \in Nat : l = Len(p.entities) /\ l = Len(c.entities)
    BY <1>1, <1>5
  <1>15. /\ CtxType(d) /\ d.instance = p.instance /\ Extended(p, d, Numbers(l, n))
         /\ Len(d.entities) = l + n
         /\ \A y \in 1..l : d.entities[y] = IF y = x THEN Counted(p.entities[x], n) ELSE p.entities[y]
         /\ \A k \in 1..n : d.entities[l + k] = Inside(new[k], p.entities[x])
    BY <1>12, <1>13, <1>14 DEF BranchesAre
  <1>16. x \in 1..l /\ \A y \in 1..l : p.entities[y] \in Row
    BY <1>1, <1>5, <1>14, CtxFacts
  <1>17. n \in Int
    OBVIOUS
  <1>18. ASSUME NEW y \in 1..l PROVE d.entities[y] = Recounted(p.entities[y], y, x, n, 0, 0)
    <2>1. PICK q \in Row : q = p.entities[y]
      BY <1>16
    <2>2. /\ [q EXCEPT !.count = @ + 0 - 0] = q
          /\ [q EXCEPT !.count = @ + n - 0] = [q EXCEPT !.count = @ + n]
      BY <1>17, Recount
    <2>3. CASE y = x
      BY <2>1, <2>2, <2>3, <1>15 DEF Recounted, Counted
    <2>4. CASE y # x
      BY <2>1, <2>2, <2>4, <1>15 DEF Recounted
    <2>. QED BY <2>3, <2>4
  <1>19. p.entities[x].multi /\ p.entities[x].element = el /\ p.entities[x].state = "STARTED"
         /\ p.entities[x].work = 0
    BY <1>2, <1>3, <1>5 DEF SameRow
  <1>20. SameRow(d.entities[x], p.entities[x])
    <2>1. d.entities[x] = Counted(p.entities[x], n) /\ p.entities[x] \in Row
      BY <1>15, <1>16
    <2>. QED BY <2>1 DEF Counted, SameRow, Row
  <1>21. ASSUME NEW y \in Numbers(l, n) PROVE NewWithin(d, y, x, 0) /\ ~IsUnset(d.entities[y])
    <2>1. \A k \in 1..n : d.entities[l + k] = Inside(NewRow(el, x, before[k], Null), p.entities[x])
      BY <1>9, <1>15
    <2>2. \A k \in 1..n : before[k] = 0 \/ (before[k] = l + k - 1 /\ k > 1)
      BY <1>11, <1>14
    <2>3. MultiRowsAre(p, d, x, n, before)
      BY <2>1, <2>2, <1>14, <1>19, <1>20 DEF MultiRowsAre
    <2>4. x \in 1..Len(p.entities) /\ y \in Numbers(Len(p.entities), n)
      BY <1>14, <1>16
    <2>. QED BY <2>3, <2>4, <1>7, <1>19, MultiRows
  <1>22. 0 = Cardinality(NewUnset(d, l, n))
    <2>1. NewUnset(d, l, n) = {}
      BY <1>21 DEF NewUnset
    <2>. QED BY <2>1, FS_EmptySet
  <1>23. p.entities[1].state # "QUEUED"
    <2>1. IsScope(p.entities[x]) /\ x \in 1..Len(p.entities)
      BY <1>14, <1>16, <1>19 DEF IsScope
    <2>. QED BY <2>1, <1>7, <1>19, NotQueued DEF IsOpen
  <1>24. Consistent(d, u, z) /\ NewOnce(d, u)
    <2>1. PICK o \in 0..l : o = 0 /\ o \in Nat
      BY <1>14
    <2>2. /\ Extended(p, d, Numbers(Len(p.entities), n)) /\ Len(d.entities) = Len(p.entities) + n
          /\ \A y \in 1..Len(p.entities) : d.entities[y] = Recounted(p.entities[y], y, x, n, o, o)
          /\ \A y \in Numbers(Len(p.entities), n) : NewWithin(d, y, x, o)
          /\ o = Cardinality(NewUnset(d, Len(p.entities), n))
      BY <2>1, <1>14, <1>15, <1>18, <1>21, <1>22
    <2>3. /\ x \in 1..Len(p.entities) /\ o \in 0..Len(p.entities) /\ u \in 0..Len(p.entities)
          /\ p.entities[x].state \in {"STARTED", "QUEUED", "SUSPENDED"} /\ Idle(p.entities[x])
          /\ o # 0 => o # 0 /\ p.entities[o].state = "CREATED" /\ p.entities[o].work = 0
      BY <2>1, <1>14, <1>16, <1>19 DEF Idle
    <2>4. IsNew(x) /\ x # 1 => x \notin Pending(p)
      BY <1>5, SameList
    <2>5. p.entities[1].state = "QUEUED" =>
            \A y \in Numbers(Len(p.entities), n) : Type(d.entities[y]) = "startEvent"
      BY <1>23
    <2>. QED BY ONLY o \in Nat, n \in Nat, <2>2, <2>3, <2>4, <2>5, <1>7, <1>15, Grown
  <1>25. NewIn(p, d, x)
    <2>1. \A k \in 1..Len(new) : new[k].parent = x
      BY <1>9, <1>12 DEF NewRow
    <2>. QED BY <2>1, <1>12, <1>13 DEF NewIn
  <1>. QED BY <1>3, <1>4, <1>24, <1>25

LEMMA ActiveReady ==
  ASSUME NEW c, NEW x, NEW s, Ready(c, x, s), IsActive(c.entities[x])
  PROVE  /\ c.entities[s].state \in {"STARTED", "QUEUED", "SUSPENDED"}
         /\ c.entities[s].state = "QUEUED" => Type(c.entities[x]) = "startEvent"
         /\ UnsetOf(c, x) = {} <=> c.entities[x].count = 0
         /\ UnsetOf(c, x) # {} => /\ c.entities[x].state = "CREATED" /\ c.entities[x].count < 0
                                  /\ IsActivity(c.entities[x]) /\ ~IsMultiInstanceActivity(c.entities[x])
         /\ c.entities[x].count \in Int
         /\ IsUnset(c.entities[x]) =>
              IsBoundaryEvent(c.entities[x]) /\ c.entities[x].state \in {"NEW", "CREATED", "SUSPENDED"}
         /\ c.entities[x].state \in {"NEW", "QUEUED", "CREATED", "STARTED", "SUSPENDED"}
         /\ c.entities[x].state = "QUEUED" => Type(c.entities[x]) = "startEvent"
         /\ c.entities[x].state = "NEW" => c.entities[x].work = 0
         /\ Idle(c.entities[x])
  <1>1. /\ CtxType(c) /\ x \in 1..Len(c.entities) /\ x # 1 /\ c.entities[x] \in Row
        /\ s \in 1..Len(c.entities) /\ IsScope(c.entities[s])
        /\ IsActive(c.entities[s]) => c.entities[s].state \in {"STARTED", "QUEUED", "SUSPENDED"}
        /\ IsActive(c.entities[s]) /\ StateOf(c, x, x) /\ Idle(c.entities[x])
    BY ReadyFacts
  <1>2. /\ Consistent(c, x, 0) /\ Kids(c, x, x) = {} /\ c.entities[x].count <= 0
    BY DEF Ready
  <1>3. DOMAIN c.entities = 1..Len(c.entities)
    BY <1>1, CtxFacts
  <1>4. CountedRow(c, x, x) /\ ProcessOf(c, 0) /\ StateOf(c, s, x)
    BY <1>1, <1>2, <1>3 DEF Consistent
  <1>5. /\ Cardinality(Kids(c, x, x)) = 0 /\ Cardinality(UnsetOf(c, x)) \in Nat
        /\ Cardinality(UnsetOf(c, x)) = 0 <=> UnsetOf(c, x) = {}
    BY <1>1, <1>2, SetsOf
  <1>6. c.entities[x].count = Cardinality(Kids(c, x, x)) - Cardinality(UnsetOf(c, x))
    BY <1>4 DEF CountedRow
  <1>7. /\ UnsetOf(c, x) = {} <=> c.entities[x].count = 0
        /\ UnsetOf(c, x) # {} => c.entities[x].count < 0
        /\ c.entities[x].count \in Int
    BY <1>5, <1>6
  <1>8. /\ UnsetOf(c, x) # {} => c.entities[x].state = "CREATED"
        /\ IsUnset(c.entities[x]) => c.entities[x].state \in {"NEW", "CREATED", "SUSPENDED"}
        /\ c.entities[x].state = "QUEUED" => Type(c.entities[x]) = "startEvent"
        /\ c.entities[x].state = "NEW" => c.entities[x].work = 0
    BY <1>1 DEF StateOf, RowState, IsActive, Ended
  <1>9. c.entities[x].state \in {"NEW", "QUEUED", "CREATED", "STARTED", "SUSPENDED"}
    BY <1>1, <1>8 DEF Row, InstanceState, IsActive
  <1>10. ASSUME UnsetOf(c, x) # {}
         PROVE  IsActivity(c.entities[x]) /\ ~IsMultiInstanceActivity(c.entities[x])
    <2>1. PICK b \in UnsetOf(c, x) : TRUE
      BY <1>10
    <2>2. b \in DOMAIN c.entities /\ c.entities[b].prev = x /\ IsUnset(c.entities[b])
      BY <2>1 DEF UnsetOf
    <2>3. ShapeOf(c.entities, b) /\ IsBoundaryEvent(c.entities[b])
      BY <1>2, <2>2 DEF Consistent, IsUnset
    <2>. QED BY <2>2, <2>3 DEF ShapeOf
  <1>11. ASSUME c.entities[s].state = "QUEUED" PROVE Type(c.entities[x]) = "startEvent"
    <2>1. s = 1
      <3>1. s = 1 \/ Type(c.entities[s]) = "startEvent"
        BY <1>4, <1>11 DEF StateOf, RowState
      <3>2. Type(c.entities[s]) # "startEvent"
        <4>1. CASE c.entities[s].multi
          BY <4>1, <1>1, <1>2, MultiFacts
        <4>2. CASE ~c.entities[s].multi
          BY <4>2, <1>1 DEF IsScope
        <4>. QED BY <4>1, <4>2
      <3>. QED BY <3>1, <3>2
    <2>. QED BY <2>1, <1>1, <1>3, <1>4, <1>11 DEF ProcessOf
  <1>. QED BY <1>1, <1>7, <1>8, <1>9, <1>10, <1>11 DEF IsUnset

LEMMA PreparedContinues ==
  ASSUME NEW c, NEW x, NEW s, Ready(c, x, s), c.entities[x].multi, c.entities[x].state = "CREATED"
  PROVE  Done(c, Prepared(c, x), x, s)
  <1>1. /\ CtxType(c) /\ x \in 1..Len(c.entities) /\ c.entities[x] \in Row
        /\ (IsActive(c.entities[x]) => Idle(c.entities[x]))
    BY ReadyFacts
  <1>2. /\ Consistent(c, x, 0) /\ NewOnce(c, x) /\ x \in 2..Len(c.entities) /\ x \notin Pending(c)
    BY DEF Ready
  <1>3. IsActive(c.entities[x]) /\ ~IsBoundaryEvent(c.entities[x]) /\ c.entities[x].work = 0
    BY <1>1, <1>2, MultiFacts DEF IsActive, Ended, Idle
  <1>4. UnsetOf(c, x) = {} <=> c.entities[x].count = 0
    BY <1>3, ActiveReady
  <1>5. PICK n \in Nat : n = Graph[c.entities[x].element].loop
    <2>1. Graph[c.entities[x].element] \in Node
      BY <1>1, GraphAssumption DEF Row
    <2>. QED BY <2>1 DEF Node
  <1>6. CASE c.entities[x].count = 0 /\ n > 0
    <2>1. PICK e : e = StartMultiInstance(c, x, n)
      OBVIOUS
    <2>2. Prepared(c, x) = e
      BY <1>5, <1>6, <2>1 DEF Prepared
    <2>3. PICK o : o = 0
      OBVIOUS
    <2>4. (o = x \/ (x = x /\ o = 0)) /\ x \in 0..Len(c.entities) /\ Consistent(c, x, o)
      BY <1>1, <1>2, <2>3, CtxFacts
    <2>5. /\ Consistent(e, o, o) /\ NewOnce(e, o)
          /\ \E r \in Row : SameRow(r, c.entities[x]) /\ NewIn(Put(c, x, r), e, x)
      BY <1>2, <1>3, <1>4, <1>6, <2>1, <2>3, <2>4, MultiInstanceStarts
    <2>6. PICK r, d : r \in Row /\ SameRow(r, c.entities[x]) /\ NewIn(d, e, x) /\ d = Put(c, x, r)
      BY <2>5
    <2>7. Moves(c, d, x, s) /\ CtxType(d) /\ x \in 1..Len(d.entities)
      BY <1>1, <1>3, <2>6, StateMoves
    <2>8. Moves(d, e, x, s)
      BY <2>6, <2>7, MovesBranches
    <2>9. CtxType(e)
      BY <2>5 DEF Consistent
    <2>10. Moves(c, e, x, s)
      BY <1>1, <2>7, <2>8, <2>9, MovesOn
    <2>. QED BY <2>2, <2>3, <2>5, <2>10, AnyScope DEF Done
  <1>7. CASE ~(c.entities[x].count = 0 /\ n > 0)
    <2>1. Prepared(c, x) = c
      BY <1>5, <1>7 DEF Prepared
    <2>. QED BY <2>1, <1>3, StaysAsItIs
  <1>. QED BY <1>6, <1>7

(* A new multi-instance. *)
LEMMA MultiInstanceCreated ==
  ASSUME NEW c, NEW x, NEW s, Ready(c, x, s), c.entities[x].multi, c.entities[x].state \in {"NEW", "SUSPENDED"},
         IsOpen(c.entities[s]),
         NEW p, p = SetState(c, x, "CREATED"), NEW d, d = AttachBoundaryEvents(p, s, x)
  PROVE  Done(c, Prepared(d, x), x, s)
  <1>1. /\ CtxType(c) /\ x \in 1..Len(c.entities) /\ Consistent(c, x, 0) /\ s # x
    BY ReadyFacts DEF Ready
  <1>2. IsActivity(c.entities[x]) /\ ~IsMultiInstanceActivity(c.entities[x])
    BY <1>1, MultiFacts
  <1>3. /\ Ready(p, x, s) /\ Moves(c, p, x, s) /\ UnsetOf(p, x) = {}
        /\ SameRow(p.entities[x], c.entities[x])
        /\ p.entities[x].state = "CREATED" /\ p.entities[x].work = 0
        /\ IsOpen(p.entities[s])
    BY <1>2, CreatedFirst DEF IsOpen
  <1>4. /\ CtxType(p) /\ x \in 1..Len(p.entities) /\ s \in 1..Len(p.entities) /\ Distinct(p)
    BY <1>3, ReadyFacts DEF Ready, Consistent
  <1>5. Attaches(p, d, x, s)
    BY <1>1, <1>4, AttachFacts
  <1>6. IsActivity(p.entities[x]) /\ ~IsMultiInstanceActivity(p.entities[x])
    BY <1>2, <1>3, RowLike
  <1>7. /\ Ready(d, x, s) /\ Moves(p, d, x, s) /\ d.entities[x].state = "CREATED"
    BY <1>3, <1>5, <1>6, Attached
  <1>8. CtxType(d)
    BY <1>7, ReadyFacts
  <1>9. Moves(c, d, x, s)
    BY <1>1, <1>3, <1>4, <1>7, <1>8, MovesOn
  <1>10. d.entities[x].multi
    <2>1. MovedRow(c, d, x, s, x)
      BY <1>1, <1>9 DEF Moves
    <2>. QED BY <2>1 DEF MovedRow, SameRow
  <1>11. Done(d, Prepared(d, x), x, s)
    BY <1>7, <1>10, PreparedContinues
  <1>. QED BY <1>1, <1>8, <1>9, <1>11, DoneAfter

(* continueMultiInstanceExecution *)
LEMMA MultiInstanceContinues ==
  ASSUME NEW c, NEW x, NEW s, Ready(c, x, s), c.entities[x].multi
  PROVE  Done(c, ContinueMultiInstance(c, s, x), x, s)
  <1>1. /\ CtxType(c) /\ x \in 1..Len(c.entities) /\ c.entities[x] \in Row /\ StateOf(c, x, x)
    BY ReadyFacts
  <1>2. Consistent(c, x, 0) /\ NewOnce(c, x) /\ x \in 2..Len(c.entities)
    BY DEF Ready
  <1>3. /\ IsActivity(c.entities[x]) /\ ~IsMultiInstanceActivity(c.entities[x])
        /\ ~IsBoundaryEvent(c.entities[x]) /\ Type(c.entities[x]) # "startEvent"
    BY <1>1, <1>2, MultiFacts
  <1>4. c.entities[x].state # "COMPLETED"
    BY <1>1, <1>3 DEF StateOf, RowState
  <1>5. CASE ~IsActive(c.entities[x])
    <2>1. c.entities[x].state = "TERMINATED"
      BY <1>4, <1>5 DEF IsActive, Ended
    <2>2. ContinueMultiInstance(c, s, x) = AddCount(c, s, -1)
      BY <2>1 DEF ContinueMultiInstance, NextMultiInstanceState
    <2>. QED BY <1>5, <2>2, EndedContinues
  <1>6. CASE IsActive(c.entities[x])
    <2>1. /\ IsOpen(c.entities[s]) /\ ~IsUnset(c.entities[x]) /\ c.entities[x].work = 0
          /\ c.entities[x].state \in {"NEW", "CREATED", "STARTED", "SUSPENDED"}
          /\ UnsetOf(c, x) # {} => c.entities[x].state = "CREATED"
      BY <1>3, <1>6, ActiveReady DEF IsOpen, Idle
    <2>2. CASE c.entities[x].state = "STARTED"
      <3>1. UnsetOf(c, x) = {}
        BY <1>1, <2>2 DEF StateOf, RowState
      <3>2. CASE c.entities[x].context
        <4>1. PICK r : r = [c.entities[x] EXCEPT !.context = FALSE]
          OBVIOUS
        <4>2. r \in Row /\ SameRow(r, c.entities[x]) /\ r.count = c.entities[x].count /\ r.state = "STARTED"
              /\ r.work = 0
          BY <1>1, <2>1, <2>2, <4>1 DEF Row, SameRow
        <4>3. PICK d : d = Put(c, x, r)
          OBVIOUS
        <4>4. ContinueMultiInstance(c, s, x) = d
          <5>1. ContinueMultiInstance(c, s, x) = [c EXCEPT !.entities[x].context = FALSE]
            BY <2>2, <3>2 DEF ContinueMultiInstance, NextMultiInstanceState
          <5>2. c \in Contexts /\ c.entities \in Seq(Row) /\ x \in DOMAIN c.entities
            BY <1>1, CtxFacts
          <5>3. [c EXCEPT !.entities[x].context = FALSE] = [c EXCEPT !.entities[x] = [c.entities[x] EXCEPT !.context = FALSE]]
            BY <5>2 DEF Contexts
          <5>. QED BY <5>1, <5>3, <4>1, <4>3 DEF Put
        <4>5. PICK o : o = 0
          OBVIOUS
        <4>6. RowChanges(c, x, x, r, o)
          BY <1>2, <1>6, <3>1, <3>2, <4>2, <4>5, MultiStarted
        <4>7. Consistent(d, o, 0) /\ NewOnce(d, o)
          BY <1>2, <4>3, <4>6, RowChange
        <4>8. Moves(c, d, x, s)
          BY <1>1, <1>6, <4>2, <4>3, StateMoves
        <4>. QED BY <4>4, <4>5, <4>7, <4>8, AnyScope DEF Done
      <3>3. CASE ~c.entities[x].context
        <4>1. ContinueMultiInstance(c, s, x) = CompletedMultiInstance(c, s, x)
          BY <2>2, <3>3 DEF ContinueMultiInstance, NextMultiInstanceState
        <4>. QED BY <4>1, <1>3, <1>6, <2>1, <3>1, MultiInstanceCompletes
      <3>. QED BY <3>2, <3>3
    <2>3. CASE c.entities[x].state = "CREATED"
      <3>1. ContinueMultiInstance(c, s, x) = Prepared(c, x)
        BY <2>3 DEF ContinueMultiInstance, NextMultiInstanceState
      <3>. QED BY <3>1, <2>3, PreparedContinues
    <2>4. CASE c.entities[x].state = "NEW" /\ c.entities[s].state = "SUSPENDED"
      <3>1. PICK next : next = "SUSPENDED"
        OBVIOUS
      <3>2. ContinueMultiInstance(c, s, x) = SetState(c, x, next)
        BY <2>4, <3>1 DEF ContinueMultiInstance, NextMultiInstanceState
      <3>3. /\ next \in {"CREATED", "STARTED", "QUEUED", "SUSPENDED"} /\ next # "QUEUED"
            /\ next # "CREATED" /\ next # "STARTED"
        BY <3>1
      <3>. QED BY <2>1, <2>4, <3>2, <3>3, <1>3, <1>6, StateContinues
    <2>5. CASE /\ c.entities[x].state \in {"NEW", "SUSPENDED"}
               /\ ~(c.entities[x].state = "NEW" /\ c.entities[s].state = "SUSPENDED")
      <3>1. ContinueMultiInstance(c, s, x) = Prepared(AttachBoundaryEvents(SetState(c, x, "CREATED"), s, x), x)
        BY <2>5 DEF ContinueMultiInstance, NextMultiInstanceState
      <3>. QED BY <3>1, <2>1, <2>5, MultiInstanceCreated
    <2>. QED BY <2>1, <2>2, <2>3, <2>4, <2>5
  <1>. QED BY <1>5, <1>6

(* continueExecution *)
LEMMA ExecutionContinues ==
  ASSUME NEW c, NEW x, NEW s, Ready(c, x, s), ~c.entities[x].multi
  PROVE  Done(c, ContinueExecution(c, s, x), x, s)
  <1>1. /\ CtxType(c) /\ x \in 1..Len(c.entities) /\ c.entities[x] \in Row /\ StateOf(c, x, x) /\ x # 1
    BY ReadyFacts
  <1>2. Consistent(c, x, 0) /\ NewOnce(c, x) /\ x \in 2..Len(c.entities)
    BY DEF Ready
  <1>3. CASE ~IsActive(c.entities[x])
    <2>1. ContinueExecution(c, s, x) = AddCount(c, s, -1)
      BY <1>3 DEF ContinueExecution
    <2>. QED BY <1>3, <2>1, EndedContinues
  <1>4. CASE IsActive(c.entities[x])
    <2>1. PICK next : next = NextState(c.entities[s], c.entities[x])
      OBVIOUS
    <2>2. /\ c.entities[s].state \in {"STARTED", "QUEUED", "SUSPENDED"}
          /\ c.entities[s].state = "QUEUED" => Type(c.entities[x]) = "startEvent"
          /\ UnsetOf(c, x) = {} <=> c.entities[x].count = 0
          /\ UnsetOf(c, x) # {} => /\ c.entities[x].state = "CREATED" /\ c.entities[x].count < 0
                                   /\ IsActivity(c.entities[x]) /\ ~IsMultiInstanceActivity(c.entities[x])
          /\ c.entities[x].count \in Int
          /\ IsUnset(c.entities[x]) =>
               IsBoundaryEvent(c.entities[x]) /\ c.entities[x].state \in {"NEW", "CREATED", "SUSPENDED"}
          /\ c.entities[x].state \in {"NEW", "QUEUED", "CREATED", "STARTED", "SUSPENDED"}
          /\ c.entities[x].state = "QUEUED" => Type(c.entities[x]) = "startEvent"
          /\ c.entities[x].state = "NEW" => c.entities[x].work = 0
          /\ Idle(c.entities[x])
      BY <1>4, ActiveReady
    <2>3. /\ IsBoundaryEvent(c.entities[x]) => ~IsActivity(c.entities[x])
          /\ Type(c.entities[x]) = "startEvent" => ~IsBoundaryEvent(c.entities[x]) /\ ~IsActivity(c.entities[x])
          /\ IsMultiInstanceActivity(c.entities[x]) => IsActivity(c.entities[x])
      <3>1. /\ IsBoundaryEvent(c.entities[x]) => ~IsActivity(c.entities[x])
            /\ Type(c.entities[x]) = "startEvent" => ~IsBoundaryEvent(c.entities[x]) /\ ~IsActivity(c.entities[x])
        BY DEF IsBoundaryEvent, IsActivity, BoundaryEvents, Activities
      <3>2. IsMultiInstanceActivity(c.entities[x]) => IsActivity(c.entities[x])
        BY <1>1, ValidAssumption DEF IsMultiInstanceActivity, IsActivity, Type, Row
      <3>. QED BY <3>1, <3>2
    <2>4. CASE c.entities[s].state = "QUEUED"
      <3>1. next = "QUEUED"
        BY <2>1, <2>4 DEF NextState
      <3>2. CASE c.entities[x].state = "QUEUED"
        <4>1. ContinueExecution(c, s, x) = c
          BY <1>4, <2>1, <3>1, <3>2 DEF ContinueExecution
        <4>. QED BY <4>1, <1>4, <3>2, StaysAsItIs
      <3>3. CASE c.entities[x].state # "QUEUED"
        <4>1. ContinueExecution(c, s, x) = SetState(c, x, next)
          BY <1>4, <2>1, <3>1, <3>3 DEF ContinueExecution
        <4>2. next = "QUEUED" => Type(c.entities[x]) = "startEvent"
          BY <2>2, <2>4
        <4>3. UnsetOf(c, x) = {} /\ ~IsBoundaryEvent(c.entities[x])
          BY <2>2, <2>3, <2>4
        <4>. QED BY <4>1, <4>2, <4>3, <3>1, <1>4, StateContinues
      <3>. QED BY <3>2, <3>3
    <2>5. CASE IsOpen(c.entities[s]) /\ c.entities[x].state = "STARTED"
      <3>1. next = "COMPLETED"
        BY <2>1, <2>5 DEF NextState, IsOpen
      <3>2. ContinueExecution(c, s, x) = Completed(c, s, x)
        BY <1>4, <2>1, <2>5, <3>1 DEF ContinueExecution
      <3>3. UnsetOf(c, x) = {} /\ ~IsUnset(c.entities[x])
        BY <2>2, <2>5
      <3>. QED BY <1>4, <2>5, <3>2, <3>3, CompletedContinues
    <2>9. CASE /\ IsOpen(c.entities[s]) /\ c.entities[x].state # "STARTED"
               /\ c.entities[s].state = "SUSPENDED" /\ Held(c.entities[x])
      <3>1. next = "SUSPENDED"
        BY <2>1, <2>9 DEF NextState
      <3>2. CASE c.entities[x].state = "SUSPENDED"
        <4>1. ContinueExecution(c, s, x) = c
          BY <1>4, <2>1, <3>1, <3>2 DEF ContinueExecution
        <4>. QED BY <4>1, <1>4, <3>2, StaysAsItIs
      <3>3. CASE c.entities[x].state # "SUSPENDED"
        <4>1. ContinueExecution(c, s, x) = SetState(c, x, next)
          BY <1>4, <2>1, <3>1, <3>3 DEF ContinueExecution
        <4>2. UnsetOf(c, x) = {} /\ (IsBoundaryEvent(c.entities[x]) => c.entities[x].work = 0)
          <5>1. CASE Type(c.entities[x]) = "errorEnd"
            BY <5>1, <2>2 DEF IsActivity, Activities, IsBoundaryEvent, BoundaryEvents
          <5>2. CASE c.entities[x].state = "NEW"
            BY <5>2, <2>2
          <5>. QED BY <5>1, <5>2, <2>9 DEF Held
        <4>3. /\ next \in {"CREATED", "STARTED", "QUEUED", "SUSPENDED"} /\ next # "QUEUED"
              /\ next # "CREATED" /\ next # "STARTED"
          BY <3>1
        <4>. QED BY <4>1, <4>2, <4>3, <1>4, StateContinues
      <3>. QED BY <3>2, <3>3
    <2>6. CASE /\ IsOpen(c.entities[s]) /\ c.entities[x].state # "STARTED"
               /\ ~(c.entities[s].state = "SUSPENDED" /\ Held(c.entities[x]))
               /\ Prepares(c.entities[x])
      <3>1. next = "CREATED"
        BY <2>1, <2>6 DEF NextState, IsOpen
      <3>2. CASE c.entities[x].state = "CREATED"
        <4>1. ContinueExecution(c, s, x) = c
          BY <1>4, <2>1, <3>1, <3>2 DEF ContinueExecution
        <4>. QED BY <4>1, <1>4, <3>2, StaysAsItIs
      <3>3. CASE c.entities[x].state # "CREATED"
        <4>1. ContinueExecution(c, s, x) = Created(c, s, x)
          BY <1>4, <2>1, <3>1, <3>3 DEF ContinueExecution
        <4>2. CASE ~IsActivity(c.entities[x]) \/ IsMultiInstanceActivity(c.entities[x])
          <5>1. Created(c, s, x) = SetState(c, x, next)
            BY <4>2, <3>1 DEF Created
          <5>2. next = "CREATED" => Type(c.entities[x]) # "parallel"
            <6>1. ~("parallel" \in BoundaryEvents)
              BY DEF BoundaryEvents
            <6>. QED BY <2>3, <2>6, <4>2, <6>1 DEF Prepares, IsActivity, IsBoundaryEvent, Activities
          <5>3. IsMultiInstanceActivity(c.entities[x]) /\ next = "CREATED" =>
                  c.entities[x].work = 0 /\ c.entities[x].prev # 0
            <6>1. ASSUME IsMultiInstanceActivity(c.entities[x])
                  PROVE  c.entities[x].state = "NEW" /\ c.entities[x].prev # 0
              BY <6>1, <2>3, <2>6 DEF Prepares, IsActivity, IsBoundaryEvent, BoundaryEvents, Activities
            <6>2. c.entities[x].state = "NEW" => c.entities[x].work = 0
              BY <1>1 DEF StateOf, RowState
            <6>. QED BY <6>1, <6>2
          <5>4. /\ next # "QUEUED" /\ next # "STARTED" /\ next # "SUSPENDED"
                /\ next \in {"CREATED", "STARTED", "QUEUED", "SUSPENDED"}
            BY <3>1
          <5>. QED BY <4>1, <5>1, <5>2, <5>3, <5>4, <3>1, <1>4, StateContinues
        <4>3. CASE IsActivity(c.entities[x]) /\ ~IsMultiInstanceActivity(c.entities[x])
          <5>1. c.entities[x].state \in {"NEW", "SUSPENDED"}
            BY <2>2, <2>3, <2>6, <3>3, <4>3
          <5>. QED BY <4>1, <4>3, <5>1, <2>6, ActivityCreated
        <4>. QED BY <4>2, <4>3
      <3>. QED BY <3>2, <3>3
    <2>7. CASE /\ IsOpen(c.entities[s]) /\ c.entities[x].state # "STARTED"
               /\ ~(c.entities[s].state = "SUSPENDED" /\ Held(c.entities[x]))
               /\ ~Prepares(c.entities[x])
      <3>1. UnsetOf(c, x) = {} /\ ~IsBoundaryEvent(c.entities[x]) /\ ~IsUnset(c.entities[x])
        BY <2>2, <2>7 DEF Prepares, IsUnset
      <3>2. CASE Waits(c.entities[x])
        <4>1. next = "STARTED"
          BY <2>1, <2>7, <3>2 DEF NextState, IsOpen
        <4>2. ContinueExecution(c, s, x) = Started(c, s, x)
          BY <1>4, <2>1, <2>7, <4>1 DEF ContinueExecution
        <4>3. CASE Type(c.entities[x]) = "subProcess" /\ ~IsMultiInstanceActivity(c.entities[x])
          <5>1. Started(c, s, x) = EnterSubProcess(c, s, x)
            BY <4>3 DEF Started
          <5>. QED BY <4>2, <4>3, <5>1, <1>4, <2>7, <3>1, SubProcessContinues
        <4>4. CASE ~(Type(c.entities[x]) = "subProcess" /\ ~IsMultiInstanceActivity(c.entities[x]))
          <5>1. Started(c, s, x) = SetState(c, x, next)
            BY <4>1, <4>4 DEF Started
          <5>. QED BY <4>1, <4>2, <5>1, <1>4, <3>1, StateContinues
        <4>. QED BY <4>3, <4>4
      <3>3. CASE ~Waits(c.entities[x])
        <4>1. next = "COMPLETED"
          BY <2>1, <2>7, <3>3 DEF NextState, IsOpen
        <4>2. ContinueExecution(c, s, x) = Completed(c, s, x)
          BY <1>4, <2>1, <2>2, <4>1 DEF ContinueExecution
        <4>. QED BY <1>4, <2>7, <3>1, <4>2, CompletedContinues
      <3>. QED BY <3>2, <3>3
    <2>. QED BY <2>2, <2>4, <2>5, <2>6, <2>7, <2>9 DEF IsOpen
  <1>. QED BY <1>3, <1>4

(* One iteration *)

LEMMA LeastNumber ==
  ASSUME NEW T \in SUBSET Nat, T # {}
  PROVE  \E n \in T : \A m \in T : n <= m
  <1>. DEFINE R == {p \in Nat \X Nat : p[1] < p[2]}
  <1>1. IsWellFoundedOn(R, Nat)
    <2>1. OpToRel(<, Nat) = R
      BY DEF OpToRel
    <2>. QED BY NatLessThanWellFounded, <2>1
  <1>2. PICK n \in T : \A m \in T : ~ (<<m, n>> \in R)
    BY <1>1, WFMin
  <1>3. ASSUME NEW m \in T PROVE n <= m
    <2>1. <<m, n>> \notin R
      BY <1>2
    <2>2. m \in Nat /\ n \in Nat
      OBVIOUS
    <2>3. ~ (m < n)
      BY <2>1, <2>2
    <2>. QED BY <2>2, <2>3
  <1>. QED BY <1>3

(* Nothing is active in a process that has ended. *)
LEMMA AllEnded ==
  ASSUME NEW c, NEW t, NEW s, Consistent(c, t, s), ~IsActive(c.entities[1])
  PROVE  \A x \in 1..Len(c.entities) : ~IsActive(c.entities[x])
  <1>1. /\ CtxType(c) /\ ActiveWithin(c) /\ \A x \in DOMAIN c.entities : ShapeOf(c.entities, x)
    BY DEF Consistent
  <1>2. DOMAIN c.entities = 1..Len(c.entities) /\ Len(c.entities) \in Nat
    BY <1>1, CtxFacts
  <1>. DEFINE T == {x \in 1..Len(c.entities) : IsActive(c.entities[x])}
  <1>3. SUFFICES ASSUME T # {} PROVE FALSE
    OBVIOUS
  <1>4. T \in SUBSET Nat
    BY <1>2
  <1>. HIDE DEF T
  <1>5. PICK n \in T : \A m \in T : n <= m
    BY <1>3, <1>4, LeastNumber
  <1>. USE DEF T
  <1>6. n \in 1..Len(c.entities) /\ n # 1 /\ IsActive(c.entities[n])
    OBVIOUS
  <1>7. IsActive(c.entities[c.entities[n].parent])
    BY <1>1, <1>2, <1>6 DEF ActiveWithin
  <1>8. c.entities[n].parent \in 1..Len(c.entities) /\ c.entities[n].parent < n
    <2>1. ShapeOf(c.entities, n)
      BY <1>1, <1>2, <1>6
    <2>2. c.entities[n].parent \in 0..n - 1 /\ c.entities[n].parent \in 1..Len(c.entities)
      BY <1>2, <1>6, <2>1, Referred
    <2>. QED BY <2>2, <1>6, <1>2
  <1>9. c.entities[n].parent \in T
    BY <1>7, <1>8
  <1>. HIDE DEF T
  <1>10. n <= c.entities[n].parent
    BY <1>5, <1>9
  <1>. QED BY <1>2, <1>6, <1>8, <1>10

Advanced(c) == [c EXCEPT !.next = @ + 1]

(* The next execution of c is x, a is the context that continues it. *)
Taken(c, a, x) ==
  /\ Consistent(c, 0, 0) /\ Consistent(a, x, 0) /\ NewOnce(a, x)
  /\ x \in Pending(c) /\ x \notin Pending(a) /\ x \in 1..Len(a.entities)
  /\ a.entities = c.entities /\ a.list = c.list /\ a.instance = c.instance
  /\ Pending(a) \subseteq Pending(c)
  /\ \A y : Kids(a, x, y) = Kids(c, 0, y) /\ UnsetOf(a, y) = UnsetOf(c, y)

LEMMA TakesNext ==
  ASSUME NEW c, Consistent(c, 0, 0), NewOnce(c, 0), c.next <= Len(c.list),
         NEW x, x = c.list[c.next], x # 0
  PROVE  Taken(c, Advanced(c), x)
  <1>1. /\ Consistent(Advanced(c), x, 0) /\ NewOnce(Advanced(c), x)
        /\ x \in Pending(c) /\ x \notin Pending(Advanced(c)) /\ x \in 1..Len(c.entities)
        /\ \A y : Kids(Advanced(c), x, y) = Kids(c, 0, y) /\ UnsetOf(Advanced(c), y) = UnsetOf(c, y)
    BY Advance DEF Advanced
  <1>2. CtxType(c)
    BY DEF Consistent
  <1>3. c \in Contexts /\ c.next \in Nat /\ Len(c.list) \in Nat
    BY <1>2, CtxFacts
  <1>4. /\ Advanced(c).entities = c.entities /\ Advanced(c).list = c.list
        /\ Advanced(c).next = c.next + 1 /\ Advanced(c).instance = c.instance
    BY <1>3 DEF Advanced, Contexts
  <1>5. Pending(Advanced(c)) \subseteq Pending(c)
    <2>1. \A k \in c.next + 1..Len(c.list) : k \in c.next..Len(c.list)
      BY <1>3
    <2>. QED BY <2>1, <1>4 DEF Pending
  <1>. QED BY <1>1, <1>4, <1>5 DEF Taken

(* What has nothing to be waited for within it is not active, or has no count. *)
LEMMA KidsOf ==
  ASSUME NEW c, NEW x, Consistent(c, x, 0), x \notin Pending(c), x \in 1..Len(c.entities),
         c.entities[x].count <= 0 \/ ~IsActive(c.entities[x])
  PROVE  Kids(c, x, x) = {}
  <1>1. /\ CtxType(c) /\ ActiveWithin(c) /\ Order(c)
        /\ \A y \in DOMAIN c.entities : ShapeOf(c.entities, y) /\ CountedRow(c, x, y) /\ StateOf(c, y, x)
    BY DEF Consistent
  <1>2. DOMAIN c.entities = 1..Len(c.entities) /\ Len(c.entities) \in Nat /\ c.entities[x] \in Row
        /\ Pending(c) \subseteq 1..Len(c.entities)
    BY <1>1, CtxFacts
  <1>3. SUFFICES ASSUME Kids(c, x, x) # {} PROVE FALSE
    OBVIOUS
  <1>4. PICK y : y \in Kids(c, x, x)
    BY <1>3
  <1>5. /\ y \in 1..Len(c.entities) /\ c.entities[y].parent = x
        /\ IsActive(c.entities[y]) \/ y \in Pending(c) \/ y = x
    BY <1>2, <1>4 DEF Kids
  <1>6. y # 1 /\ y # x
    <2>1. c.entities[y].parent \in 0..y - 1 /\ (y = 1 => c.entities[y].parent = 0)
      BY <1>1, <1>2, <1>5, Referred
    <2>. QED BY <2>1, <1>2, <1>5
  <1>7. CASE ~IsActive(c.entities[x])
    <2>1. y \in Pending(c)
      BY <1>1, <1>2, <1>5, <1>6, <1>7 DEF ActiveWithin
    <2>2. Before(c, y, x)
      BY <2>1, <1>5, <1>6, <1>7, <1>1 DEF Order
    <2>3. x \in Pending(c)
      BY <2>2, <1>2 DEF Before, Pending
    <2>. QED BY <2>3
  <1>8. CASE IsActive(c.entities[x]) /\ c.entities[x].count <= 0
    <2>1. StateOf(c, x, x) /\ CountedRow(c, x, x)
      BY <1>1, <1>2
    <2>2. c.entities[x].state # "CREATED"
      BY <1>3, <1>8, <2>1 DEF StateOf, RowState
    <2>3. UnsetOf(c, x) = {}
      BY <1>8, <2>1, <2>2 DEF StateOf, RowState, IsActive, Ended
    <2>4. /\ Cardinality(Kids(c, x, x)) \in Nat /\ Cardinality(UnsetOf(c, x)) = 0
          /\ Cardinality(Kids(c, x, x)) # 0
      BY <1>1, <1>3, <2>3, SetsOf
    <2>5. c.entities[x].count = Cardinality(Kids(c, x, x)) - Cardinality(UnsetOf(c, x))
      BY <1>8, <2>1 DEF CountedRow
    <2>. QED BY <1>8, <2>4, <2>5
  <1>. QED BY <1>7, <1>8

(* An execution with a count is not continued itself. *)
LEMMA Passed ==
  ASSUME NEW c, NEW a, NEW x, Taken(c, a, x), a.entities[x].count > 0
  PROVE  Consistent(a, 0, 0) /\ NewOnce(a, 0)
  <1>1. /\ Consistent(a, x, 0) /\ NewOnce(a, x) /\ x \notin Pending(a) /\ x \in 1..Len(a.entities)
    BY DEF Taken
  <1>2. CtxType(a)
    BY <1>1 DEF Consistent
  <1>3. DOMAIN a.entities = 1..Len(a.entities) /\ a.entities[x] \in Row
    BY <1>1, <1>2, CtxFacts
  <1>4. CountedRow(a, x, x) /\ StateOf(a, x, x)
    BY <1>1, <1>3 DEF Consistent
  <1>5. /\ Cardinality(Kids(a, x, x)) \in Nat /\ Cardinality(UnsetOf(a, x)) \in Nat
        /\ Cardinality(Kids(a, x, x)) = 0 <=> Kids(a, x, x) = {}
    BY <1>2, SetsOf
  <1>6. a.entities[x].count \in Int
    BY <1>3 DEF Row
  <1>7. IsActive(a.entities[x])
    <2>1. SUFFICES ASSUME ~IsActive(a.entities[x]) PROVE FALSE
      OBVIOUS
    <2>2. Kids(a, x, x) = {}
      BY <1>1, <2>1, KidsOf
    <2>3. a.entities[x].count <= Cardinality(Kids(a, x, x))
      BY <2>1, <1>4 DEF CountedRow
    <2>. QED BY <2>2, <2>3, <1>5, <1>6
  <1>8. Kids(a, x, x) # {}
    <2>1. a.entities[x].count = Cardinality(Kids(a, x, x)) - Cardinality(UnsetOf(a, x))
      BY <1>4, <1>7 DEF CountedRow
    <2>. QED BY <2>1, <1>5, <1>6
  <1>9. a.entities[x].state \in {"STARTED", "QUEUED", "SUSPENDED"}
    BY <1>4, <1>7, <1>8 DEF StateOf, RowState
  <1>10. ~IsBoundaryEvent(a.entities[x])
    <2>1. ASSUME IsBoundaryEvent(a.entities[x]) PROVE FALSE
      <3>1. \A y \in 1..Len(a.entities) : a.entities[y].parent # x
        BY <2>1, <1>1, BoundaryNoScope
      <3>. QED BY <3>1, <1>3, <1>8 DEF Kids
    <2>. QED BY <2>1
  <1>. QED BY <1>1, <1>7, <1>9, <1>10, Rests

(* The scope s of x is read, if it is not in the list. *)
LEMMA ScopeRead ==
  ASSUME NEW c, NEW a, NEW x, Taken(c, a, x), a.entities[x].count <= 0, x # 1,
         NEW s, s = a.entities[x].parent, NEW d, d = WithScope(a, s)
  PROVE  /\ Ready(d, x, s) /\ d.entities = a.entities
         /\ Pending(d) \subseteq Pending(a) \cup {s}
         /\ \A y \in 1..Len(a.entities) : Listed(d, y) <=> Listed(a, y) \/ y = s
  <1>1. /\ Consistent(a, x, 0) /\ NewOnce(a, x) /\ x \notin Pending(a) /\ x \in 1..Len(a.entities)
        /\ x \in Pending(c) /\ a.entities = c.entities
    BY DEF Taken
  <1>2. CtxType(a) /\ Order(a) /\ ActiveWithin(a)
    BY <1>1 DEF Consistent
  <1>3. DOMAIN a.entities = 1..Len(a.entities) /\ Len(a.entities) \in Nat
    BY <1>2, CtxFacts
  <1>4. s \in 1..Len(a.entities) /\ s # x
    <2>1. ShapeOf(a.entities, x)
      BY <1>1, <1>3 DEF Consistent
    <2>2. a.entities[x].parent \in 0..x - 1 /\ a.entities[x].parent \in 1..Len(a.entities)
      BY <2>1, <1>1, <1>3, Referred
    <2>. QED BY <2>2, <1>1, <1>3
  <1>5. Kids(a, x, x) = {} /\ Listed(a, x)
    <2>1. a.list = c.list /\ CtxType(c)
      BY DEF Taken, Consistent
    <2>2. PICK k \in c.next..Len(c.list) : c.list[k] = x
      BY <1>1 DEF Pending
    <2>3. c.next \in Nat \ {0} /\ DOMAIN c.list = 1..Len(c.list) /\ Len(c.list) \in Nat
      BY <2>1, CtxFacts
    <2>4. k \in DOMAIN c.list
      BY <2>3
    <2>. QED BY <1>1, <2>1, <2>2, <2>4, KidsOf DEF Listed
  <1>6. CASE Listed(a, s)
    <2>1. d = a
      BY <1>6 DEF WithScope, Listed
    <2>. QED BY <2>1, <1>1, <1>3, <1>4, <1>5, <1>6 DEF Ready
  <1>7. CASE ~Listed(a, s)
    <2>1. d = AddExecutions(a, {s})
      BY <1>7 DEF WithScope, Listed, AddExecution
    <2>2. IsActive(a.entities[s]) /\ ~IsNew(s)
      <3>1. ~IsNew(s)
        BY <1>1, <1>3, <1>4, <1>7 DEF NewOnce
      <3>2. ASSUME ~IsActive(a.entities[s]) PROVE FALSE
        <4>1. Order(c) /\ a.list = c.list
          BY DEF Taken, Consistent
        <4>2. Before(c, x, s)
          BY <1>1, <3>2, <4>1 DEF Order
        <4>3. PICK k \in c.next..Len(c.list) : c.list[k] = s
          BY <4>2 DEF Before
        <4>4. CtxType(c)
          BY DEF Taken, Consistent
        <4>5. c.next \in Nat \ {0} /\ DOMAIN c.list = 1..Len(c.list) /\ Len(c.list) \in Nat
          BY <4>4, CtxFacts
        <4>6. k \in DOMAIN c.list
          BY <4>5
        <4>. QED BY <1>7, <4>1, <4>3, <4>6 DEF Listed
      <3>. QED BY <3>1, <3>2
    <2>3. \A y \in {s} : /\ IsActive(a.entities[y])
                         /\ IsNew(y) => y \notin Pending(a) /\ Kids(a, x, y) = {}
                         /\ Idle(a.entities[y])
      <3>1. x \in Kids(a, x, s)
        BY <1>1, <1>3 DEF Kids
      <3>2. StateOf(a, s, x) /\ a.entities[s] \in Row
        BY <1>1, <1>2, <1>3, <1>4, CtxFacts DEF Consistent
      <3>3. Idle(a.entities[s])
        <4>. DEFINE r == a.entities[s]
                    kids == Kids(a, x, s)
        <4>1. kids # {} /\ IsActive(r) /\ r.work \in Nat
          BY <2>2, <3>1, <3>2 DEF Row
        <4>2. IsActivity(r) /\ IsActive(r) /\ r.work > 0 => kids = {}
          BY <3>2 DEF StateOf, RowState
        <4>. HIDE DEF r, kids
        <4>3. Idle(r)
          BY <4>1, <4>2 DEF Idle
        <4>. QED BY <4>3 DEF r
      <3>. QED BY <2>2, <3>3
    <2>4. PICK S \in SUBSET (1..Len(a.entities)) : S = {s}
      BY <1>4
    <2>5. /\ Consistent(d, x, 0) /\ NewOnce(d, x)
          /\ d.entities = a.entities /\ Pending(d) = Pending(a) \cup S
          /\ \A y : y # 0 => (Listed(d, y) <=> Listed(a, y) \/ y \in S)
          /\ \A y : Kids(d, x, y) = Kids(a, x, y) /\ UnsetOf(d, y) = UnsetOf(a, y)
      BY <1>1, <2>1, <2>3, <2>4, AddActive
    <2>. QED BY <2>4, <2>5, <1>1, <1>3, <1>4, <1>5 DEF Ready
  <1>. QED BY <1>6, <1>7

(* The committed rows are consistent. *)
RowsOK == rows # <<>> => Consistent(Context(rows, <<>>), 0, 0)

(* Nothing within a is ever listed, and neither is a. *)
Untouched(c, a) ==
  \E D \in SUBSET (1..Len(rows)) :
    /\ a \in D
    /\ \A z \in 1..Len(c.entities) : c.entities[z].parent \in D => z \in D
    /\ \A z \in D \ {a} : c.entities[z].parent \in D
    /\ \A z \in D : ~Listed(c, z)

(* A boundary event, or an activity that waits for the one before it, is what *)
(* it was when the transaction began, unless what it refers to has ended.     *)
KeptRow(c, y) ==
  /\ SameRow(c.entities[y], rows[y])
  /\ IsBoundaryEvent(rows[y]) /\ rows[y].state = "CREATED" /\ c.entities[y].state # "CREATED" =>
       ~IsActive(c.entities[rows[y].prev]) \/ Untouched(c, rows[y].prev)
  /\ /\ IsMultiInstanceActivity(rows[y]) /\ rows[y].state = "CREATED"
     /\ c.entities[y].state # "CREATED" \/ y \in Pending(c)
     => ~IsActive(c.entities[rows[y].prev])

Kept(c) ==
  /\ Len(rows) <= Len(c.entities)
  /\ \A y \in 1..Len(rows) : KeptRow(c, y)

LEMMA RowsFacts ==
  ASSUME RowsOK, NEW y \in DOMAIN rows
  PROVE  /\ rows \in Seq(Row) /\ y \in 1..Len(rows) /\ Len(rows) \in Nat /\ rows[y] \in Row
         /\ ShapeOf(rows, y) /\ Consistent(Context(rows, <<>>), 0, 0)
         /\ StateOf(Context(rows, <<>>), y, 0) /\ CountedRow(Context(rows, <<>>), 0, y)
         /\ Context(rows, <<>>).entities = rows
         /\ Pending(Context(rows, <<>>)) = {} /\ \A x : ~Listed(Context(rows, <<>>), x)
  <1>. DEFINE c == Context(rows, <<>>)
  <1>1. c.entities = rows /\ c.list = <<>> /\ c.next = 1
    BY DEF Context
  <1>2. Consistent(c, 0, 0)
    BY DEF RowsOK
  <1>. HIDE DEF c
  <1>3. CtxType(c)
    BY <1>2 DEF Consistent
  <1>4. c.entities \in Seq(Row) /\ DOMAIN c.entities = 1..Len(c.entities) /\ Len(c.entities) \in Nat
        /\ \A x \in 1..Len(c.entities) : c.entities[x] \in Row
    BY <1>3, CtxFacts
  <1>5. ShapeOf(rows, y) /\ StateOf(c, y, 0) /\ CountedRow(c, 0, y)
    BY <1>1, <1>2 DEF Consistent
  <1>6. Pending(c) = {} /\ \A x : ~Listed(c, x)
    <2>1. \A k \in c.next..Len(c.list) : FALSE
      BY <1>1
    <2>2. \A k \in DOMAIN c.list : FALSE
      BY <1>1
    <2>. QED BY <2>1, <2>2 DEF Pending, Listed
  <1>. QED BY <1>1, <1>2, <1>4, <1>5, <1>6 DEF c

(* What is attached to x, as it has been committed. *)
LEMMA AttachedRows ==
  ASSUME RowsOK, NEW x, NEW y \in AttachedTo(x), x # 0
  PROVE  /\ y \in 1..Len(rows) /\ rows[y] \in Row /\ x \in 1..Len(rows) /\ x < y
         /\ rows[y].state = "CREATED" /\ rows[y].prev = x /\ rows[x].parent = rows[y].parent
         /\ y # 1 /\ x # 1
         /\ IsMultiInstanceActivity(rows[x]) <=> IsMultiInstanceActivity(rows[y])
         /\ ~IsMultiInstanceActivity(rows[y]) => IsBoundaryEvent(rows[y]) /\ rows[y].count <= 0
  <1>1. y \in DOMAIN rows /\ rows[y].prev = x /\ rows[y].state = "CREATED"
    BY DEF AttachedTo
  <1>2. PICK c : c = Context(rows, <<>>)
    OBVIOUS
  <1>3. /\ rows \in Seq(Row) /\ y \in 1..Len(rows) /\ Len(rows) \in Nat /\ rows[y] \in Row
        /\ ShapeOf(rows, y) /\ StateOf(c, y, 0) /\ CountedRow(c, 0, y) /\ Consistent(c, 0, 0)
        /\ c.entities = rows
    BY <1>1, <1>2, RowsFacts
  <1>4. Type(rows[y]) # "parallel"
    BY <1>1, <1>3 DEF StateOf, RowState
  <1>5. IsBoundaryEvent(rows[y]) \/ IsMultiInstanceActivity(rows[y])
    BY <1>1, <1>3, <1>4 DEF ShapeOf
  <1>6. x \in 1..Len(rows) /\ x < y
    <2>1. rows[y].prev \in 0..y - 1
      BY <1>3, Referred
    <2>. QED BY <2>1, <1>1, <1>3
  <1>7. rows[x].parent = rows[y].parent /\ y # 1
    <2>1. rows[x].parent = rows[y].parent
      BY <1>1, <1>3, <1>5 DEF ShapeOf
    <2>. QED BY <2>1, <1>3, <1>6
  <1>8. x # 1 /\ ShapeOf(rows, x) /\ rows[y].parent # 0
    <2>1. ShapeOf(rows, x)
      BY <1>3, <1>6, RowsFacts
    <2>2. rows[y].parent # 0
      BY <1>3, <1>7 DEF ShapeOf
    <2>. QED BY <2>1, <2>2, <1>7 DEF ShapeOf
  <1>9. IsMultiInstanceActivity(rows[x]) <=> IsMultiInstanceActivity(rows[y])
    BY <1>3, <1>7, <1>8 DEF ShapeOf
  <1>10. ASSUME IsBoundaryEvent(rows[y]) PROVE rows[y].count <= 0
    <2>1. IsActive(rows[y])
      BY <1>1 DEF IsActive, Ended
    <2>2. Kids(c, 0, y) = {}
      <3>1. y \in 1..Len(c.entities) /\ IsBoundaryEvent(c.entities[y])
        BY <1>3, <1>10
      <3>2. \A z \in 1..Len(c.entities) : c.entities[z].parent # y
        BY <3>1, <1>3, BoundaryNoScope
      <3>3. DOMAIN c.entities = 1..Len(c.entities)
        BY <1>3
      <3>. QED BY <3>2, <3>3 DEF Kids
    <2>3. CtxType(c)
      BY <1>3 DEF Consistent
    <2>4. Cardinality(Kids(c, 0, y)) = 0 /\ Cardinality(UnsetOf(c, y)) \in Nat
      BY <2>2, <2>3, SetsOf
    <2>5. rows[y].count = Cardinality(Kids(c, 0, y)) - Cardinality(UnsetOf(c, y))
      BY <1>3, <2>1 DEF CountedRow
    <2>. QED BY <2>4, <2>5
  <1>. QED BY <1>1, <1>3, <1>5, <1>6, <1>7, <1>8, <1>9, <1>10

(* The execution x of c has been continued within s: d is c with its scope    *)
(* read, and e is what this has led to.                                       *)
Continuing(c, d, e, x, s) ==
  /\ RowsOK /\ CtxType(c) /\ Kept(c) /\ d.entities = c.entities /\ x \in Pending(c)
  /\ StateOf(c, x, 0) /\ Ready(d, x, s) /\ Done(d, e, x, s)
  /\ e = IF d.entities[x].multi THEN ContinueMultiInstance(d, s, x) ELSE ContinueExecution(d, s, x)

LEMMA ContinuingFacts ==
  ASSUME NEW c, NEW d, NEW e, NEW x, NEW s, Continuing(c, d, e, x, s)
  PROVE  /\ CtxType(d) /\ CtxType(e) /\ Len(c.entities) <= Len(e.entities)
         /\ Len(c.entities) \in Nat /\ Len(e.entities) \in Nat
         /\ x \in 1..Len(c.entities) /\ s \in 1..Len(c.entities) /\ s < x
         /\ \A y \in 1..Len(c.entities) :
              /\ SameRow(e.entities[y], c.entities[y])
              /\ y # x => e.entities[y].state = c.entities[y].state
              /\ ~IsActive(c.entities[y]) => ~IsActive(e.entities[y])
         /\ Len(rows) <= Len(c.entities) /\ Listed(c, x)
  <1>1. Ready(d, x, s) /\ Done(d, e, x, s) /\ d.entities = c.entities
    BY DEF Continuing
  <1>2. CtxType(d) /\ x \in 1..Len(c.entities) /\ s \in 1..Len(c.entities) /\ s < x
    BY <1>1, ReadyFacts
  <1>3. CtxType(e) /\ Moves(d, e, x, s)
    BY <1>1 DEF Done, Consistent
  <1>4. Len(c.entities) \in Nat /\ Len(e.entities) \in Nat
    BY <1>1, <1>2, <1>3, CtxFacts
  <1>5. CtxType(c) /\ x \in Pending(c) /\ Kept(c)
    BY DEF Continuing
  <1>6. Listed(c, x)
    <2>1. c.next \in Nat \ {0} /\ Len(c.list) \in Nat /\ DOMAIN c.list = 1..Len(c.list)
      BY <1>5, CtxFacts
    <2>2. PICK k \in c.next..Len(c.list) : c.list[k] = x
      BY <1>5 DEF Pending
    <2>. QED BY <2>1, <2>2 DEF Listed
  <1>. QED BY <1>1, <1>2, <1>3, <1>4, <1>5, <1>6 DEF Moves, MovedRow, Kept

(* An activity that is completed has been active until now. *)
LEMMA JustCompleted ==
  ASSUME NEW c, NEW d, NEW e, NEW x, NEW s, Continuing(c, d, e, x, s),
         IsActivity(e.entities[x]), e.entities[x].state = "COMPLETED"
  PROVE  /\ IsActive(c.entities[x]) /\ IsActive(e.entities[s])
         /\ UnsetOf(e, x) = {}
  <1>1. /\ x \in 1..Len(c.entities) /\ s \in 1..Len(c.entities) /\ s < x /\ CtxType(d) /\ CtxType(e)
        /\ Len(c.entities) \in Nat /\ Len(c.entities) <= Len(e.entities) /\ Len(e.entities) \in Nat
        /\ \A y \in 1..Len(c.entities) :
             /\ SameRow(e.entities[y], c.entities[y])
             /\ y # x => e.entities[y].state = c.entities[y].state
    BY ContinuingFacts
  <1>2. /\ Ready(d, x, s) /\ StateOf(c, x, 0) /\ x \in Pending(c) /\ d.entities = c.entities
        /\ e = IF d.entities[x].multi THEN ContinueMultiInstance(d, s, x) ELSE ContinueExecution(d, s, x)
    BY DEF Continuing
  <1>3. IsActivity(c.entities[x])
    BY <1>1, RowLike
  <1>4. c.entities[x].state # "COMPLETED"
    BY <1>2, <1>3 DEF StateOf, RowState
  <1>5. IsActive(c.entities[x])
    <2>1. SUFFICES ASSUME ~IsActive(c.entities[x]) PROVE FALSE
      OBVIOUS
    <2>2. d.entities[x].state = "TERMINATED"
      BY <1>2, <1>4, <2>1 DEF IsActive, Ended
    <2>3. e = AddCount(d, s, -1)
      <3>1. ContinueMultiInstance(d, s, x) = AddCount(d, s, -1)
        BY <2>2 DEF ContinueMultiInstance, NextMultiInstanceState
      <3>2. ContinueExecution(d, s, x) = AddCount(d, s, -1)
        BY <1>2, <2>1 DEF ContinueExecution
      <3>. QED BY <1>2, <3>1, <3>2
    <2>4. PICK r \in Row : e = Put(d, s, r)
      <3>1. -1 \in Int /\ s \in 1..Len(d.entities)
        BY <1>1, <1>2
      <3>. QED BY <3>1, <1>1, <2>3, CountIs
    <2>5. e.entities[x] = d.entities[x]
      <3>1. s \in 1..Len(d.entities) /\ x \in 1..Len(d.entities) /\ x # s
        BY <1>1, <1>2
      <3>. QED BY <3>1, <1>1, <2>4, PutFacts
    <2>. QED BY <2>2, <2>5
  <1>6. IsActive(c.entities[s])
    BY <1>2, <1>5, ReadyFacts
  <1>7. IsActive(e.entities[s])
    <2>1. e.entities[s].state = c.entities[s].state
      BY <1>1
    <2>. QED BY <2>1, <1>6 DEF IsActive
  <1>8. UnsetOf(e, x) = {}
    <2>1. Consistent(e, 0, s)
      BY DEF Continuing, Done
    <2>2. x \in DOMAIN e.entities
      BY <1>1, CtxFacts
    <2>3. StateOf(e, x, 0)
      BY <2>1, <2>2 DEF Consistent
    <2>. QED BY <2>3 DEF StateOf, RowState
  <1>. QED BY <1>5, <1>7, <1>8

(* What is attached to a completed activity is still what it was. *)
LEMMA StillAttached ==
  ASSUME NEW c, NEW d, NEW e, NEW x, NEW s, Continuing(c, d, e, x, s),
         IsActivity(e.entities[x]), e.entities[x].state = "COMPLETED", NEW y \in AttachedTo(x)
  PROVE  /\ y \in 1..Len(c.entities) /\ y \in 1..Len(e.entities) /\ ~IsNew(y)
         /\ IsActive(e.entities[y]) /\ e.entities[y].state = "CREATED"
         /\ SameRow(e.entities[y], rows[y]) /\ rows[y] \in Row /\ e.entities[y].parent = s
         /\ IsMultiInstanceActivity(e.entities[x]) <=> IsMultiInstanceActivity(e.entities[y])
         /\ ~IsMultiInstanceActivity(e.entities[x]) =>
              IsBoundaryEvent(e.entities[y]) /\ rows[y].count <= 0 /\ ~IsUnset(e.entities[y])
  <1>1. /\ x \in 1..Len(c.entities) /\ s \in 1..Len(c.entities) /\ s < x /\ CtxType(d) /\ CtxType(e)
        /\ Len(c.entities) \in Nat /\ Len(c.entities) <= Len(e.entities) /\ Len(e.entities) \in Nat
        /\ \A z \in 1..Len(c.entities) :
             /\ SameRow(e.entities[z], c.entities[z])
             /\ z # x => e.entities[z].state = c.entities[z].state
        /\ Len(rows) <= Len(c.entities) /\ Listed(c, x)
    BY ContinuingFacts
  <1>2. IsActive(c.entities[x]) /\ IsActive(e.entities[s]) /\ UnsetOf(e, x) = {}
    BY JustCompleted
  <1>3. RowsOK /\ Kept(c) /\ x # 0 /\ Ready(d, x, s) /\ d.entities = c.entities
    BY <1>1 DEF Continuing
  <1>4. /\ y \in 1..Len(rows) /\ rows[y] \in Row /\ x \in 1..Len(rows) /\ x < y
        /\ rows[y].state = "CREATED" /\ rows[y].prev = x /\ rows[x].parent = rows[y].parent
        /\ IsMultiInstanceActivity(rows[x]) <=> IsMultiInstanceActivity(rows[y])
        /\ ~IsMultiInstanceActivity(rows[y]) => IsBoundaryEvent(rows[y]) /\ rows[y].count <= 0
    BY <1>3, AttachedRows
  <1>5. KeptRow(c, y) /\ KeptRow(c, x)
    BY <1>3, <1>4 DEF Kept
  <1>6. ~Untouched(c, x)
    BY <1>1 DEF Untouched
  <1>7. c.entities[y].state = "CREATED"
    BY <1>2, <1>4, <1>5, <1>6 DEF KeptRow
  <1>8. y \in 1..Len(c.entities) /\ y \in 1..Len(e.entities) /\ y # x /\ Len(rows) \in Nat
    <2>1. Len(rows) \in Nat
      BY <1>3, <1>4, RowsFacts
    <2>. QED BY <2>1, <1>1, <1>4
  <1>9. e.entities[y].state = "CREATED" /\ SameRow(e.entities[y], c.entities[y])
    BY <1>1, <1>7, <1>8
  <1>10. IsActive(e.entities[y]) /\ ~IsNew(y)
    BY <1>4, <1>8, <1>9 DEF IsActive, Ended, IsNew
  <1>11. SameRow(e.entities[y], rows[y]) /\ SameRow(e.entities[x], rows[x])
    BY <1>1, <1>5, <1>9 DEF SameRow, KeptRow
  <1>12. e.entities[y].parent = s
    <2>1. s = c.entities[x].parent
      BY <1>3 DEF Ready
    <2>2. rows[x].parent = s
      BY <2>1, <1>5 DEF KeptRow, SameRow
    <2>. QED BY <2>2, <1>4, <1>11 DEF SameRow
  <1>13. /\ IsMultiInstanceActivity(e.entities[x]) <=> IsMultiInstanceActivity(rows[x])
         /\ IsMultiInstanceActivity(e.entities[y]) <=> IsMultiInstanceActivity(rows[y])
         /\ IsBoundaryEvent(e.entities[y]) <=> IsBoundaryEvent(rows[y])
         /\ e.entities[y].prev = rows[y].prev
    BY <1>11, RowLike
  <1>14. ~IsUnset(e.entities[y])
    <2>1. y \in DOMAIN e.entities
      BY <1>1, <1>8, CtxFacts
    <2>. QED BY <2>1, <1>2, <1>4, <1>13 DEF UnsetOf
  <1>. QED BY <1>4, <1>8, <1>9, <1>10, <1>11, <1>12, <1>13, <1>14

(* f is e with the executions A added to the list. *)
Added(e, f, A) ==
  /\ f.entities = e.entities /\ Pending(f) = Pending(e) \cup A
  /\ \A y : y # 0 => (Listed(f, y) <=> Listed(e, y) \/ y \in A)

LEMMA SequenceGoesOn ==
  ASSUME NEW c, NEW d, NEW e, NEW x, NEW s, Continuing(c, d, e, x, s),
         NEW f, f = ContinueSequence(e, x)
  PROVE  /\ Consistent(f, 0, s) /\ NewOnce(f, 0)
         /\ \E A \in SUBSET AttachedTo(x) :
              /\ Added(e, f, A) /\ \A y \in A : y \in 1..Len(c.entities) /\ ~IsNew(y)
              /\ A # {} => e.entities[x].state = "COMPLETED" /\ IsMultiInstanceActivity(e.entities[x])
  <1>1. Consistent(e, 0, s) /\ NewOnce(e, 0)
    BY DEF Continuing, Done
  <1>2. CtxType(e) /\ x \in 1..Len(c.entities) /\ Len(c.entities) <= Len(e.entities)
        /\ Len(c.entities) \in Nat /\ Len(e.entities) \in Nat
    BY ContinuingFacts
  <1>3. e.entities[x] \in Row
    BY <1>2, CtxFacts
  <1>4. PICK A : A = IF /\ IsMultiInstanceActivity(e.entities[x]) /\ e.entities[x].state = "COMPLETED"
                        /\ Graph[e.entities[x].element].sequential
                     THEN AttachedTo(x) ELSE {}
    OBVIOUS
  <1>5. f = AddExecutions(e, A)
    BY <1>4 DEF ContinueSequence
  <1>6. ASSUME A # {}
        PROVE  /\ IsMultiInstanceActivity(e.entities[x]) /\ e.entities[x].state = "COMPLETED"
               /\ IsActivity(e.entities[x])
    <2>1. IsMultiInstanceActivity(e.entities[x]) /\ e.entities[x].state = "COMPLETED"
      BY <1>4, <1>6
    <2>. QED BY <2>1, <1>3, ValidAssumption DEF IsMultiInstanceActivity, IsActivity, Type, Row
  <1>7. ASSUME NEW y \in A
        PROVE  /\ y \in 1..Len(c.entities) /\ y \in 1..Len(e.entities) /\ ~IsNew(y)
               /\ IsActive(e.entities[y]) /\ y \in AttachedTo(x)
    <2>1. y \in AttachedTo(x)
      BY <1>4
    <2>. QED BY <2>1, <1>6, StillAttached
  <1>8. PICK S \in SUBSET (1..Len(e.entities)) : S = A
    BY <1>7
  <1>9. PICK o : o = 0
    OBVIOUS
  <1>10. ASSUME NEW y \in S
         PROVE  /\ IsActive(e.entities[y])
                /\ IsNew(y) => y \notin Pending(e) /\ Kids(e, o, y) = {}
                /\ Idle(e.entities[y])
    <2>1. /\ y \in 1..Len(e.entities) /\ ~IsNew(y) /\ IsActive(e.entities[y])
          /\ y \in AttachedTo(x) /\ A # {}
      BY <1>7, <1>8
    <2>2. e.entities[y].state = "CREATED" /\ IsMultiInstanceActivity(e.entities[y])
      BY <2>1, <1>6, StillAttached
    <2>3. StateOf(e, y, 0)
      BY <2>1, <1>1, <1>2, CtxFacts DEF Consistent
    <2>4. Idle(e.entities[y])
      BY <2>2, <2>3 DEF StateOf, RowState, Idle
    <2>. QED BY <2>1, <2>4
  <1>11. /\ Consistent(f, o, s) /\ NewOnce(f, o)
         /\ f.entities = e.entities /\ Pending(f) = Pending(e) \cup S
         /\ \A y : y # 0 => (Listed(f, y) <=> Listed(e, y) \/ y \in S)
    BY <1>1, <1>5, <1>8, <1>9, <1>10, AddActive
  <1>12. Added(e, f, A)
    BY <1>8, <1>11 DEF Added
  <1>13. A \in SUBSET AttachedTo(x)
    BY <1>7
  <1>. QED BY <1>6, <1>7, <1>9, <1>11, <1>12, <1>13

Terminated(r) == [r EXCEPT !.state = "TERMINATED"]

(* g is f with the boundary events B, as they have been read, terminated and  *)
(* added to the list.                                                         *)
EndedIn(f, g, B) ==
  /\ CtxType(g) /\ Len(g.entities) = Len(f.entities) /\ g.instance = f.instance
  /\ Extended(f, g, B)
  /\ \A y \in 1..Len(f.entities) : g.entities[y] = IF y \in B THEN Terminated(rows[y]) ELSE f.entities[y]

LEMMA EndedInFacts ==
  ASSUME NEW f, NEW B, CtxType(f), Distinct(f), B \subseteq 1..Len(f.entities),
         \A y \in B : ~IsNew(y) /\ rows[y] \in Row,
         NEW g, g = AddExecutions([f EXCEPT !.entities =
                      [y \in DOMAIN @ |-> IF y \in B THEN Terminated(rows[y]) ELSE @[y]]], B)
  PROVE  EndedIn(f, g, B)
  <1>. DEFINE e == [y \in DOMAIN f.entities |-> IF y \in B THEN Terminated(rows[y]) ELSE f.entities[y]]
              p == [f EXCEPT !.entities = e]
  <1>1. /\ f \in Contexts /\ f.entities \in Seq(Row) /\ Len(f.entities) \in Nat \ {0}
        /\ DOMAIN f.entities = 1..Len(f.entities) /\ f.list \in Seq(0..Len(f.entities))
        /\ f.next <= Len(f.list) + 1
        /\ \A y \in 1..Len(f.entities) : f.entities[y] \in Row
    BY CtxFacts
  <1>2. \A y \in B : Terminated(rows[y]) \in Row
    BY DEF Terminated, Row, InstanceState, Ended
  <1>3. e \in [1..Len(f.entities) -> Row]
    BY <1>1, <1>2
  <1>4. e \in Seq(Row) /\ Len(e) = Len(f.entities)
    BY <1>1, <1>3
  <1>5. /\ p.entities = e /\ p.list = f.list /\ p.next = f.next /\ p.instance = f.instance
        /\ p \in Contexts
    BY <1>1, <1>4 DEF Contexts
  <1>6. \A y \in 1..Len(f.entities) : e[y] = IF y \in B THEN Terminated(rows[y]) ELSE f.entities[y]
    BY <1>1
  <1>7. g = AddExecutions(p, B)
    <2>1. [f EXCEPT !.entities = [y \in DOMAIN @ |-> IF y \in B THEN Terminated(rows[y]) ELSE @[y]]] = p
      BY <1>1 DEF Contexts
    <2>. QED BY <2>1
  <1>. HIDE DEF e, p
  <1>8. CtxType(p)
    <2>1. p.entities # <<>>
      BY <1>1, <1>4, <1>5
    <2>. QED BY <2>1, <1>1, <1>4, <1>5 DEF CtxType
  <1>9. /\ Distinct(p) /\ Pending(p) = Pending(f)
        /\ \A y : Listed(p, y) <=> Listed(f, y)
        /\ \A y, z : Before(p, y, z) <=> Before(f, y, z)
    BY <1>5, SameList
  <1>10. PICK S \in SUBSET (1..Len(p.entities)) : S = B
    BY <1>4, <1>5
  <1>11. Extended(p, g, S) /\ g \in Contexts /\ g.entities = p.entities /\ g.instance = p.instance
    <2>1. \A y \in S : IsNew(y) => y \notin Pending(p)
      BY <1>10
    <2>. QED BY <2>1, <1>7, <1>8, <1>9, <1>10, AddExecutionsExtends
  <1>12. Extended(f, g, B)
    BY <1>5, <1>9, <1>10, <1>11 DEF Extended
  <1>13. CtxType(g)
    <2>1. g.list \in Seq(0..Len(g.entities)) /\ g.next <= Len(g.list) + 1 /\ g.entities # <<>>
      BY <1>8, <1>11 DEF Extended, CtxType
    <2>. QED BY <2>1, <1>11 DEF CtxType
  <1>. QED BY <1>4, <1>5, <1>6, <1>11, <1>12, <1>13 DEF EndedIn

LEMMA BoundaryEventsEnd ==
  ASSUME NEW c, NEW d, NEW e, NEW x, NEW s, Continuing(c, d, e, x, s),
         NEW f, Consistent(f, 0, s), NewOnce(f, 0), f.entities = e.entities,
         NEW g, g = EndBoundaryEvents(f, x)
  PROVE  /\ Consistent(g, 0, s) /\ NewOnce(g, 0)
         /\ \E B \in SUBSET AttachedTo(x) :
              /\ EndedIn(f, g, B)
              /\ \A y \in B : /\ y \in 1..Len(c.entities) /\ ~IsNew(y) /\ rows[y] \in Row
                              /\ SameRow(rows[y], e.entities[y]) /\ IsBoundaryEvent(e.entities[y])
              /\ B # {} => e.entities[x].state = "COMPLETED"
  <1>1. /\ CtxType(e) /\ x \in 1..Len(c.entities) /\ Len(c.entities) <= Len(e.entities)
        /\ Len(c.entities) \in Nat /\ Len(e.entities) \in Nat
    BY ContinuingFacts
  <1>2. CtxType(f) /\ Distinct(f)
    BY DEF Consistent
  <1>3. PICK B : B = IF /\ IsActivity(e.entities[x]) /\ e.entities[x].state = "COMPLETED"
                        /\ ~IsMultiInstanceActivity(e.entities[x])
                     THEN AttachedTo(x) ELSE {}
    OBVIOUS
  <1>4. g = AddExecutions([f EXCEPT !.entities =
                      [y \in DOMAIN @ |-> IF y \in B THEN Terminated(rows[y]) ELSE @[y]]], B)
    BY <1>3 DEF EndBoundaryEvents, Terminated
  <1>5. ASSUME NEW y \in B
        PROVE  /\ y \in 1..Len(c.entities) /\ y \in 1..Len(e.entities) /\ ~IsNew(y)
               /\ IsActive(e.entities[y]) /\ SameRow(e.entities[y], rows[y]) /\ rows[y] \in Row
               /\ e.entities[y].parent = s /\ IsBoundaryEvent(e.entities[y]) /\ rows[y].count <= 0
               /\ ~IsUnset(e.entities[y]) /\ y \in AttachedTo(x)
    <2>1. /\ y \in AttachedTo(x) /\ IsActivity(e.entities[x]) /\ e.entities[x].state = "COMPLETED"
          /\ ~IsMultiInstanceActivity(e.entities[x])
      BY <1>3
    <2>. QED BY <2>1, StillAttached
  <1>6. EndedIn(f, g, B)
    <2>1. B \subseteq 1..Len(f.entities)
      BY <1>5
    <2>2. \A y \in B : ~IsNew(y) /\ rows[y] \in Row
      BY <1>5
    <2>. QED BY <2>1, <2>2, <1>2, <1>4, EndedInFacts
  <1>7. /\ CtxType(g) /\ Len(g.entities) = Len(f.entities) /\ g.instance = f.instance
        /\ Extended(f, g, B)
        /\ \A y \in 1..Len(f.entities) : g.entities[y] = IF y \in B THEN Terminated(rows[y]) ELSE f.entities[y]
    BY <1>6 DEF EndedIn
  <1>8. CASE B = {}
    <2>1. f \in Contexts /\ f.entities \in Seq(Row) /\ DOMAIN f.entities = 1..Len(f.entities)
      BY <1>2, CtxFacts
    <2>2. [y \in DOMAIN f.entities |-> IF y \in B THEN Terminated(rows[y]) ELSE f.entities[y]] = f.entities
      BY <1>8, <2>1
    <2>3. [f EXCEPT !.entities = [y \in DOMAIN @ |-> IF y \in B THEN Terminated(rows[y]) ELSE @[y]]] = f
      BY <2>1, <2>2 DEF Contexts
    <2>4. g = AddExecutions(f, B)
      BY <1>4, <2>3
    <2>5. PICK o : o = 0
      OBVIOUS
    <2>6. \A y \in B : /\ IsActive(f.entities[y])
                       /\ IsNew(y) => y \notin Pending(f) /\ Kids(f, o, y) = {}
                       /\ Idle(f.entities[y])
      BY <1>8
    <2>7. B \in SUBSET (1..Len(f.entities))
      BY <1>8
    <2>8. Consistent(g, o, s) /\ NewOnce(g, o)
      BY <2>4, <2>5, <2>6, <2>7, AddActive
    <2>. QED BY <2>5, <2>8, <1>6, <1>8
  <1>9. CASE B # {}
    <2>1. e.entities[x].state = "COMPLETED" /\ IsActivity(e.entities[x])
      BY <1>3, <1>9
    <2>2. IsActive(e.entities[s])
      BY <2>1, JustCompleted
    <2>3. B \in SUBSET (1..Len(f.entities))
      BY <1>5
    <2>4. \A y \in 1..Len(f.entities) \ B : g.entities[y] = f.entities[y]
      BY <1>7
    <2>5. \A b \in B : /\ IsBoundaryEvent(f.entities[b]) /\ IsActive(f.entities[b])
                       /\ f.entities[b].parent = s /\ ~IsUnset(f.entities[b]) /\ ~IsNew(b)
                       /\ SameRow(g.entities[b], f.entities[b])
                       /\ g.entities[b].state = "TERMINATED" /\ g.entities[b].count <= 0
      <3>1. ASSUME NEW b \in B
            PROVE  /\ SameRow(g.entities[b], f.entities[b])
                   /\ g.entities[b].state = "TERMINATED" /\ g.entities[b].count <= 0
        <4>1. g.entities[b] = Terminated(rows[b]) /\ rows[b] \in Row /\ rows[b].count <= 0
          BY <1>5, <1>7
        <4>2. /\ SameRow(g.entities[b], rows[b]) /\ g.entities[b].state = "TERMINATED"
              /\ g.entities[b].count <= 0
          BY <4>1 DEF Terminated, SameRow, Row
        <4>3. SameRow(f.entities[b], rows[b])
          BY <1>5
        <4>. QED BY <4>2, <4>3 DEF SameRow
      <3>. QED BY <3>1, <1>5
    <2>6. Consistent(g, 0, s) /\ NewOnce(g, 0)
      BY <2>2, <2>3, <2>4, <2>5, <1>7, EndAttached
    <2>. QED BY <2>1, <2>6, <1>5, <1>6 DEF SameRow
  <1>. QED BY <1>8, <1>9

(* What is done about the scope s of an execution. *)
LEMMA ScopeEnded ==
  ASSUME NEW c, NEW s, Consistent(c, 0, s), NewOnce(c, 0), s \in 1..Len(c.entities),
         IsNew(s) /\ s # 1 /\ IsActive(c.entities[s]) => s \notin Pending(c),
         NEW d, d = EndScope(c, s)
  PROVE  /\ Len(d.entities) = Len(c.entities) /\ Pending(d) \subseteq Pending(c) \cup {s}
         /\ \A y \in 1..Len(c.entities) :
              /\ y # 1 => d.entities[y] = c.entities[y]
              /\ SameRow(d.entities[y], c.entities[y])
              /\ ~IsActive(c.entities[y]) => ~IsActive(d.entities[y])
              /\ Listed(d, y) => Listed(c, y) \/ y = s
         /\ ~IsActive(c.entities[s]) =>
              Pending(d) = Pending(c) /\ \A y : Listed(d, y) <=> Listed(c, y)
  <1>1. CtxType(c) /\ Distinct(c)
    BY DEF Consistent
  <1>2. /\ DOMAIN c.entities = 1..Len(c.entities) /\ Len(c.entities) \in Nat
        /\ c \in Contexts
    BY <1>1, CtxFacts
  <1>3. CASE d = c
    BY <1>3 DEF SameRow
  <1>4. CASE Type(c.entities[s]) = "process" /\ d # c
    <2>1. s = 1
      <3>1. ShapeOf(c.entities, s)
        BY <1>2 DEF Consistent
      <3>. QED BY <3>1, <1>4 DEF ShapeOf
    <2>2. "COMPLETED" \in InstanceState
      BY DEF InstanceState, Ended
    <2>3. PICK r \in Row : /\ r = WithState(c, s, "COMPLETED") /\ SetState(c, s, "COMPLETED") = Put(c, s, r)
                           /\ r.state = "COMPLETED" /\ SameRow(r, c.entities[s])
      BY <1>1, <2>2, StateIs DEF Put
    <2>4. PICK p : p = Put(c, s, r)
      OBVIOUS
    <2>5. /\ CtxType(p) /\ Len(p.entities) = Len(c.entities)
          /\ p.list = c.list /\ p.next = c.next /\ p.entities[s] = r
          /\ \A y \in 1..Len(c.entities) : y # s => p.entities[y] = c.entities[y]
      BY <1>1, <2>4, PutFacts
    <2>6. d = [p EXCEPT !.instance = "COMPLETED"]
      BY <1>4, <2>3, <2>4 DEF EndScope
    <2>7. d.entities = p.entities /\ d.list = c.list /\ d.next = c.next
      BY <2>5, <2>6 DEF CtxType, Contexts
    <2>8. Pending(d) = Pending(c) /\ \A y : Listed(d, y) <=> Listed(c, y)
      BY <2>7, SameList
    <2>9. ~IsActive(r)
      BY <2>3 DEF IsActive, Ended
    <2>. QED BY <2>1, <2>3, <2>5, <2>7, <2>8, <2>9 DEF SameRow
  <1>5. CASE Type(c.entities[s]) # "process" /\ d # c
    <2>1. d = AddExecutions(c, {s}) /\ IsActive(c.entities[s]) /\ c.entities[s].count = 0
      BY <1>5 DEF EndScope, AddExecution, IsActive, Ended
    <2>2. PICK S \in SUBSET (1..Len(c.entities)) : S = {s}
      OBVIOUS
    <2>3. s # 1
      <3>1. ShapeOf(c.entities, s)
        BY <1>2 DEF Consistent
      <3>. QED BY <3>1, <1>5 DEF ShapeOf
    <2>4. \A y \in S : IsNew(y) => y \notin Pending(c)
      BY <2>1, <2>2, <2>3
    <2>5. Extended(c, d, S) /\ d.entities = c.entities
      BY <2>4, <2>1, <2>2, <1>1, AddExecutionsExtends
    <2>6. \A y \in 1..Len(c.entities) : y # 0
      BY <1>2
    <2>. QED BY <2>1, <2>2, <2>5, <2>6 DEF Extended, SameRow
  <1>. QED BY <1>3, <1>4, <1>5

(* What an iteration makes of c: the execution x changes and the counts of    *)
(* its scope s, and what is in A, which has been attached to x, goes on or is *)
(* ended.                                                                     *)
LedRow(c, h, x, s, A, y) ==
  /\ SameRow(h.entities[y], c.entities[y])
  /\ h.entities[y].state = c.entities[y].state \/ y \in {1, x}
       \/ (y \in A /\ IsBoundaryEvent(c.entities[y]))
  /\ ~IsActive(c.entities[y]) => ~IsActive(h.entities[y])
  /\ y \in Pending(h) => y \in Pending(c) \/ y = s \/ y \in A
  /\ Listed(h, y) => Listed(c, y) \/ y = s \/ y \in A

Led(c, h, x, s, A) ==
  /\ Len(c.entities) <= Len(h.entities)
  /\ \A y \in 1..Len(c.entities) : LedRow(c, h, x, s, A, y)
  /\ \A y \in 1..Len(h.entities) : y > Len(c.entities) => h.entities[y].parent \in {x, s}
  /\ A \subseteq AttachedTo(x)
  /\ A # {} => ~IsActive(h.entities[x]) /\ s = c.entities[x].parent
  /\ IsBoundaryEvent(c.entities[x]) /\ c.entities[x].state = "CREATED" => h.entities[x].state = "CREATED"
  /\ c.entities[s].state # "CREATED" \/ s \in Pending(c)

LEMMA UntouchedOn ==
  ASSUME NEW c, NEW h, NEW x, NEW s, NEW A, CtxType(c), CtxType(h), RowsOK, Kept(c), Led(c, h, x, s, A),
         x \in 1..Len(c.entities), Listed(c, x), s = x \/ s = c.entities[x].parent,
         NEW a, Untouched(c, a), a \in 1..Len(rows), IsActivity(rows[a]), ~IsMultiInstanceActivity(rows[a])
  PROVE  Untouched(h, a)
  <1>1. PICK D \in SUBSET (1..Len(rows)) :
          /\ a \in D
          /\ \A z \in 1..Len(c.entities) : c.entities[z].parent \in D => z \in D
          /\ \A z \in D \ {a} : c.entities[z].parent \in D
          /\ \A z \in D : ~Listed(c, z)
    BY DEF Untouched
  <1>2. /\ Len(c.entities) <= Len(h.entities)
        /\ \A y \in 1..Len(c.entities) : LedRow(c, h, x, s, A, y)
        /\ \A y \in 1..Len(h.entities) : y > Len(c.entities) => h.entities[y].parent \in {x, s}
        /\ A \subseteq AttachedTo(x)
        /\ A # {} => s = c.entities[x].parent
    BY DEF Led
  <1>3. Len(c.entities) \in Nat /\ Len(h.entities) \in Nat /\ Len(rows) <= Len(c.entities)
        /\ rows # <<>>
    BY CtxFacts DEF Kept
  <1>4. Len(rows) \in Nat /\ 1..Len(rows) = DOMAIN rows
    <2>1. 1 \in 1..Len(rows) \/ a \in 1..Len(rows)
      OBVIOUS
    <2>2. RowsOK /\ rows # <<>>
      BY <1>3
    <2>3. CtxType(Context(rows, <<>>)) /\ Context(rows, <<>>).entities = rows
      BY <2>2 DEF RowsOK, Consistent, Context
    <2>. QED BY <2>3, CtxFacts
  <1>5. x \notin D /\ s \notin D
    BY <1>1
  <1>6. ASSUME NEW z \in D PROVE z \notin A
    <2>1. SUFFICES ASSUME z \in A PROVE FALSE
      OBVIOUS
    <2>2. z \in AttachedTo(x) /\ s = c.entities[x].parent /\ x # 0
      BY <1>2, <2>1
    <2>3. /\ z \in 1..Len(rows) /\ rows[z] \in Row /\ x \in 1..Len(rows)
          /\ rows[x].parent = rows[z].parent
          /\ ~IsMultiInstanceActivity(rows[z]) => IsBoundaryEvent(rows[z])
      BY <2>2, AttachedRows
    <2>4. c.entities[z].parent = s
      <3>1. KeptRow(c, z) /\ KeptRow(c, x)
        BY <2>3 DEF Kept
      <3>. QED BY <3>1, <2>2, <2>3 DEF KeptRow, SameRow
    <2>5. z = a
      BY <1>1, <1>5, <2>4
    <2>. QED BY <2>3, <2>5 DEF IsBoundaryEvent, IsActivity, BoundaryEvents, Activities
  <1>7. ASSUME NEW z \in 1..Len(h.entities), h.entities[z].parent \in D PROVE z \in D
    <2>1. CASE z \in 1..Len(c.entities)
      <3>1. h.entities[z].parent = c.entities[z].parent
        BY <2>1, <1>2 DEF LedRow, SameRow
      <3>. QED BY <3>1, <2>1, <1>1, <1>7
    <2>2. CASE z > Len(c.entities)
      BY <2>2, <1>2, <1>5, <1>7
    <2>. QED BY <2>1, <2>2, <1>3
  <1>8. \A z \in D : z \in 1..Len(c.entities)
    BY <1>3, <1>4
  <1>9. ASSUME NEW z \in D \ {a} PROVE h.entities[z].parent \in D
    <2>1. h.entities[z].parent = c.entities[z].parent
      BY <1>2, <1>8 DEF LedRow, SameRow
    <2>. QED BY <2>1, <1>1
  <1>10. ASSUME NEW z \in D PROVE ~Listed(h, z)
    BY <1>1, <1>2, <1>5, <1>6, <1>8 DEF LedRow
  <1>. QED BY <1>1, <1>7, <1>9, <1>10 DEF Untouched

LEMMA KeptOn ==
  ASSUME NEW c, NEW h, NEW x, NEW s, NEW A, CtxType(c), CtxType(h), RowsOK, Kept(c), Led(c, h, x, s, A),
         x \in Pending(c), s = x \/ s = c.entities[x].parent
  PROVE  Kept(h)
  <1>1. /\ Len(c.entities) \in Nat /\ Len(h.entities) \in Nat /\ Pending(c) \subseteq 1..Len(c.entities)
        /\ c.next \in Nat \ {0} /\ Len(c.list) \in Nat /\ DOMAIN c.list = 1..Len(c.list)
    BY CtxFacts
  <1>2. /\ Len(c.entities) <= Len(h.entities)
        /\ \A y \in 1..Len(c.entities) : LedRow(c, h, x, s, A, y)
        /\ A \subseteq AttachedTo(x)
        /\ A # {} => ~IsActive(h.entities[x])
        /\ IsBoundaryEvent(c.entities[x]) /\ c.entities[x].state = "CREATED" => h.entities[x].state = "CREATED"
        /\ c.entities[s].state # "CREATED" \/ s \in Pending(c)
    BY DEF Led
  <1>3. Listed(c, x) /\ x \in 1..Len(c.entities)
    <2>1. PICK k \in c.next..Len(c.list) : c.list[k] = x
      BY DEF Pending
    <2>. QED BY <2>1, <1>1 DEF Listed
  <1>4. Len(rows) <= Len(c.entities) /\ \A y \in 1..Len(rows) : KeptRow(c, y)
    BY DEF Kept
  <1>5. CASE rows = <<>>
    <2>1. Len(rows) = 0
      BY <1>5
    <2>. QED BY <2>1, <1>1, <1>2 DEF Kept
  <1>6. CASE rows # <<>>
    <2>1. Len(rows) \in Nat /\ 1..Len(rows) = DOMAIN rows
      <3>1. CtxType(Context(rows, <<>>)) /\ Context(rows, <<>>).entities = rows
        BY <1>6 DEF RowsOK, Consistent, Context
      <3>. QED BY <3>1, CtxFacts
    <2>2. ASSUME NEW y \in 1..Len(rows) PROVE KeptRow(h, y)
      <3>1. y \in 1..Len(c.entities)
        BY <2>1, <1>1, <1>4
      <3>2. KeptRow(c, y) /\ LedRow(c, h, x, s, A, y)
        BY <3>1, <1>2, <1>4
      <3>3. /\ rows[y] \in Row /\ ShapeOf(rows, y)
            /\ StateOf(Context(rows, <<>>), y, 0) /\ Context(rows, <<>>).entities = rows
        BY <2>1, RowsFacts
      <3>4. y \in A => rows[y].prev = x
        BY <1>2 DEF AttachedTo
      <3>5. /\ SameRow(c.entities[y], rows[y])
            /\ IsBoundaryEvent(c.entities[y]) <=> IsBoundaryEvent(rows[y])
            /\ IsMultiInstanceActivity(c.entities[y]) <=> IsMultiInstanceActivity(rows[y])
        BY <3>2, RowLike DEF KeptRow
      <3>6. IsBoundaryEvent(rows[y]) \/ IsMultiInstanceActivity(rows[y]) => y # 1
        <4>1. Type(rows[y]) = "process" <=> y = 1
          BY <3>3 DEF ShapeOf
        <4>2. IsMultiInstanceActivity(rows[y]) => Type(rows[y]) \in Activities
          BY <3>3, ValidAssumption DEF IsMultiInstanceActivity, Type, Row
        <4>. QED BY <4>1, <4>2 DEF IsBoundaryEvent, BoundaryEvents, Activities
      <3>7. ~(IsBoundaryEvent(rows[y]) /\ IsMultiInstanceActivity(rows[y]))
        BY <3>3, ValidAssumption DEF IsMultiInstanceActivity, IsBoundaryEvent, Type, Row,
           BoundaryEvents, Activities
      <3>8. ASSUME IsBoundaryEvent(rows[y]) \/ IsMultiInstanceActivity(rows[y]), rows[y].state = "CREATED"
            PROVE  rows[y].prev \in 1..Len(rows) /\ rows[y].prev \in 1..Len(c.entities)
        <4>1. rows[y].prev \in 0..Len(rows)
          BY <2>1, <3>3, Referred
        <4>2. rows[y].prev # 0
          BY <3>3, <3>8 DEF ShapeOf, StateOf, RowState
        <4>. QED BY <4>1, <4>2, <2>1, <1>1, <1>4
      <3>9. SameRow(h.entities[y], rows[y])
        BY <3>2 DEF KeptRow, LedRow, SameRow
      <3>10. ASSUME IsBoundaryEvent(rows[y]), rows[y].state = "CREATED", h.entities[y].state # "CREATED"
             PROVE  ~IsActive(h.entities[rows[y].prev]) \/ Untouched(h, rows[y].prev)
        <4>1. PICK a : a = rows[y].prev
          OBVIOUS
        <4>2. a \in 1..Len(rows) /\ a \in 1..Len(c.entities) /\ LedRow(c, h, x, s, A, a)
          BY <3>8, <3>10, <4>1, <1>2
        <4>3. CASE c.entities[y].state # "CREATED"
          <5>1. CASE ~IsActive(c.entities[a])
            BY <5>1, <4>1, <4>2 DEF LedRow
          <5>2. CASE Untouched(c, a)
            <6>1. IsActivity(rows[a]) /\ ~IsMultiInstanceActivity(rows[a])
              BY <3>3, <3>10, <4>1 DEF ShapeOf
            <6>. QED BY <5>2, <6>1, <4>1, <4>2, <1>3, UntouchedOn
          <5>. QED BY <5>1, <5>2, <4>1, <4>3, <3>2, <3>10 DEF KeptRow
        <4>4. CASE c.entities[y].state = "CREATED"
          <5>1. y # x
            BY <4>4, <3>5, <3>10, <1>2
          <5>2. y \in A
            BY <5>1, <4>4, <3>2, <3>6, <3>10 DEF LedRow
          <5>. QED BY <5>2, <3>4, <1>2
        <4>. QED BY <4>3, <4>4
      <3>11. ASSUME IsMultiInstanceActivity(rows[y]), rows[y].state = "CREATED",
                    h.entities[y].state # "CREATED" \/ y \in Pending(h)
             PROVE  ~IsActive(h.entities[rows[y].prev])
        <4>1. rows[y].prev \in 1..Len(c.entities)
          BY <3>8, <3>11
        <4>2. CASE c.entities[y].state # "CREATED" \/ y \in Pending(c)
          <5>1. ~IsActive(c.entities[rows[y].prev])
            BY <4>2, <3>2, <3>11 DEF KeptRow
          <5>. QED BY <5>1, <4>1, <1>2 DEF LedRow
        <4>3. CASE c.entities[y].state = "CREATED" /\ y \notin Pending(c)
          <5>1. y # x /\ y # s
            BY <4>3, <1>2
          <5>2. y \in A
            BY <5>1, <4>3, <3>2, <3>5, <3>6, <3>7, <3>11 DEF LedRow
          <5>. QED BY <5>2, <3>4, <1>2
        <4>. QED BY <4>2, <4>3
      <3>. QED BY <3>9, <3>10, <3>11 DEF KeptRow
    <2>3. Len(rows) <= Len(h.entities)
      BY <2>1, <1>1, <1>2, <1>4
    <2>. QED BY <2>2, <2>3 DEF Kept
  <1>. QED BY <1>5, <1>6

(* A boundary event that is attached stays attached. *)
LEMMA BoundaryStays ==
  ASSUME NEW d, NEW x, NEW s, Ready(d, x, s), IsBoundaryEvent(d.entities[x]),
         d.entities[x].state = "CREATED"
  PROVE  ContinueExecution(d, s, x) = d /\ ~d.entities[x].multi
  <1>1. IsActive(d.entities[x])
    BY DEF IsActive, Ended
  <1>2. /\ d.entities[s].state \in {"STARTED", "QUEUED", "SUSPENDED"}
        /\ d.entities[s].state = "QUEUED" => Type(d.entities[x]) = "startEvent"
    BY <1>1, ActiveReady
  <1>3. d.entities[s].state # "QUEUED" /\ ~Held(d.entities[x])
    BY <1>2 DEF IsBoundaryEvent, BoundaryEvents, Held
  <1>4. NextState(d.entities[s], d.entities[x]) = "CREATED"
    BY <1>3 DEF NextState, Prepares
  <1>5. ~d.entities[x].multi
    <2>1. x \in 1..Len(d.entities) /\ Consistent(d, x, 0)
      BY ReadyFacts DEF Ready
    <2>. QED BY <2>1, MultiFacts
  <1>. QED BY <1>1, <1>4, <1>5 DEF ContinueExecution

(* An execution of d is continued, which is not that of the process. *)
ContinuedWith(d, s, x) ==
  IF d.entities[x].multi THEN ContinueMultiInstance(d, s, x) ELSE ContinueExecution(d, s, x)

Iterated(a, s, x) ==
  EndScope(EndBoundaryEvents(ContinueSequence(ContinuedWith(WithScope(a, s), s, x), x), x), s)

LEMMA IterationKeeps ==
  ASSUME NEW c, NEW a, NEW x, Taken(c, a, x), a.entities[x].count <= 0, x # 1, RowsOK, Kept(c),
         NEW s, s = a.entities[x].parent, NEW h, h = Iterated(a, s, x)
  PROVE  Consistent(h, 0, 0) /\ NewOnce(h, 0) /\ Kept(h)
  <1>1. PICK d, e, f, g : /\ d = WithScope(a, s) /\ e = ContinuedWith(d, s, x)
                          /\ f = ContinueSequence(e, x) /\ g = EndBoundaryEvents(f, x)
                          /\ h = EndScope(g, s)
    BY DEF Iterated
  <1>2. /\ Consistent(c, 0, 0) /\ x \in Pending(c) /\ a.entities = c.entities /\ a.list = c.list
        /\ Pending(a) \subseteq Pending(c)
    BY DEF Taken
  <1>3. /\ Ready(d, x, s) /\ d.entities = a.entities
        /\ Pending(d) \subseteq Pending(a) \cup {s}
        /\ \A y \in 1..Len(a.entities) : Listed(d, y) <=> Listed(a, y) \/ y = s
    BY <1>1, ScopeRead
  <1>4. CtxType(c)
    BY <1>2 DEF Consistent
  <1>5. /\ Len(c.entities) \in Nat /\ DOMAIN c.entities = 1..Len(c.entities)
        /\ Pending(c) \subseteq 1..Len(c.entities)
    BY <1>4, CtxFacts
  <1>6. Done(d, e, x, s)
    <2>1. CASE d.entities[x].multi
      <3>1. Done(d, ContinueMultiInstance(d, s, x), x, s)
        BY <1>3, <2>1, MultiInstanceContinues
      <3>. QED BY <3>1, <2>1, <1>1 DEF ContinuedWith
    <2>2. CASE ~d.entities[x].multi
      <3>1. Done(d, ContinueExecution(d, s, x), x, s)
        BY <1>3, <2>2, ExecutionContinues
      <3>. QED BY <3>1, <2>2, <1>1 DEF ContinuedWith
    <2>. QED BY <2>1, <2>2
  <1>7. Continuing(c, d, e, x, s)
    <2>1. StateOf(c, x, 0)
      BY <1>2, <1>5 DEF Consistent
    <2>. QED BY <2>1, <1>1, <1>2, <1>3, <1>4, <1>6 DEF Continuing, ContinuedWith
  <1>8. /\ CtxType(d) /\ CtxType(e) /\ Len(c.entities) <= Len(e.entities) /\ Len(e.entities) \in Nat
        /\ x \in 1..Len(c.entities) /\ s \in 1..Len(c.entities) /\ s < x
        /\ \A y \in 1..Len(c.entities) :
             /\ SameRow(e.entities[y], c.entities[y])
             /\ y # x => e.entities[y].state = c.entities[y].state
             /\ ~IsActive(c.entities[y]) => ~IsActive(e.entities[y])
    BY <1>7, ContinuingFacts
  <1>9. PICK A \in SUBSET AttachedTo(x) :
          /\ Consistent(f, 0, s) /\ NewOnce(f, 0)
          /\ Added(e, f, A) /\ \A y \in A : y \in 1..Len(c.entities) /\ ~IsNew(y)
          /\ A # {} => e.entities[x].state = "COMPLETED"
    BY <1>1, <1>7, SequenceGoesOn, SMTT(20)
  <1>10. /\ f.entities = e.entities /\ Pending(f) = Pending(e) \cup A
         /\ \A y : y # 0 => (Listed(f, y) <=> Listed(e, y) \/ y \in A)
    BY <1>9 DEF Added
  <1>11. PICK B \in SUBSET AttachedTo(x) :
          /\ Consistent(g, 0, s) /\ NewOnce(g, 0) /\ EndedIn(f, g, B)
          /\ \A y \in B : /\ y \in 1..Len(c.entities) /\ ~IsNew(y) /\ rows[y] \in Row
                          /\ SameRow(rows[y], e.entities[y]) /\ IsBoundaryEvent(e.entities[y])
          /\ B # {} => e.entities[x].state = "COMPLETED"
    <2>1. g = EndBoundaryEvents(f, x)
      BY <1>1
    <2>2. /\ Consistent(g, 0, s) /\ NewOnce(g, 0)
          /\ \E B \in SUBSET AttachedTo(x) :
               /\ EndedIn(f, g, B)
               /\ \A y \in B : /\ y \in 1..Len(c.entities) /\ ~IsNew(y) /\ rows[y] \in Row
                               /\ SameRow(rows[y], e.entities[y]) /\ IsBoundaryEvent(e.entities[y])
               /\ B # {} => e.entities[x].state = "COMPLETED"
      <3>1. Continuing(c, d, e, x, s) /\ Consistent(f, 0, s) /\ NewOnce(f, 0) /\ f.entities = e.entities
        BY <1>7, <1>9, <1>10
      <3>. QED BY ONLY <2>1, <3>1, BoundaryEventsEnd
    <2>. QED BY <2>2
  <1>12. /\ CtxType(g) /\ Len(g.entities) = Len(e.entities) /\ Pending(g) = Pending(f) \cup B
         /\ \A y : y # 0 => (Listed(g, y) <=> Listed(f, y) \/ y \in B)
         /\ \A y \in 1..Len(e.entities) : g.entities[y] = IF y \in B THEN Terminated(rows[y]) ELSE e.entities[y]
    BY <1>10, <1>11 DEF EndedIn, Extended
  <1>13. /\ \A y \in 1..Len(c.entities) : /\ y \in Pending(e) => y \in Pending(d)
                                          /\ Listed(e, y) => Listed(d, y)
         /\ \A y \in 1..Len(e.entities) : y > Len(c.entities) => e.entities[y].parent \in {x, s}
    BY <1>2, <1>3, <1>6 DEF Done, Moves, MovedRow
  <1>14. s \in 1..Len(g.entities) /\ (IsNew(s) /\ s # 1 => s \notin Pending(g))
    <2>1. s \in 1..Len(g.entities)
      BY <1>5, <1>8, <1>12
    <2>2. IsNew(s) /\ s # 1 => s \notin Pending(d)
      BY <1>3, ReadyFacts
    <2>. QED BY <2>1, <2>2, <1>8, <1>9, <1>10, <1>11, <1>12, <1>13
  <1>15. Consistent(h, 0, 0) /\ NewOnce(h, 0)
    <2>1. Listed(g, s)
      <3>1. Listed(d, s) /\ s # 0
        BY <1>3, <1>8 DEF Ready
      <3>2. MovedRow(d, e, x, s, s)
        BY <1>3, <1>2, <1>6, <1>8 DEF Done, Moves
      <3>3. Listed(e, s)
        BY <3>1, <3>2 DEF MovedRow
      <3>. QED BY <3>1, <3>3, <1>10, <1>12
    <2>2. StateOf(g, s, 0) /\ g.entities[s] \in Row
      BY <1>11, <1>12, <1>14, CtxFacts DEF Consistent
    <2>3. IsActive(g.entities[s]) => Idle(g.entities[s])
      BY <2>1, <2>2, ListedIdle
    <2>. QED BY <2>3, <1>1, <1>11, <1>14, EndsScope, ZenonT(40)
  <1>16. /\ Len(h.entities) = Len(g.entities) /\ Pending(h) \subseteq Pending(g) \cup {s}
         /\ \A y \in 1..Len(g.entities) :
              /\ y # 1 => h.entities[y] = g.entities[y]
              /\ SameRow(h.entities[y], g.entities[y])
              /\ ~IsActive(g.entities[y]) => ~IsActive(h.entities[y])
              /\ Listed(h, y) => Listed(g, y) \/ y = s
    <2>1. /\ Consistent(g, 0, s) /\ NewOnce(g, 0) /\ h = EndScope(g, s)
          /\ IsNew(s) /\ s # 1 /\ IsActive(g.entities[s]) => s \notin Pending(g)
      BY <1>1, <1>11, <1>14
    <2>. QED BY <2>1, <1>14, ScopeEnded
  <1>17. \A y \in 1..Len(c.entities) : y \in 1..Len(e.entities) /\ y \in 1..Len(g.entities) /\ y # 0
    BY <1>5, <1>8, <1>12
  <1>18. ASSUME NEW y \in 1..Len(c.entities) PROVE LedRow(c, h, x, s, A \cup B, y)
    <2>1. y \in B => /\ SameRow(g.entities[y], rows[y]) /\ g.entities[y].state = "TERMINATED"
                     /\ IsBoundaryEvent(c.entities[y]) /\ SameRow(rows[y], e.entities[y])
      <3>1. ASSUME y \in B
            PROVE  /\ SameRow(g.entities[y], rows[y]) /\ g.entities[y].state = "TERMINATED"
                   /\ IsBoundaryEvent(c.entities[y]) /\ SameRow(rows[y], e.entities[y])
        <4>1. /\ rows[y] \in Row /\ g.entities[y] = Terminated(rows[y])
              /\ SameRow(rows[y], e.entities[y]) /\ IsBoundaryEvent(e.entities[y])
          BY <3>1, <1>11, <1>12, <1>17
        <4>2. SameRow(e.entities[y], c.entities[y])
          BY <1>8
        <4>3. IsBoundaryEvent(c.entities[y])
          BY <4>1, <4>2, RowLike
        <4>4. SameRow(g.entities[y], rows[y]) /\ g.entities[y].state = "TERMINATED"
          BY <4>1 DEF Terminated, SameRow, Row
        <4>. QED BY <4>1, <4>3, <4>4
      <3>. QED BY <3>1
    <2>2. y \notin B => g.entities[y] = e.entities[y]
      BY <1>12, <1>17
    <2>3. SameRow(h.entities[y], c.entities[y])
      <3>1. SameRow(g.entities[y], e.entities[y])
        BY <2>1, <2>2 DEF SameRow
      <3>. QED BY <3>1, <1>8, <1>16, <1>17 DEF SameRow
    <2>4. h.entities[y].state = c.entities[y].state \/ y \in {1, x}
            \/ (y \in A \cup B /\ IsBoundaryEvent(c.entities[y]))
      BY <2>1, <2>2, <1>8, <1>16, <1>17
    <2>5. ~IsActive(c.entities[y]) => ~IsActive(h.entities[y])
      <3>1. y \in B => ~IsActive(g.entities[y])
        BY <2>1 DEF IsActive, Ended
      <3>. QED BY <3>1, <2>2, <1>8, <1>16, <1>17
    <2>6. y \in Pending(h) => y \in Pending(c) \/ y = s \/ y \in A \cup B
      BY <1>2, <1>3, <1>10, <1>12, <1>13, <1>16
    <2>7. Listed(h, y) => Listed(c, y) \/ y = s \/ y \in A \cup B
      <3>1. Listed(a, y) => Listed(c, y)
        BY <1>2 DEF Listed
      <3>. QED BY <3>1, <1>2, <1>3, <1>10, <1>12, <1>13, <1>16, <1>17
    <2>. QED BY <2>3, <2>4, <2>5, <2>6, <2>7 DEF LedRow
  <1>19. ASSUME NEW y \in 1..Len(h.entities), y > Len(c.entities) PROVE h.entities[y].parent \in {x, s}
    <2>1. y # 1 /\ y \in 1..Len(e.entities) /\ y \notin 1..Len(c.entities)
      BY <1>5, <1>8, <1>12, <1>16, <1>19
    <2>2. y \notin B
      BY <2>1, <1>11
    <2>. QED BY <2>1, <2>2, <1>12, <1>13, <1>16, <1>19
  <1>20. A \cup B # {} => ~IsActive(h.entities[x]) /\ s = c.entities[x].parent
    <2>1. e.entities[x].state = "COMPLETED" => ~IsActive(e.entities[x])
      BY DEF IsActive, Ended
    <2>2. x \in B => ~IsActive(g.entities[x])
      BY <1>8, <1>11, <1>12, <1>17 DEF Terminated, Row, IsActive, Ended
    <2>. QED BY <2>1, <2>2, <1>2, <1>8, <1>9, <1>11, <1>12, <1>16, <1>17
  <1>21. ASSUME IsBoundaryEvent(c.entities[x]), c.entities[x].state = "CREATED"
         PROVE  h.entities[x].state = "CREATED"
    <2>1. ContinueExecution(d, s, x) = d /\ ~d.entities[x].multi
      BY <1>2, <1>3, <1>21, BoundaryStays
    <2>2. e = d
      BY <2>1, <1>1 DEF ContinuedWith
    <2>3. e.entities[x].state = "CREATED"
      BY <2>2, <1>2, <1>3, <1>21
    <2>. QED BY <2>3, <1>8, <1>11, <1>12, <1>16, <1>17
  <1>22. c.entities[s].state # "CREATED"
    <2>1. StateOf(c, s, 0)
      BY <1>2, <1>5, <1>8 DEF Consistent
    <2>2. x \in Kids(c, 0, s)
      BY <1>2, <1>5, <1>8 DEF Kids
    <2>. QED BY <2>1, <2>2 DEF StateOf, RowState, IsActive, Ended
  <1>23. Led(c, h, x, s, A \cup B)
    <2>1. Len(c.entities) <= Len(h.entities)
      BY <1>8, <1>12, <1>16
    <2>. QED BY <2>1, <1>18, <1>19, <1>20, <1>21, <1>22 DEF Led
  <1>24. CtxType(h)
    BY <1>15 DEF Consistent
  <1>25. Kept(h)
    BY <1>2, <1>4, <1>23, <1>24, KeptOn
  <1>. QED BY <1>15, <1>25

(* An execution of the list that has ended with the process. *)
LEMMA ProcessPassed ==
  ASSUME NEW a, Consistent(a, 1, 0), NewOnce(a, 1), 1 \notin Pending(a), ~IsActive(a.entities[1]),
         NEW s \in 1..Len(a.entities), NEW e, e = AddCount(a, s, -1)
  PROVE  /\ Consistent(e, 0, 0) /\ NewOnce(e, 0) /\ Len(e.entities) = Len(a.entities)
         /\ e.list = a.list /\ e.next = a.next
         /\ \A y \in 1..Len(a.entities) : /\ SameRow(e.entities[y], a.entities[y])
                                          /\ e.entities[y].state = a.entities[y].state
  <1>1. /\ CtxType(a) /\ Distinct(a) /\ Order(a) /\ ProcessOf(a, 0) /\ ActiveWithin(a)
        /\ \A y \in DOMAIN a.entities :
             ShapeOf(a.entities, y) /\ CountedRow(a, 1, y) /\ StateOf(a, y, 1)
    BY DEF Consistent
  <1>2. /\ DOMAIN a.entities = 1..Len(a.entities) /\ Len(a.entities) \in Nat \ {0}
        /\ \A y \in 1..Len(a.entities) : a.entities[y] \in Row
        /\ Pending(a) \subseteq 1..Len(a.entities)
    BY <1>1, CtxFacts
  <1>3. PICK n : n = -1
    OBVIOUS
  <1>4. PICK r \in Row : /\ e = Put(a, s, r) /\ SameRow(r, a.entities[s]) /\ r.state = a.entities[s].state
                         /\ r.count = a.entities[s].count + n
                         /\ r.work = a.entities[s].work /\ r.context = a.entities[s].context
    <2>1. n \in Int /\ e = AddCount(a, s, n)
      BY <1>3
    <2>. QED BY <2>1, <1>1, CountIs
  <1>5. /\ CtxType(e) /\ Len(e.entities) = Len(a.entities) /\ e.instance = a.instance
        /\ e.list = a.list /\ e.next = a.next /\ e.entities[s] = r
        /\ \A y \in 1..Len(a.entities) : y # s => e.entities[y] = a.entities[y]
    BY <1>1, <1>4, PutFacts
  <1>6. /\ Pending(e) = Pending(a) /\ Distinct(e)
        /\ \A y : Listed(e, y) <=> Listed(a, y)
        /\ \A y, z : Before(e, y, z) <=> Before(a, y, z)
    BY <1>1, <1>5, SameList
  <1>7. DOMAIN e.entities = 1..Len(a.entities)
    BY <1>5, CtxFacts
  <1>8. \A y \in 1..Len(a.entities) : ~IsActive(a.entities[y])
    BY <1>1, AllEnded
  <1>9. ASSUME NEW y \in 1..Len(a.entities)
        PROVE  /\ SameRow(e.entities[y], a.entities[y]) /\ e.entities[y].state = a.entities[y].state
               /\ e.entities[y].work = a.entities[y].work /\ e.entities[y].context = a.entities[y].context
               /\ e.entities[y].count <= a.entities[y].count
               /\ ~IsActive(e.entities[y]) /\ a.entities[y].count \in Int /\ e.entities[y].count \in Int
    <2>1. a.entities[y].count \in Int
      BY <1>2 DEF Row
    <2>2. a.entities[y].count + n \in Int /\ a.entities[y].count + n <= a.entities[y].count
      BY <2>1, <1>3
    <2>3. CASE y = s
      BY <2>1, <2>2, <2>3, <1>4, <1>5, <1>8 DEF IsActive
    <2>4. CASE y # s
      BY <2>1, <2>4, <1>5, <1>8 DEF SameRow
    <2>. QED BY <2>3, <2>4
  <1>10. a.entities[1].parent = 0
    BY <1>1, <1>2 DEF ShapeOf
  <1>11. ASSUME NEW y \in 1..Len(a.entities)
         PROVE  Kids(e, 0, y) = Kids(a, 1, y) /\ UnsetOf(e, y) = {} /\ UnsetOf(a, y) = {}
    <2>1. ASSUME NEW z PROVE z \in Kids(e, 0, y) <=> z \in Kids(a, 1, y)
      <3>1. z \in 1..Len(a.entities) => /\ e.entities[z].parent = a.entities[z].parent
                                        /\ ~IsActive(e.entities[z]) /\ ~IsActive(a.entities[z]) /\ z # 0
        BY <1>2, <1>8, <1>9 DEF SameRow
      <3>2. 1 \notin Kids(a, 1, y) /\ y # 0
        BY <1>10, <1>2 DEF Kids
      <3>. QED BY <3>1, <3>2, <1>2, <1>6, <1>7 DEF Kids
    <2>2. UnsetOf(e, y) = {} /\ UnsetOf(a, y) = {}
      BY <1>2, <1>7, <1>8, <1>9 DEF UnsetOf, IsUnset
    <2>. QED BY <2>1, <2>2
  <1>12. ASSUME NEW y \in DOMAIN e.entities PROVE ShapeOf(e.entities, y)
    <2>1. \A z \in 1..Len(a.entities) : SameRow(e.entities[z], a.entities[z])
      BY <1>9
    <2>. QED BY <2>1, <1>1, <1>2, <1>7, SameShape
  <1>13. ActiveWithin(e)
    BY <1>7, <1>9 DEF ActiveWithin
  <1>14. Order(e)
    <2>1. ASSUME NEW y \in Pending(e), y # 1 PROVE Before(e, y, e.entities[y].parent)
      <3>1. y \in 1..Len(a.entities) /\ y \in Pending(a)
        BY <1>2, <1>6
      <3>2. a.entities[y].parent \in 1..Len(a.entities)
        BY <3>1, <2>1, <1>1, <1>2, Referred
      <3>3. ~IsActive(a.entities[a.entities[y].parent])
        BY <3>2, <1>8
      <3>4. Before(a, y, a.entities[y].parent)
        BY <3>1, <3>3, <2>1, <1>1 DEF Order
      <3>5. e.entities[y].parent = a.entities[y].parent
        BY <3>1, <1>9 DEF SameRow
      <3>. QED BY <3>4, <3>5, <1>6
    <2>. QED BY <2>1 DEF Order
  <1>15. ASSUME NEW y \in DOMAIN e.entities PROVE CountedRow(e, 0, y)
    <2>1. y \in 1..Len(a.entities)
      BY <1>7
    <2>2. a.entities[y].count <= Cardinality(Kids(a, 1, y))
      BY <2>1, <1>1, <1>2, <1>8 DEF CountedRow
    <2>3. Cardinality(Kids(a, 1, y)) \in Nat
      BY <1>1, SetsOf
    <2>4. e.entities[y].count <= Cardinality(Kids(a, 1, y))
      BY <2>1, <2>2, <2>3, <1>9
    <2>. QED BY <2>1, <2>4, <1>9, <1>11 DEF CountedRow
  <1>16. ASSUME NEW y \in DOMAIN e.entities PROVE StateOf(e, y, 0)
    <2>1. y \in 1..Len(a.entities) /\ y # 0
      BY <1>2, <1>7
    <2>2. RowState(a.entities[y], y, Kids(a, 1, y), UnsetOf(a, y), y \in Pending(a) \/ y = 1, Listed(a, y))
      BY <2>1, <1>1, <1>2 DEF StateOf
    <2>3. e.entities[y].state \in Ended
      BY <2>1, <1>9 DEF IsActive
    <2>4. /\ IsActivity(e.entities[y]) /\ e.entities[y].state = "COMPLETED" => y \notin Pending(e)
      <3>1. IsActivity(e.entities[y]) <=> IsActivity(a.entities[y])
        BY <2>1, <1>9, RowLike
      <3>. QED BY <2>1, <2>2, <3>1, <1>6, <1>9 DEF RowState
    <2>5. UnsetOf(e, y) = {} /\ ~IsUnset(e.entities[y])
      BY <2>1, <1>9, <1>11 DEF IsUnset
    <2>. QED BY <2>1, <2>3, <2>4, <2>5 DEF StateOf, RowState, IsActive, Ended
  <1>17. ProcessOf(e, 0)
    <2>1. 1 \in 1..Len(a.entities) /\ ~IsActive(e.entities[1]) /\ e.entities[1].state = a.entities[1].state
      BY <1>2, <1>9
    <2>. QED BY <2>1, <1>1, <1>5 DEF ProcessOf, IsActive, Ended
  <1>18. Consistent(e, 0, 0)
    BY <1>5, <1>6, <1>12, <1>13, <1>14, <1>15, <1>16, <1>17 DEF Consistent
  <1>19. NewOnce(e, 0)
    BY <1>2, <1>6, <1>7, <1>11 DEF NewOnce
  <1>. QED BY <1>5, <1>9, <1>18, <1>19

(* Nothing follows an execution that is no activity. *)
LEMMA NothingFollows ==
  ASSUME NEW e, NEW s, Consistent(e, 0, s), NewOnce(e, 0), NEW x, x \in 1..Len(e.entities),
         ~IsActivity(e.entities[x]), NEW g, g = EndBoundaryEvents(ContinueSequence(e, x), x)
  PROVE  /\ Consistent(g, 0, s) /\ NewOnce(g, 0) /\ g.entities = e.entities
         /\ Pending(g) = Pending(e) /\ \A y : y # 0 => (Listed(g, y) <=> Listed(e, y))
  <1>1. CtxType(e)
    BY DEF Consistent
  <1>2. e.entities[x] \in Row
    BY <1>1, CtxFacts
  <1>3. ~IsMultiInstanceActivity(e.entities[x])
    BY <1>2, ValidAssumption DEF IsMultiInstanceActivity, IsActivity, Type, Row
  <1>4. PICK S, o : S = {} /\ o = 0
    OBVIOUS
  <1>5. PICK f : f = ContinueSequence(e, x)
    OBVIOUS
  <1>6. f = AddExecutions(e, S)
    BY <1>3, <1>4, <1>5 DEF ContinueSequence
  <1>7. S \in SUBSET (1..Len(e.entities))
    BY <1>4
  <1>8. \A y \in S : /\ IsActive(e.entities[y])
                     /\ IsNew(y) => y \notin Pending(e) /\ Kids(e, o, y) = {}
                     /\ Idle(e.entities[y])
    BY <1>4
  <1>9. /\ Consistent(f, o, s) /\ NewOnce(f, o)
        /\ f.entities = e.entities /\ Pending(f) = Pending(e) \cup S
        /\ \A y : y # 0 => (Listed(f, y) <=> Listed(e, y) \/ y \in S)
    BY <1>4, <1>6, <1>7, <1>8, AddActive
  <1>10. g = AddExecutions(f, S)
    <2>1. CtxType(f)
      BY <1>9 DEF Consistent
    <2>2. f \in Contexts /\ f.entities \in Seq(Row) /\ DOMAIN f.entities = 1..Len(f.entities)
      BY <2>1, CtxFacts
    <2>3. [y \in DOMAIN f.entities |-> f.entities[y]] = f.entities
      BY <2>2
    <2>4. g = AddExecutions([f EXCEPT !.entities = [y \in DOMAIN @ |-> @[y]]], {})
      BY <1>5, <1>9 DEF EndBoundaryEvents
    <2>5. [f EXCEPT !.entities = [y \in DOMAIN @ |-> @[y]]] = f
      BY <2>2, <2>3 DEF Contexts
    <2>. QED BY <2>4, <2>5, <1>4
  <1>11. \A y \in S : /\ IsActive(f.entities[y])
                      /\ IsNew(y) => y \notin Pending(f) /\ Kids(f, o, y) = {}
                      /\ Idle(f.entities[y])
    BY <1>4
  <1>12. S \in SUBSET (1..Len(f.entities))
    BY <1>4
  <1>13. /\ Consistent(g, o, s) /\ NewOnce(g, o)
         /\ g.entities = f.entities /\ Pending(g) = Pending(f) \cup S
         /\ \A y : y # 0 => (Listed(g, y) <=> Listed(f, y) \/ y \in S)
    BY <1>9, <1>10, <1>11, <1>12, AddActive
  <1>. QED BY <1>4, <1>9, <1>13

(* An iteration that finds the process has no effect any more. *)
LEMMA ProcessIterates ==
  ASSUME NEW c, NEW a, Taken(c, a, 1), a.entities[1].count <= 0, RowsOK, Kept(c),
         NEW s \in 1..Len(a.entities), Listed(a, s), NEW h, h = Iterated(a, s, 1)
  PROVE  Consistent(h, 0, 0) /\ NewOnce(h, 0) /\ Kept(h)
  <1>1. /\ Consistent(a, 1, 0) /\ NewOnce(a, 1) /\ 1 \in Pending(c) /\ 1 \notin Pending(a)
        /\ a.entities = c.entities /\ a.list = c.list /\ Consistent(c, 0, 0)
        /\ 1 \in 1..Len(a.entities) /\ Pending(a) \subseteq Pending(c)
    BY DEF Taken
  <1>2. /\ CtxType(a) /\ CtxType(c) /\ ProcessOf(a, 0)
    BY <1>1 DEF Consistent
  <1>3. /\ Len(a.entities) \in Nat \ {0} /\ DOMAIN a.entities = 1..Len(a.entities)
        /\ a.entities[1] \in Row
    BY <1>1, <1>2, CtxFacts
  <1>4. ~IsActive(a.entities[1])
    <2>1. a.entities[1].count \in Int
      BY <1>3 DEF Row
    <2>. QED BY <2>1, <1>2 DEF ProcessOf
  <1>5. Type(a.entities[1]) = "process"
    BY <1>1, <1>3 DEF Consistent, ShapeOf
  <1>6. ~IsActivity(a.entities[1]) /\ ~a.entities[1].multi
    <2>1. ~IsActivity(a.entities[1])
      BY <1>5 DEF IsActivity, Activities
    <2>. QED BY <2>1, <1>1, MultiFacts
  <1>7. PICK e : e = AddCount(a, s, -1)
    OBVIOUS
  <1>8. WithScope(a, s) = a
    BY DEF WithScope, Listed
  <1>9. ContinuedWith(a, s, 1) = e
    <2>1. ContinueExecution(a, s, 1) = AddCount(a, s, -1)
      BY <1>4 DEF ContinueExecution
    <2>. QED BY <2>1, <1>6, <1>7 DEF ContinuedWith
  <1>10. PICK g : g = EndBoundaryEvents(ContinueSequence(e, 1), 1)
    OBVIOUS
  <1>11. h = EndScope(g, s)
    BY <1>8, <1>9, <1>10 DEF Iterated
  <1>12. /\ Consistent(e, 0, 0) /\ NewOnce(e, 0) /\ Len(e.entities) = Len(a.entities)
         /\ e.list = a.list /\ e.next = a.next
         /\ \A y \in 1..Len(a.entities) : /\ SameRow(e.entities[y], a.entities[y])
                                          /\ e.entities[y].state = a.entities[y].state
    BY <1>1, <1>4, <1>7, ProcessPassed
  <1>13. Consistent(e, 0, s)
    BY <1>12, AnyScope
  <1>14. ~IsActivity(e.entities[1])
    BY <1>1, <1>6, <1>12, RowLike
  <1>15. /\ Consistent(g, 0, s) /\ NewOnce(g, 0) /\ g.entities = e.entities
         /\ Pending(g) = Pending(e) /\ \A y : y # 0 => (Listed(g, y) <=> Listed(e, y))
    <2>1. PICK x : x = 1
      OBVIOUS
    <2>2. x \in 1..Len(e.entities) /\ ~IsActivity(e.entities[x])
          /\ g = EndBoundaryEvents(ContinueSequence(e, x), x)
      BY <2>1, <1>1, <1>10, <1>12, <1>14
    <2>. QED BY <2>2, <1>12, <1>13, NothingFollows
  <1>16. ~IsActive(g.entities[s]) /\ s \in 1..Len(g.entities)
    <2>1. ~IsActive(a.entities[s])
      BY <1>1, <1>4, AllEnded
    <2>. QED BY <2>1, <1>12, <1>15 DEF IsActive
  <1>17. Consistent(h, 0, 0) /\ NewOnce(h, 0)
    BY <1>11, <1>15, <1>16, EndsScope
  <1>18. /\ Len(h.entities) = Len(g.entities)
         /\ \A y \in 1..Len(g.entities) :
              /\ y # 1 => h.entities[y] = g.entities[y]
              /\ SameRow(h.entities[y], g.entities[y])
              /\ ~IsActive(g.entities[y]) => ~IsActive(h.entities[y])
         /\ Pending(h) = Pending(g) /\ \A y : Listed(h, y) <=> Listed(g, y)
    BY <1>11, <1>15, <1>16, ScopeEnded
  <1>19. Pending(e) = Pending(a) /\ \A y : Listed(e, y) <=> Listed(a, y)
    BY <1>12, SameList
  <1>20. \A y : Listed(a, y) <=> Listed(c, y)
    BY <1>1 DEF Listed
  <1>21. PICK A, x : A = {} /\ x = 1
    OBVIOUS
  <1>22. ASSUME NEW y \in 1..Len(c.entities) PROVE LedRow(c, h, x, x, A, y)
    <2>1. y # 0 /\ y \in 1..Len(a.entities) /\ y \in 1..Len(g.entities)
      BY <1>1, <1>3, <1>12, <1>15
    <2>2. SameRow(h.entities[y], c.entities[y])
      BY <2>1, <1>1, <1>12, <1>15, <1>18 DEF SameRow
    <2>3. h.entities[y].state = c.entities[y].state \/ y \in {1, x}
      BY <2>1, <1>1, <1>12, <1>15, <1>18
    <2>4. ~IsActive(c.entities[y]) => ~IsActive(h.entities[y])
      BY <2>1, <1>1, <1>12, <1>15, <1>18 DEF IsActive
    <2>5. (y \in Pending(h) => y \in Pending(c)) /\ (Listed(h, y) => Listed(c, y))
      BY <2>1, <1>1, <1>15, <1>18, <1>19, <1>20
    <2>. QED BY <2>2, <2>3, <2>4, <2>5 DEF LedRow
  <1>23. Led(c, h, x, x, A)
    <2>1. Len(h.entities) = Len(c.entities)
      BY <1>1, <1>12, <1>15, <1>18
    <2>2. ~IsBoundaryEvent(c.entities[x])
      BY <1>1, <1>5, <1>21 DEF IsBoundaryEvent, BoundaryEvents
    <2>. QED BY <2>1, <2>2, <1>1, <1>3, <1>21, <1>22 DEF Led
  <1>24. CtxType(h) /\ x \in Pending(c)
    BY <1>1, <1>17, <1>21 DEF Consistent
  <1>25. Kept(h)
    BY <1>2, <1>23, <1>24, KeptOn
  <1>. QED BY <1>17, <1>25

(* An iteration that finds an execution with a count. *)
LEMMA PassedKeeps ==
  ASSUME NEW c, NEW a, NEW x, Taken(c, a, x), a.entities[x].count > 0, RowsOK, Kept(c)
  PROVE  Consistent(a, 0, 0) /\ NewOnce(a, 0) /\ Kept(a)
  <1>1. Consistent(a, 0, 0) /\ NewOnce(a, 0)
    BY Passed
  <1>2. /\ x \in Pending(c) /\ a.entities = c.entities /\ a.list = c.list /\ Consistent(c, 0, 0)
        /\ Pending(a) \subseteq Pending(c)
    BY DEF Taken
  <1>3. CtxType(c) /\ CtxType(a)
    BY <1>1, <1>2 DEF Consistent
  <1>4. PICK A : A = {}
    OBVIOUS
  <1>5. \A y : Listed(a, y) <=> Listed(c, y)
    BY <1>2 DEF Listed
  <1>6. Len(c.entities) \in Nat
    BY <1>3, CtxFacts
  <1>7. \A y \in 1..Len(c.entities) : LedRow(c, a, x, x, A, y)
    BY <1>2, <1>4, <1>5 DEF LedRow, SameRow
  <1>8. Led(c, a, x, x, A)
    BY <1>2, <1>4, <1>6, <1>7 DEF Led
  <1>. QED BY <1>1, <1>2, <1>3, <1>8, KeptOn

TxOK == tx # Null => Consistent(tx, 0, 0) /\ NewOnce(tx, 0) /\ Kept(tx)

(* The inductive invariant *)
Inv == RowsOK /\ TxOK /\ (rows = <<>> => instance = "NONE")

LEMMA SameRows ==
  ASSUME Inv, UNCHANGED <<rows, instance>>
  PROVE  RowsOK' /\ (rows = <<>> => instance = "NONE")'
  BY DEF Inv, RowsOK, Context

LEMMA ContextKept ==
  ASSUME Inv, UNCHANGED <<rows, instance>>,
         NEW h, h = tx', Consistent(h, 0, 0), NewOnce(h, 0), Kept(h)
  PROVE  Inv'
  <1>1. NewOnce(tx, 0)'
    BY DEF NewOnce, IsNew
  <1>2. Kept(tx)'
    BY DEF Kept, KeptRow, Untouched
  <1>3. Consistent(tx, 0, 0)'
    OBVIOUS
  <1>. QED BY <1>1, <1>2, <1>3, SameRows DEF Inv, TxOK

LEMMA NoContext ==
  ASSUME Inv, UNCHANGED <<rows, instance>>, tx' = Null
  PROVE  Inv'
  BY SameRows DEF Inv, TxOK

(* Each iteration keeps the invariant. *)
LEMMA ContinueKeeps ==
  ASSUME Inv, Continue
  PROVE  Inv'
  <1>1. /\ tx # Null /\ tx.next <= Len(tx.list) /\ Current # 0
        /\ UNCHANGED <<rows, instance>>
    BY DEF Continue
  <1>2. PICK c : c = tx
    OBVIOUS
  <1>3. PICK x : x = Current
    OBVIOUS
  <1>4. PICK a : a = Advanced(c)
    OBVIOUS
  <1>5. Consistent(c, 0, 0) /\ NewOnce(c, 0) /\ Kept(c) /\ RowsOK
    BY <1>1, <1>2 DEF Inv, TxOK
  <1>6. x = c.list[c.next] /\ x # 0 /\ c.next <= Len(c.list)
    BY <1>1, <1>2, <1>3 DEF Current
  <1>7. Taken(c, a, x)
    BY <1>4, <1>5, <1>6, TakesNext
  <1>8. /\ Consistent(a, x, 0) /\ x \in 1..Len(a.entities) /\ a.entities = c.entities
        /\ a.list = c.list
    BY <1>7 DEF Taken
  <1>9. /\ a.entities[x].count \in Int /\ DOMAIN a.entities = 1..Len(a.entities)
        /\ Len(a.entities) \in Nat /\ ShapeOf(a.entities, x)
    <2>1. CtxType(a)
      BY <1>8 DEF Consistent
    <2>2. a.entities[x] \in Row /\ DOMAIN a.entities = 1..Len(a.entities) /\ Len(a.entities) \in Nat
      BY <1>8, <2>1, CtxFacts
    <2>. QED BY <1>8, <2>2 DEF Row, Consistent
  <1>10. PICK s : s = ScopeOf(c, x)
    OBVIOUS
  <1>11. CASE a.entities[x].count > 0
    <2>1. tx' = a
      <3>1. ~(a.entities[x].count <= 0)
        BY <1>9, <1>11
      <3>. QED BY <3>1, <1>2, <1>3, <1>4, <1>8 DEF Continue, Advanced
    <2>2. Consistent(a, 0, 0) /\ NewOnce(a, 0) /\ Kept(a)
      BY <1>5, <1>7, <1>11, PassedKeeps
    <2>. QED BY <1>1, <2>1, <2>2, ContextKept
  <1>12. CASE a.entities[x].count <= 0
    <2>1. PICK h : h = Iterated(a, s, x)
      OBVIOUS
    <2>2. s # 0 /\ tx' = h
      <3>1. ~(a.entities[x].count > 0)
        BY <1>9, <1>12
      <3>2. s = ScopeOf(tx, Current)
        BY <1>2, <1>3, <1>10
      <3>. QED BY <2>1, <3>1, <3>2, <1>2, <1>3, <1>4, <1>8 DEF Continue, Advanced, Iterated, ContinuedWith
    <2>3. CASE x # 1
      <3>1. s = a.entities[x].parent
        <4>1. c.entities[x].parent # 0
          BY <1>8, <1>9, <2>3 DEF ShapeOf
        <4>. QED BY <4>1, <1>8, <1>10 DEF ScopeOf
      <3>2. Consistent(h, 0, 0) /\ NewOnce(h, 0) /\ Kept(h)
        BY <1>5, <1>7, <1>12, <2>1, <2>3, <3>1, IterationKeeps
      <3>. QED BY <1>1, <2>2, <3>2, ContextKept
    <2>4. CASE x = 1
      <3>1. c.entities[x].parent = 0
        BY <1>8, <1>9, <2>4 DEF ShapeOf
      <3>2. PICK new : new = {k \in DOMAIN c.list : IsNew(c.list[k])}
        OBVIOUS
      <3>3. new # {} /\ s = c.list[CHOOSE k \in new : \A l \in new : k <= l]
        BY <3>1, <3>2, <2>2, <1>10 DEF ScopeOf
      <3>4. CtxType(c)
        BY <1>5 DEF Consistent
      <3>5. /\ DOMAIN c.list = 1..Len(c.list) /\ Len(c.list) \in Nat
            /\ \A k \in 1..Len(c.list) : c.list[k] \in 0..Len(c.entities)
        BY <3>4, CtxFacts
      <3>6. new \in SUBSET Nat
        BY <3>2, <3>5
      <3>7. \E k \in new : \A l \in new : k <= l
        BY <3>3, <3>6, LeastNumber
      <3>8. PICK k \in new : s = c.list[k]
        BY <3>3, <3>7
      <3>9. k \in DOMAIN c.list /\ s \in 0..Len(c.entities)
        BY <3>2, <3>5, <3>8
      <3>10. s \in 1..Len(a.entities)
        BY <3>9, <2>2, <1>8, <1>9
      <3>11. Listed(a, s)
        BY <3>8, <3>9, <1>8 DEF Listed
      <3>12. Taken(c, a, 1) /\ a.entities[1].count <= 0 /\ h = Iterated(a, s, 1)
        BY <2>1, <2>4, <1>7, <1>12
      <3>13. Consistent(h, 0, 0) /\ NewOnce(h, 0) /\ Kept(h)
        BY <3>10, <3>11, <3>12, <1>5, ProcessIterates
      <3>. QED BY <1>1, <2>2, <3>13, ContextKept
    <2>. QED BY <2>3, <2>4
  <1>. QED BY <1>9, <1>11, <1>12
==============================================================================
