----------------------- MODULE ProcessExecutionProofs ------------------------
(***************************************************************************)
(* Proofs about ProcessExecution, for processes of any size and instances  *)
(* with any number of executions: every command and task begins with a     *)
(* consistent context (its lemma ends in Keeps), the loop keeps it so      *)
(* (ContinueExecutionsProofs), and what is committed is consistent again.  *)
(***************************************************************************)
EXTENDS ContinueExecutionsProofs

(* A row that is inserted or updated is that of the context, but for its work *)
(* and whether its error code or timer is set.                                *)
InsertedRow(r, q, listed) ==
  /\ q \in Row /\ SameRow(q, r) /\ q.state = r.state /\ q.count = r.count
  /\ IsUnset(q) <=> IsUnset(r)
  /\ IsActivity(r) /\ IsActive(r) /\ q.work > 0 =>
       \/ q.work = r.work
       \/ listed /\ r.count = 0 /\ q.work = r.work + 1 /\ r.state \in {"CREATED", "STARTED"}
  /\ IsActive(r) /\ ~(listed /\ r.state \in {"CREATED", "STARTED"}) => q.work = r.work
  /\ q.work > 0 /\ IsMultiInstanceActivity(r) /\ r.state = "CREATED" => r.work > 0
  /\ IsBoundaryEvent(r) /\ IsActive(r) /\ ~q.context /\ Graph[r.element].defined =>
       ~(listed /\ r.count = 0 /\ ~r.context /\ r.state \in {"CREATED", "STARTED"})
  /\ r.context /\ IsActive(r) => q.context

LEMMA InsertedFacts ==
  ASSUME tx # Null, CtxType(tx), NEW x \in 1..Len(tx.entities),
         tx.entities[x].multi => Graph[tx.entities[x].element].multiple
  PROVE  InsertedRow(tx.entities[x], Inserted(x), Listed(tx, x))
  <1>1. PICK r \in Row : r = tx.entities[x]
    BY CtxFacts
  <1>2. PICK q : q = Inserted(x)
    OBVIOUS
  <1>3. IsMultiInstanceActivity(r) => IsActivity(r) /\ ~r.multi
    BY <1>1, ValidAssumption DEF IsMultiInstanceActivity, IsActivity, Type, Row
  <1>4. IsBoundaryEvent(r) => ~IsActivity(r) /\ Type(r) \in Events
    BY DEF IsBoundaryEvent, IsActivity, BoundaryEvents, Activities, Events
  <1>5. CASE ~IsActive(r)
    <2>1. q = [r EXCEPT !.work = 0]
      BY <1>1, <1>2, <1>5 DEF Inserted
    <2>2. /\ q \in Row /\ SameRow(q, r) /\ q.state = r.state /\ q.count = r.count
          /\ q.work = 0 /\ q.context = r.context
      BY <2>1 DEF Row, SameRow
    <2>3. IsUnset(q) <=> IsUnset(r)
      BY <1>5, <2>2 DEF IsUnset, IsActive
    <2>. QED BY <1>1, <1>2, <1>5, <2>2, <2>3 DEF InsertedRow
  <1>6. CASE IsActive(r) /\ Listed(tx, x) /\ NeedsWork(r)
    <2>1. q = WithWork(r)
      BY <1>1, <1>2, <1>6 DEF Inserted, Listed
    <2>2. /\ r.count = 0 /\ ~r.context
          /\ r.state = "STARTED" \/ (r.state = "CREATED" /\ (r.multi \/ ~IsActivity(r)))
      BY <1>6 DEF NeedsWork
    <2>3. Graph[r.element].defined \in BOOLEAN
      BY GraphAssumption DEF Row, Node
    <2>4. PICK b \in BOOLEAN : b = (Type(r) \in Events /\ Graph[r.element].defined)
      BY <2>3
    <2>5. PICK n \in Nat : n = r.work + (IF Type(r) = "errorBoundary" /\ Graph[r.element].defined THEN 0 ELSE 1)
      BY DEF Row
    <2>6. q = [r EXCEPT !.context = b, !.work = n]
      BY <2>1, <2>4, <2>5 DEF WithWork, Row
    <2>7. /\ q \in Row /\ SameRow(q, r) /\ q.state = r.state /\ q.count = r.count
          /\ q.context = b
      BY <2>6 DEF Row, SameRow
    <2>8. IsUnset(q) <=> IsUnset(r)
      <3>1. IsBoundaryEvent(q) <=> IsBoundaryEvent(r)
        BY <2>7, RowLike
      <3>2. q.element = r.element
        BY <2>7 DEF SameRow
      <3>. QED BY <2>2, <2>4, <2>7, <3>1, <3>2, <1>4 DEF IsUnset, IsActive
    <2>9. ~(IsMultiInstanceActivity(r) /\ r.state = "CREATED")
      BY <1>3, <2>2
    <2>10. IsActivity(r) => q.work = r.work + 1
      <3>1. IsActivity(r) => Type(r) # "errorBoundary"
        BY DEF IsActivity, Activities
      <3>2. q.work = n
        BY <2>6 DEF Row
      <3>. QED BY <3>1, <3>2, <2>5
    <2>11. Listed(tx, x) /\ r.count = 0 /\ r.state \in {"CREATED", "STARTED"}
      BY <1>6, <2>2
    <2>. QED BY <1>1, <1>2, <1>4, <1>6, <2>2, <2>4, <2>7, <2>8, <2>9, <2>10, <2>11 DEF InsertedRow
  <1>7. CASE IsActive(r) /\ ~(Listed(tx, x) /\ NeedsWork(r))
    <2>1. q = r
      BY <1>1, <1>2, <1>7 DEF Inserted, Listed
    <2>2. IsBoundaryEvent(r) /\ Listed(tx, x) /\ r.count = 0 /\ ~r.context =>
            r.state \notin {"CREATED", "STARTED"}
      BY <1>4, <1>7 DEF NeedsWork
    <2>. QED BY <1>1, <1>2, <2>1, <2>2 DEF InsertedRow, SameRow
  <1>. QED BY <1>5, <1>6, <1>7

LEMMA CommitKeeps ==
  ASSUME Inv, Commit
  PROVE  Inv'
  <1>1. PICK c : c = tx
    OBVIOUS
  <1>2. /\ tx # Null /\ c.next > Len(c.list) /\ instance' = c.instance /\ tx' = Null
        /\ rows' = [x \in DOMAIN c.entities |-> Inserted(x)]
    BY <1>1 DEF Commit
  <1>3. Consistent(c, 0, 0)
    BY <1>1, <1>2 DEF Inv, TxOK
  <1>4. /\ CtxType(c) /\ Order(c) /\ ProcessOf(c, 0)
        /\ \A x \in DOMAIN c.entities : ShapeOf(c.entities, x) /\ CountedRow(c, 0, x) /\ StateOf(c, x, 0)
    BY <1>3 DEF Consistent
  <1>5. /\ Len(c.entities) \in Nat \ {0} /\ DOMAIN c.entities = 1..Len(c.entities)
        /\ c.next \in Nat /\ Len(c.list) \in Nat /\ c.instance \in InstanceState
        /\ \A x \in 1..Len(c.entities) : c.entities[x] \in Row
    BY <1>4, CtxFacts
  <1>6. Pending(c) = {}
    BY <1>2, <1>5 DEF Pending
  <1>7. PICK d : d = Context(rows, <<>>)'
    OBVIOUS
  <1>8. d = [entities |-> rows', list |-> <<>>, next |-> 1, instance |-> c.instance]
    BY <1>2, <1>7 DEF Context
  <1>9. ASSUME NEW x \in 1..Len(c.entities) PROVE InsertedRow(c.entities[x], Inserted(x), Listed(c, x))
    <2>1. c.entities[x].multi => Graph[c.entities[x].element].multiple
      BY <1>4, <1>5 DEF ShapeOf
    <2>. QED BY <2>1, <1>1, <1>2, <1>4, InsertedFacts
  <1>10. rows' \in Seq(Row) /\ Len(rows') = Len(c.entities)
    <2>1. rows' \in [1..Len(c.entities) -> Row]
      BY <1>2, <1>5, <1>9 DEF InsertedRow
    <2>. QED BY <2>1, <1>5
  <1>11. CtxType(d) /\ Len(d.entities) = Len(c.entities) /\ d.instance = c.instance
    <2>1. d \in Contexts
      BY <1>5, <1>8, <1>10 DEF Contexts
    <2>2. /\ d.list \in Seq(0..Len(d.entities)) /\ d.next <= Len(d.list) + 1 /\ d.entities # <<>>
          /\ d.entities = rows' /\ d.instance = c.instance
      BY <1>5, <1>8, <1>10
    <2>. QED BY <2>1, <2>2, <1>10 DEF CtxType
  <1>12. /\ Pending(d) = {} /\ (\A x : ~Listed(d, x)) /\ Distinct(d)
    <2>1. (\A k \in d.next..Len(d.list) : FALSE) /\ (\A k \in DOMAIN d.list : FALSE)
      BY <1>8
    <2>. QED BY <2>1 DEF Pending, Listed, Distinct
  <1>13. ASSUME NEW x \in 1..Len(c.entities)
         PROVE  /\ SameCount(c, 0, d, 0, x) /\ d.entities[x].state = c.entities[x].state
                /\ SameRow(d.entities[x], c.entities[x]) /\ d.entities[x].count = c.entities[x].count
    <2>1. PICK r \in Row : r = c.entities[x]
      BY <1>5
    <2>2. PICK q : q = Inserted(x)
      OBVIOUS
    <2>3. d.entities[x] = q
      BY <1>2, <1>5, <1>8, <2>2
    <2>4. InsertedRow(r, q, Listed(c, x))
      BY <1>9, <2>1, <2>2
    <2>5. /\ q \in Row /\ SameRow(q, r) /\ q.state = r.state /\ q.count = r.count
          /\ IsUnset(q) <=> IsUnset(r)
          /\ IsActive(q) <=> IsActive(r)
      BY <2>4 DEF InsertedRow, IsActive
    <2>6. /\ Type(q) = Type(r) /\ q.element = r.element /\ q.prev = r.prev
          /\ IsActivity(q) = IsActivity(r) /\ IsBoundaryEvent(q) = IsBoundaryEvent(r)
          /\ IsMultiInstanceActivity(q) = IsMultiInstanceActivity(r)
      BY <2>5, RowLike
    <2>7. x # 0 /\ ~(x \in Pending(c) \/ x = 0) /\ ~(x \in Pending(d) \/ x = 0)
      BY <1>6, <1>12
    <2>8. PICK kids, unset : kids = Kids(c, 0, x) /\ unset = UnsetOf(c, x)
      OBVIOUS
    <2>9. RowState(r, x, kids, unset, FALSE, Listed(c, x))
      <3>1. RowState(r, x, kids, unset, x \in Pending(c) \/ x = 0, Listed(c, x))
        BY <1>4, <1>5, <2>1, <2>8 DEF StateOf
      <3>. QED BY <2>7, <3>1 DEF RowState
    <2>10. /\ Cardinality(kids) \in Nat /\ Cardinality(unset) \in Nat
           /\ Cardinality(kids) = 0 <=> kids = {}
           /\ Cardinality(unset) = 0 <=> unset = {}
      BY <1>4, <2>8, SetsOf
    <2>11. IsActive(r) => r.count = Cardinality(kids) - Cardinality(unset)
      BY <1>4, <1>5, <2>1, <2>8 DEF CountedRow
    <2>12. r.count = 0 /\ IsActive(r) => unset = {}
      <3>1. SUFFICES ASSUME r.count = 0, IsActive(r), unset # {} PROVE FALSE
        OBVIOUS
      <3>2. kids = {}
        BY <3>1, <2>9 DEF RowState
      <3>3. Cardinality(kids) = 0 /\ Cardinality(unset) # 0
        BY <3>1, <3>2, <2>10
      <3>. QED BY <3>1, <3>3, <2>10, <2>11
    <2>130. r.work \in Nat /\ q.work \in Nat
      BY <2>5 DEF Row
    <2>13. IsActivity(q) /\ IsActive(q) /\ q.work > 0 =>
             unset = {} /\ kids = {} /\ q.work = 1 /\ q.state # "SUSPENDED"
      <3>1. SUFFICES ASSUME IsActivity(q), IsActive(q), q.work > 0
                     PROVE  unset = {} /\ kids = {} /\ q.work = 1 /\ q.state # "SUSPENDED"
        OBVIOUS
      <3>2. IsActivity(r) /\ IsActive(r)
        BY <3>1, <2>5, <2>6
      <3>3. CASE q.work = r.work
        BY <3>1, <3>2, <3>3, <2>5, <2>9 DEF RowState
      <3>4. CASE Listed(c, x) /\ r.count = 0 /\ q.work = r.work + 1 /\ r.state \in {"CREATED", "STARTED"}
        <4>1. ~(r.work > 0)
          BY <3>2, <3>4, <2>9 DEF RowState
        <4>2. q.work = 1
          BY <4>1, <3>4, <2>130
        <4>3. unset = {}
          BY <3>2, <3>4, <2>12
        <4>4. Cardinality(kids) = 0
          BY <4>3, <3>2, <3>4, <2>10, <2>11
        <4>. QED BY <4>2, <4>3, <4>4, <3>4, <2>5, <2>10
      <3>. QED BY <3>1, <3>2, <3>3, <3>4, <2>4 DEF InsertedRow
    <2>14. IsMultiInstanceActivity(q) /\ q.state = "CREATED" => q.work = 0 /\ q.prev # 0
      <3>1. ASSUME IsMultiInstanceActivity(q), q.state = "CREATED" PROVE q.work = 0 /\ q.prev # 0
        <4>1. r.work = 0 /\ r.prev # 0
          BY <3>1, <2>5, <2>6, <2>9 DEF RowState
        <4>2. ~(q.work > 0)
          BY <3>1, <4>1, <2>4, <2>5, <2>6 DEF InsertedRow
        <4>3. q.work \in Nat
          BY <2>5 DEF Row
        <4>. QED BY <4>1, <4>2, <4>3, <2>6
      <3>. QED BY <3>1
    <2>150. IsBoundaryEvent(q) /\ q.state = "SUSPENDED" => q.work = 0
      <3>1. SUFFICES ASSUME IsBoundaryEvent(q), q.state = "SUSPENDED" PROVE q.work = 0
        OBVIOUS
      <3>2. r.state = "SUSPENDED" /\ IsBoundaryEvent(r) /\ IsActive(r)
        BY <3>1, <2>5, <2>6 DEF IsActive, Ended
      <3>3. r.work = 0
        BY <3>2, <2>9 DEF RowState
      <3>. QED BY <3>2, <3>3, <2>4 DEF InsertedRow
    <2>15. IsBoundaryEvent(q) /\ IsActive(q) /\ ~q.context /\ Graph[q.element].defined => q.work = 0
      <3>1. SUFFICES ASSUME IsBoundaryEvent(q), IsActive(q), ~q.context, Graph[q.element].defined,
                            q.work # 0
                     PROVE  FALSE
        OBVIOUS
      <3>2. IsBoundaryEvent(r) /\ IsActive(r) /\ Graph[r.element].defined
        BY <3>1, <2>5, <2>6
      <3>3. ~r.context
        BY <3>1, <3>2, <2>4 DEF InsertedRow
      <3>40. Listed(c, x) \/ r.work = 0
        BY <3>2, <3>3, <2>9 DEF RowState
      <3>41. (Listed(c, x) /\ r.state \in {"CREATED", "STARTED"}) \/ q.work = r.work
        BY <3>2, <2>4 DEF InsertedRow
      <3>42. Listed(c, x)
        BY <3>1, <3>40, <3>41
      <3>43. r.state # "NEW" /\ r.state # "QUEUED"
        BY <3>2, <2>9 DEF RowState
      <3>44. r.state # "SUSPENDED"
        BY <3>1, <2>150, <2>5
      <3>5. r.state \in {"CREATED", "STARTED"}
        BY <3>2, <3>43, <3>44, <2>1 DEF Row, InstanceState, IsActive
      <3>4. Listed(c, x)
        BY <3>42
      <3>6. kids = {}
        <4>1. \A y \in 1..Len(c.entities) : c.entities[y].parent # x
          BY <3>2, <2>1, <1>3, BoundaryNoScope
        <4>. QED BY <4>1, <2>8, <1>5 DEF Kids
      <3>7. unset = {}
        <4>1. SUFFICES ASSUME unset # {} PROVE FALSE
          OBVIOUS
        <4>2. PICK b \in DOMAIN c.entities : c.entities[b].prev = x /\ IsUnset(c.entities[b])
          BY <4>1, <2>8 DEF UnsetOf
        <4>3. IsActivity(c.entities[x])
          BY <4>2, <1>4 DEF ShapeOf, IsUnset
        <4>. QED BY <4>3, <3>2, <2>1 DEF IsActivity, IsBoundaryEvent, BoundaryEvents, Activities
      <3>8. r.count = 0
        <4>1. Cardinality(kids) = 0 /\ Cardinality(unset) = 0
          BY <3>6, <3>7, <2>10
        <4>. QED BY <4>1, <3>2, <2>11
      <3>9. ~(Listed(c, x) /\ r.count = 0 /\ ~r.context /\ r.state \in {"CREATED", "STARTED"})
        BY <3>1, <3>2, <2>4 DEF InsertedRow
      <3>. QED BY <3>3, <3>4, <3>5, <3>8, <3>9
    <2>16. RowState(q, x, kids, unset, FALSE, FALSE)
      BY <2>5, <2>6, <2>9, <2>13, <2>14, <2>15, <2>150 DEF RowState
    <2>17. RowState(q, x, Kids(c, 0, x), UnsetOf(c, x), x \in Pending(d) \/ x = 0, Listed(d, x))
      BY <2>7, <2>8, <2>16, <1>12 DEF RowState
    <2>18. SameCount(c, 0, d, 0, x)
      BY <2>1, <2>3, <2>5, <2>7, <2>17 DEF SameCount
    <2>. QED BY <2>1, <2>3, <2>5, <2>18
  <1>14. Order(d)
    BY <1>12 DEF Order
  <1>15. ProcessOf(d, 0)
    <2>1. 1 \in 1..Len(c.entities) /\ DOMAIN d.entities = 1..Len(c.entities)
      BY <1>5, <1>11, CtxFacts
    <2>2. d.entities[1].state = c.entities[1].state /\ d.entities[1].count = c.entities[1].count
      BY <1>13, <2>1
    <2>3. \A x \in 1..Len(c.entities) : Type(d.entities[x]) = Type(c.entities[x])
      BY <1>13, RowLike
    <2>. QED BY <2>1, <2>2, <2>3, <1>4, <1>5, <1>11 DEF ProcessOf, IsActive
  <1>16. Consistent(d, 0, 0)
    BY <1>3, <1>11, <1>12, <1>13, <1>14, <1>15, SameCounts
  <1>17. RowsOK'
    BY <1>7, <1>16 DEF RowsOK
  <1>18. rows' # <<>>
    BY <1>5, <1>10
  <1>. QED BY <1>2, <1>17, <1>18 DEF Inv, TxOK

(* What is within a row *)

ParentsIn(n, a, W) ==
  /\ n \in Nat /\ DOMAIN rows = 1..n /\ a \in 1..n /\ W \subseteq 1..n
  /\ \A x \in W : rows[x].parent \in 1..n /\ rows[x].parent < x

Decides(f, a, W) == f = [x \in DOMAIN rows |-> x = a \/ (x \in W /\ f[rows[x].parent])]

(* What Within is defined by has a solution: the least set of rows with a and *)
(* each row of W whose parent is in it.                                       *)
LEMMA WithinExists ==
  ASSUME NEW n, NEW a, NEW W, ParentsIn(n, a, W)
  PROVE  \E f : Decides(f, a, W)
  <1>. USE DEF ParentsIn
  <1>. DEFINE closed(T) == a \in T /\ \A x \in W : rows[x].parent \in T => x \in T
              D == {x \in 1..n : \A T \in SUBSET (1..n) : closed(T) => x \in T}
              f == [x \in 1..n |-> x \in D]
  <1>1. closed(D)
    <2>1. a \in D
      OBVIOUS
    <2>2. ASSUME NEW x \in W, rows[x].parent \in D PROVE x \in D
      BY <2>2
    <2>. QED BY <2>1, <2>2
  <1>2. ASSUME NEW x \in D, x # a PROVE x \in W /\ rows[x].parent \in D
    <2>1. SUFFICES ASSUME ~(x \in W /\ rows[x].parent \in D) PROVE FALSE
      OBVIOUS
    <2>2. closed(D \ {x})
      <3>1. a \in D \ {x}
        BY <1>1, <1>2
      <3>2. ASSUME NEW y \in W, rows[y].parent \in D \ {x} PROVE y \in D \ {x}
        <4>1. y \in D
          BY <1>1, <3>2
        <4>2. y # x
          BY <2>1, <3>2
        <4>. QED BY <4>1, <4>2
      <3>. QED BY <3>1, <3>2
    <2>3. D \ {x} \in SUBSET (1..n)
      OBVIOUS
    <2>4. x \in D \ {x}
      BY <2>2, <2>3
    <2>. QED BY <2>4
  <1>. HIDE DEF D
  <1>3. D \subseteq 1..n
    BY DEF D
  <1>4. \A x \in 1..n : (x \in D) = (x = a \/ (x \in W /\ rows[x].parent \in D))
    BY <1>1, <1>2
  <1>5. \A x \in 1..n : f[x] = (x = a \/ (x \in W /\ f[rows[x].parent]))
    <2>1. ASSUME NEW x \in 1..n PROVE f[x] = (x = a \/ (x \in W /\ f[rows[x].parent]))
      <3>1. CASE x \in W
        <4>1. rows[x].parent \in 1..n
          BY <3>1
        <4>2. f[rows[x].parent] = (rows[x].parent \in D)
          BY <4>1
        <4>. QED BY <3>1, <4>2, <1>4
      <3>2. CASE x \notin W
        BY <3>2, <1>4
      <3>. QED BY <3>1, <3>2
    <2>. QED BY <2>1
  <1>. HIDE DEF f
  <1>6. f = [x \in DOMAIN rows |-> x = a \/ (x \in W /\ f[rows[x].parent])]
    <2>1. f = [x \in 1..n |-> f[x]]
      BY DEF f
    <2>. QED BY <2>1, <1>5
  <1>. QED BY <1>6 DEF Decides

LEMMA WithinIs ==
  ASSUME NEW n, NEW a, NEW W, ParentsIn(n, a, W)
  PROVE  /\ Within(a, W) \subseteq 1..n /\ a \in Within(a, W)
         /\ \A x \in 1..n : x \in Within(a, W) <=> x = a \/ (x \in W /\ rows[x].parent \in Within(a, W))
  <1>. USE DEF ParentsIn
  <1>1. \E f : Decides(f, a, W)
    BY WithinExists
  <1>. DEFINE f == CHOOSE g : g = [x \in DOMAIN rows |-> x = a \/ (x \in W /\ g[rows[x].parent])]
  <1>2. f = [x \in DOMAIN rows |-> x = a \/ (x \in W /\ f[rows[x].parent])]
    BY <1>1 DEF Decides
  <1>3. Within(a, W) = {x \in DOMAIN rows : f[x]}
    BY DEF Within
  <1>. HIDE DEF f
  <1>4. \A x \in 1..n : f[x] = (x = a \/ (x \in W /\ f[rows[x].parent]))
    BY <1>2
  <1>5. \A x \in W : rows[x].parent \in 1..n
    OBVIOUS
  <1>. QED BY <1>3, <1>4, <1>5

(* What is active is within an active scope, which counts it. *)
LEMMA ScopeCounts ==
  ASSUME RowsOK, NEW y \in DOMAIN rows, y # 1, IsActive(rows[y]), NEW p, p = rows[y].parent
  PROVE  /\ p \in 1..Len(rows) /\ p < y /\ rows[p] \in Row /\ IsActive(rows[p]) /\ rows[p].count > 0
         /\ rows[p].state \in {"STARTED", "QUEUED", "SUSPENDED"} /\ IsScope(rows[p])
         /\ Idle(rows[p]) /\ UnsetOf(Context(rows, <<>>), p) = {}
  <1>1. PICK c : c = Context(rows, <<>>)
    OBVIOUS
  <1>2. /\ rows \in Seq(Row) /\ y \in 1..Len(rows) /\ Len(rows) \in Nat /\ rows[y] \in Row
        /\ ShapeOf(rows, y) /\ Consistent(c, 0, 0) /\ c.entities = rows
    BY <1>1, RowsFacts
  <1>3. p \in 1..Len(rows) /\ p < y /\ DOMAIN rows = 1..Len(rows)
    <2>1. p \in 0..y - 1 /\ p \in 1..Len(rows)
      BY <1>2, Referred
    <2>. QED BY <2>1, <1>2
  <1>4. /\ rows[p] \in Row /\ StateOf(c, p, 0) /\ CountedRow(c, 0, p)
    BY <1>1, <1>3, RowsFacts
  <1>5. IsActive(rows[p]) /\ IsScope(rows[p])
    <2>1. ActiveWithin(c)
      BY <1>2 DEF Consistent
    <2>. QED BY <2>1, <1>2, <1>3 DEF ActiveWithin, ShapeOf
  <1>6. Kids(c, 0, p) # {}
    BY <1>2, <1>3 DEF Kids
  <1>7. rows[p].state \in {"STARTED", "QUEUED", "SUSPENDED"} /\ UnsetOf(c, p) = {} /\ Idle(rows[p])
    <2>1. RowState(rows[p], p, Kids(c, 0, p), UnsetOf(c, p), p \in Pending(c) \/ p = 0, Listed(c, p))
      BY <1>2, <1>4 DEF StateOf
    <2>2. rows[p].state \in {"STARTED", "QUEUED", "SUSPENDED"}
      BY <2>1, <1>5, <1>6 DEF RowState
    <2>3. UnsetOf(c, p) = {}
      BY <2>1, <2>2 DEF RowState
    <2>4. rows[p].work \in Nat
      BY <1>4 DEF Row
    <2>5. Idle(rows[p])
      BY <2>1, <2>4, <1>5, <1>6 DEF RowState, Idle
    <2>. QED BY <2>2, <2>3, <2>5
  <1>8. rows[p].count > 0
    <2>1. CtxType(c)
      BY <1>2 DEF Consistent
    <2>2. Cardinality(Kids(c, 0, p)) \in Nat \ {0} /\ Cardinality(UnsetOf(c, p)) = 0
      BY <2>1, <1>6, <1>7, SetsOf
    <2>3. rows[p].count = Cardinality(Kids(c, 0, p)) - Cardinality(UnsetOf(c, p))
      BY <1>2, <1>4, <1>5 DEF CountedRow
    <2>. QED BY <2>2, <2>3
  <1>. QED BY <1>1, <1>3, <1>4, <1>5, <1>7, <1>8

(* Everything active below a, and nothing else. *)
BelowIs(a) ==
  /\ Below(a) \subseteq 1..Len(rows) /\ a \in Below(a)
  /\ \A y \in Below(a) : y >= a /\ IsActive(rows[y]) /\ (y # a => rows[y].parent \in Below(a))
  /\ \A y \in 1..Len(rows) : IsActive(rows[y]) /\ rows[y].parent \in Below(a) => y \in Below(a)

LEMMA BelowFacts ==
  ASSUME RowsOK, NEW a \in DOMAIN rows, IsActive(rows[a])
  PROVE  BelowIs(a)
  <1>1. PICK n \in Nat : n = Len(rows)
    BY RowsFacts
  <1>2. DOMAIN rows = 1..n /\ a \in 1..n
    <2>1. rows \in Seq(Row)
      BY RowsFacts
    <2>. QED BY <2>1, <1>1
  <1>3. \A y \in 1..n : ShapeOf(rows, y) /\ rows[y] \in Row
    BY <1>2, RowsFacts
  <1>4. PICK W : W = {x \in DOMAIN rows : /\ IsActive(rows[x]) /\ rows[x].parent # 0
                                          /\ rows[rows[x].parent].count > 0}
    OBVIOUS
  <1>5. Below(a) = Within(a, W)
    BY <1>4 DEF Below
  <1>6. ParentsIn(n, a, W)
    <2>1. ASSUME NEW x \in W PROVE rows[x].parent \in 1..n /\ rows[x].parent < x
      <3>1. x \in 1..n /\ rows[x].parent # 0
        BY <1>2, <1>4
      <3>2. rows[x].parent \in 0..x - 1 /\ rows[x].parent \in 0..n
        BY <3>1, <1>3, Referred
      <3>. QED BY <3>1, <3>2
    <2>. QED BY <2>1, <1>2, <1>4 DEF ParentsIn
  <1>7. /\ Below(a) \subseteq 1..n /\ a \in Below(a)
        /\ \A x \in 1..n : x \in Below(a) <=> x = a \/ (x \in W /\ rows[x].parent \in Below(a))
    BY <1>5, <1>6, WithinIs
  <1>8. ASSUME NEW y \in Below(a) PROVE y >= a
    <2>. DEFINE T == {z \in Below(a) : z < a}
    <2>1. SUFFICES ASSUME T # {} PROVE FALSE
      BY <1>7, <1>2
    <2>2. T \in SUBSET Nat
      BY <1>7
    <2>. HIDE DEF T
    <2>3. PICK z \in T : \A m \in T : z <= m
      BY <2>1, <2>2, LeastNumber
    <2>. USE DEF T
    <2>4. z \in Below(a) /\ z < a /\ z \in 1..n
      BY <1>7
    <2>5. z # a
      BY <2>4
    <2>6. z \in W /\ rows[z].parent \in Below(a)
      BY <2>4, <2>5, <1>7
    <2>7. rows[z].parent \in 1..n /\ rows[z].parent < z
      BY <2>6, <1>6 DEF ParentsIn
    <2>8. rows[z].parent < a
      BY <2>4, <2>7, <1>2
    <2>9. rows[z].parent \in T
      BY <2>6, <2>8
    <2>. HIDE DEF T
    <2>10. z <= rows[z].parent
      BY <2>3, <2>9
    <2>. QED BY <2>4, <2>7, <2>10
  <1>9. ASSUME NEW y \in Below(a)
        PROVE  IsActive(rows[y]) /\ (y # a => rows[y].parent \in Below(a))
    BY <1>4, <1>7
  <1>10. ASSUME NEW y \in 1..n, IsActive(rows[y]), rows[y].parent \in Below(a)
         PROVE  y \in Below(a)
    <2>1. rows[y].parent # 0 /\ y # 1
      <3>1. rows[y].parent # 0
        BY <1>7, <1>10
      <3>. QED BY <3>1, <1>3 DEF ShapeOf
    <2>2. rows[rows[y].parent].count > 0
      BY <2>1, <1>2, <1>10, ScopeCounts
    <2>3. y \in W
      BY <2>1, <2>2, <1>2, <1>4, <1>10
    <2>. QED BY <2>3, <1>7, <1>10
  <1>. QED BY <1>1, <1>7, <1>8, <1>9, <1>10 DEF BelowIs

(* What an error is thrown in is within what catches it. *)
LEMMA CatchesWithin ==
  ASSUME RowsOK, NEW x \in DOMAIN rows, NEW a \in DOMAIN rows, IsActive(rows[x]), x # a,
         x \in Within(a, {y \in DOMAIN rows : rows[y].parent # 0})
  PROVE  \E z \in DOMAIN rows : IsActive(rows[z]) /\ rows[z].parent = a
  <1>1. PICK n \in Nat : n = Len(rows)
    BY RowsFacts
  <1>2. DOMAIN rows = 1..n /\ a \in 1..n
    <2>1. rows \in Seq(Row)
      BY RowsFacts
    <2>. QED BY <2>1, <1>1
  <1>3. \A y \in 1..n : ShapeOf(rows, y) /\ rows[y] \in Row
    BY <1>2, RowsFacts
  <1>4. PICK W : W = {y \in DOMAIN rows : rows[y].parent # 0}
    OBVIOUS
  <1>5. ParentsIn(n, a, W)
    <2>1. ASSUME NEW y \in W PROVE rows[y].parent \in 1..n /\ rows[y].parent < y
      <3>1. y \in 1..n /\ rows[y].parent # 0
        BY <1>2, <1>4
      <3>2. rows[y].parent \in 0..y - 1 /\ rows[y].parent \in 0..n
        BY <3>1, <1>3, Referred
      <3>. QED BY <3>1, <3>2
    <2>. QED BY <2>1, <1>2, <1>4 DEF ParentsIn
  <1>6. PICK B : B = Within(a, W)
    OBVIOUS
  <1>7. /\ B \subseteq 1..n /\ a \in B /\ x \in B
        /\ \A y \in 1..n : y \in B <=> y = a \/ (y \in W /\ rows[y].parent \in B)
    BY <1>4, <1>5, <1>6, WithinIs
  <1>. DEFINE T == {y \in B : y # a /\ IsActive(rows[y])}
  <1>8. T # {} /\ T \in SUBSET Nat
    <2>1. x \in T
      BY <1>7
    <2>2. \A y \in T : y \in Nat
      BY <1>7
    <2>. HIDE DEF T
    <2>. QED BY <2>1, <2>2
  <1>. HIDE DEF T
  <1>9. PICK z \in T : \A m \in T : z <= m
    BY <1>8, LeastNumber
  <1>. USE DEF T
  <1>10. z \in 1..n /\ z \in W /\ rows[z].parent \in B /\ IsActive(rows[z])
    BY <1>7
  <1>11. rows[z].parent \in 1..n /\ rows[z].parent < z
    BY <1>5, <1>10 DEF ParentsIn
  <1>12. z # 1
    BY <1>11
  <1>13. IsActive(rows[rows[z].parent])
    BY <1>2, <1>10, <1>12, ScopeCounts
  <1>14. rows[z].parent = a
    <2>1. SUFFICES ASSUME rows[z].parent # a PROVE FALSE
      OBVIOUS
    <2>2. rows[z].parent \in T
      BY <2>1, <1>10, <1>13
    <2>. HIDE DEF T
    <2>3. z <= rows[z].parent
      BY <2>2, <1>9
    <2>. QED BY <2>3, <1>10, <1>11
  <1>. QED BY <1>2, <1>10, <1>14

(* How a command or task begins: some executions have ended, and a boundary   *)
(* event may be triggered.                                                    *)
BegunRow(q, r, pending, ended) ==
  /\ q \in Row /\ SameRow(q, r) /\ q.count = r.count /\ q.work <= r.work
  /\ ended => q.state = "TERMINATED" \/ (q.state = "COMPLETED" /\ ~IsActivity(r))
  /\ ~ended => \/ q.state = r.state /\ (q.context = r.context \/ ~IsBoundaryEvent(r))
               \/ /\ IsBoundaryEvent(r) /\ ~IsUnset(r) /\ IsActive(r) /\ pending
                  /\ q.state = "STARTED" /\ q.context = r.context
  /\ pending /\ ~ended => Idle(q)

(* With a scope all within it ends, and with an activity what it waits for. *)
EndedRows(E) ==
  /\ E \subseteq 2..Len(rows)
  /\ \A y \in E : IsActive(rows[y])
  /\ \A y \in 1..Len(rows) : IsActive(rows[y]) /\ rows[y].parent \in E => y \in E
  /\ \A y \in 1..Len(rows) : IsUnset(rows[y]) =>
       /\ y \in E => rows[y].prev \in E
       /\ rows[y].prev \in E /\ rows[y].state = "CREATED" => y \in E

Begun(d, E) ==
  /\ RowsOK /\ rows # <<>> /\ EndedRows(E)
  /\ CtxType(d) /\ Len(d.entities) = Len(rows) /\ d.instance = instance /\ Distinct(d)
  /\ d.next = 1
  /\ E \subseteq Pending(d) /\ \A y \in Pending(d) : IsActive(rows[y])
  /\ \A y \in 1..Len(rows) : BegunRow(d.entities[y], rows[y], y \in Pending(d), y \in E)
  /\ \A y \in E : rows[y].parent \in E => Before(d, y, rows[y].parent)

LEMMA BegunRows ==
  ASSUME NEW q, NEW r, NEW pending, NEW ended, BegunRow(q, r, pending, ended), r \in Row
  PROVE  /\ IsActive(q) <=> IsActive(r) /\ ~ended
         /\ IsUnset(q) <=> IsUnset(r) /\ ~ended
  <1>1. SameRow(q, r)
    BY DEF BegunRow
  <1>2. q.element = r.element /\ (IsBoundaryEvent(q) <=> IsBoundaryEvent(r))
    BY <1>1, RowLike
  <1>3. CASE ended
    <2>1. ~IsActive(q)
      BY <1>3 DEF BegunRow, IsActive, Ended
    <2>. QED BY <2>1, <1>3 DEF IsUnset
  <1>4. CASE ~ended /\ q.state = r.state /\ (q.context = r.context \/ ~IsBoundaryEvent(r))
    BY <1>2, <1>4 DEF IsActive, IsUnset
  <1>5. CASE ~ended /\ IsBoundaryEvent(r) /\ ~IsUnset(r) /\ IsActive(r) /\ q.state = "STARTED" /\ q.context = r.context
    BY <1>2, <1>5 DEF IsActive, IsUnset, Ended
  <1>. QED BY <1>3, <1>4, <1>5 DEF BegunRow

LEMMA BegunState ==
  ASSUME NEW q, NEW r, NEW y, NEW kids, NEW unset, NEW pending, NEW ended, NEW listed,
         BegunRow(q, r, pending, ended), r \in Row, pending => IsActive(r), ended => pending,
         listed => pending,
         RowState(r, y, kids, unset, FALSE, FALSE), unset # {} => IsActivity(r),
         NEW left, left \subseteq unset, ~ended => left = unset
  PROVE  RowState(q, y, kids, left, pending, listed)
  <1>1. SameRow(q, r) /\ q \in Row /\ q.work <= r.work
    BY DEF BegunRow
  <1>2. /\ q.element = r.element /\ (IsBoundaryEvent(q) <=> IsBoundaryEvent(r)) /\ Type(q) = Type(r)
        /\ IsActivity(q) <=> IsActivity(r)
        /\ IsMultiInstanceActivity(q) <=> IsMultiInstanceActivity(r)
        /\ q.prev = r.prev /\ q.work \in Nat /\ r.work \in Nat
    BY <1>1, RowLike DEF Row
  <1>3. /\ IsActive(q) <=> IsActive(r) /\ ~ended
        /\ IsUnset(q) <=> IsUnset(r) /\ ~ended
    BY BegunRows
  <1>4. CASE ended
    <2>1. q.state = "TERMINATED" \/ (q.state = "COMPLETED" /\ ~IsActivity(r))
      BY <1>4 DEF BegunRow
    <2>2. ~IsActive(q) /\ ~IsUnset(q) /\ (left # {} => q.state = "TERMINATED")
      BY <1>3, <1>4, <2>1
    <2>. QED BY <2>1, <2>2, <1>2 DEF RowState
  <1>5. CASE ~ended /\ q.state = r.state /\ (q.context = r.context \/ ~IsBoundaryEvent(r))
    <2>1. left = unset
      BY <1>5
    <2>2. q.work > 0 => r.work > 0
      BY <1>1, <1>2
    <2>3. r.work = 0 => q.work = 0
      BY <1>1, <1>2
    <2>4. r.state = "COMPLETED" => ~pending
      BY DEF IsActive, Ended
    <2>5. IsActivity(q) /\ IsActive(q) /\ q.work > 0 =>
            unset = {} /\ kids = {} /\ ~listed /\ q.work = 1 /\ q.state # "SUSPENDED"
      <3>1. SUFFICES ASSUME IsActivity(q), IsActive(q), q.work > 0
                     PROVE  unset = {} /\ kids = {} /\ ~listed /\ q.work = 1 /\ q.state # "SUSPENDED"
        OBVIOUS
      <3>2. unset = {} /\ kids = {} /\ r.work = 1 /\ q.state # "SUSPENDED"
        BY <3>1, <2>2, <1>2, <1>3, <1>5 DEF RowState
      <3>3. q.work = 1
        BY <3>1, <3>2, <1>1, <1>2
      <3>4. ~listed
        BY <3>1, <3>3, <1>5 DEF BegunRow, Idle
      <3>. QED BY <3>2, <3>3, <3>4
    <2>. QED BY <2>1, <2>3, <2>4, <2>5, <1>2, <1>3, <1>5 DEF RowState
  <1>6. CASE /\ ~ended /\ IsBoundaryEvent(r) /\ ~IsUnset(r) /\ IsActive(r) /\ pending
             /\ q.state = "STARTED" /\ q.context = r.context
    <2>2. ~IsActivity(r) /\ ~IsMultiInstanceActivity(r)
      BY <1>6, ValidAssumption DEF IsActivity, IsBoundaryEvent, BoundaryEvents, Activities, IsMultiInstanceActivity, Type, Row
    <2>1. left = {}
      BY <1>6, <2>2
    <2>3. ~IsUnset(q)
      BY <1>3, <1>6
    <2>4. ~r.context /\ Graph[r.element].defined => q.work = 0
      <3>1. ~r.context /\ Graph[r.element].defined => r.work = 0
        BY <1>6 DEF RowState
      <3>. QED BY <3>1, <1>1, <1>2
    <2>. QED BY <2>1, <2>2, <2>3, <2>4, <1>2, <1>3, <1>6 DEF RowState
  <1>. QED BY <1>4, <1>5, <1>6 DEF BegunRow

LEMMA BegunConsistent ==
  ASSUME NEW d, NEW E, Begun(d, E)
  PROVE  /\ Consistent(d, 0, 0) /\ NewOnce(d, 0)
         /\ \A y : Kids(d, 0, y) = Kids(Context(rows, <<>>), 0, y)
         /\ \A y \in 1..Len(rows) \ E : UnsetOf(d, y) = UnsetOf(Context(rows, <<>>), y)
  <1>1. PICK c : c = Context(rows, <<>>)
    OBVIOUS
  <1>2. PICK n \in Nat : n = Len(rows) /\ DOMAIN rows = 1..n /\ 1 \in 1..n
    <2>1. rows \in Seq(Row) /\ rows # <<>> /\ Len(rows) \in Nat
      <3>1. CtxType(c) /\ c.entities = rows
        BY <1>1 DEF Begun, RowsOK, Consistent, Context
      <3>. QED BY <3>1, CtxFacts
    <2>2. Len(rows) # 0
      BY <2>1, EmptySeq
    <2>. QED BY <2>1, <2>2
  <1>3. /\ RowsOK /\ CtxType(d) /\ Len(d.entities) = n /\ d.instance = instance /\ Distinct(d)
        /\ E \subseteq Pending(d) /\ EndedRows(E)
    BY <1>2 DEF Begun
  <1>4. DOMAIN d.entities = 1..n /\ Pending(d) \subseteq 1..n
    BY <1>3, CtxFacts
  <1>5. /\ Consistent(c, 0, 0) /\ c.entities = rows /\ Pending(c) = {} /\ c.instance = instance
        /\ \A x : ~Listed(c, x)
    <2>1. c.instance = instance
      BY <1>1 DEF Context
    <2>. QED BY <2>1, <1>1, <1>2, <1>3, RowsFacts
  <1>6. \A y \in 1..n : /\ rows[y] \in Row /\ ShapeOf(rows, y) /\ StateOf(c, y, 0) /\ CountedRow(c, 0, y)
    BY <1>1, <1>2, <1>3, RowsFacts
  <1>7. ASSUME NEW y \in 1..n
        PROVE  /\ BegunRow(d.entities[y], rows[y], y \in Pending(d), y \in E)
               /\ SameRow(d.entities[y], rows[y]) /\ d.entities[y].count = rows[y].count
               /\ d.entities[y].parent = rows[y].parent /\ d.entities[y].prev = rows[y].prev
               /\ IsActive(d.entities[y]) <=> IsActive(rows[y]) /\ y \notin E
               /\ IsUnset(d.entities[y]) <=> IsUnset(rows[y]) /\ y \notin E
               /\ y \in Pending(d) => IsActive(rows[y])
    <2>1. BegunRow(d.entities[y], rows[y], y \in Pending(d), y \in E)
      BY <1>2 DEF Begun
    <2>2. /\ IsActive(d.entities[y]) <=> IsActive(rows[y]) /\ y \notin E
          /\ IsUnset(d.entities[y]) <=> IsUnset(rows[y]) /\ y \notin E
      BY <2>1, <1>6, BegunRows
    <2>. QED BY <2>1, <2>2 DEF BegunRow, SameRow, Begun
  <1>8. ASSUME NEW x PROVE Kids(d, 0, x) = Kids(c, 0, x)
    <2>1. ASSUME NEW y \in 1..n PROVE y \in Kids(d, 0, x) <=> y \in Kids(c, 0, x)
      <3>1. y # 0 /\ y \notin Pending(c)
        BY <1>5
      <3>. QED BY <3>1, <1>2, <1>3, <1>4, <1>5, <1>7 DEF Kids
    <2>2. Kids(d, 0, x) \subseteq 1..n /\ Kids(c, 0, x) \subseteq 1..n
      BY <1>2, <1>4, <1>5 DEF Kids
    <2>. QED BY <2>1, <2>2
  <1>9. ASSUME NEW x \in 1..n
        PROVE  UnsetOf(d, x) \subseteq UnsetOf(c, x) /\ (x \notin E => UnsetOf(d, x) = UnsetOf(c, x))
    <2>1. ASSUME NEW y \in 1..n
          PROVE  /\ y \in UnsetOf(d, x) => y \in UnsetOf(c, x)
                 /\ x \notin E /\ y \in UnsetOf(c, x) => y \in UnsetOf(d, x)
      <3>1. IsUnset(rows[y]) => (y \in E => rows[y].prev \in E)
        BY <1>2, <1>3 DEF EndedRows
      <3>. QED BY <3>1, <1>2, <1>4, <1>5, <1>7 DEF UnsetOf
    <2>2. UnsetOf(d, x) \subseteq 1..n /\ UnsetOf(c, x) \subseteq 1..n
      BY <1>2, <1>4, <1>5 DEF UnsetOf
    <2>. QED BY <2>1, <2>2
  <1>10. \A x \in DOMAIN d.entities : ShapeOf(d.entities, x)
    BY <1>4, <1>6, <1>7, SameShape
  <1>11. ASSUME NEW y \in 1..n, y # 1, IsActive(rows[y])
         PROVE  /\ rows[y].parent \in 1..n /\ IsActive(rows[rows[y].parent])
                /\ rows[y].parent \in E => y \in E
    <2>1. rows[y].parent \in 1..n /\ IsActive(rows[rows[y].parent])
      BY <1>2, <1>3, <1>11, ScopeCounts
    <2>. QED BY <2>1, <1>2, <1>3, <1>11 DEF EndedRows
  <1>12. ActiveWithin(d)
    BY <1>4, <1>7, <1>11 DEF ActiveWithin
  <1>13. Order(d)
    <2>1. SUFFICES ASSUME NEW y \in Pending(d), y # 1, ~IsActive(d.entities[d.entities[y].parent])
                   PROVE  Before(d, y, d.entities[y].parent)
      BY DEF Order
    <2>2. y \in 1..n /\ IsActive(rows[y]) /\ d.entities[y].parent = rows[y].parent
      BY <1>4, <1>7
    <2>3. rows[y].parent \in 1..n /\ rows[y].parent \in E
      BY <2>1, <2>2, <1>7, <1>11
    <2>4. y \in E
      BY <2>1, <2>2, <2>3, <1>11
    <2>. QED BY <2>2, <2>3, <2>4 DEF Begun
  <1>14. ASSUME NEW y \in DOMAIN d.entities PROVE CountedRow(d, 0, y)
    <2>1. /\ Cardinality(Kids(c, 0, y)) \in Nat /\ Cardinality(UnsetOf(c, y)) \in Nat
          /\ rows[y].count \in Int
      <3>1. CtxType(c)
        BY <1>5 DEF Consistent
      <3>. QED BY <3>1, <1>4, <1>6, SetsOf DEF Row
    <2>2. CountedRow(c, 0, y) /\ Kids(d, 0, y) = Kids(c, 0, y) /\ d.entities[y].count = rows[y].count
      BY <1>4, <1>6, <1>7, <1>8
    <2>3. CASE y \in E
      <3>1. IsActive(rows[y]) /\ ~IsActive(d.entities[y])
        BY <2>3, <1>3, <1>4, <1>7 DEF EndedRows
      <3>2. rows[y].count = Cardinality(Kids(c, 0, y)) - Cardinality(UnsetOf(c, y))
        BY <3>1, <2>2, <1>5 DEF CountedRow
      <3>3. rows[y].count <= Cardinality(Kids(c, 0, y))
        BY <3>2, <2>1
      <3>. QED BY <3>1, <3>3, <2>2 DEF CountedRow
    <2>4. CASE y \notin E
      <3>1. IsActive(rows[y]) <=> IsActive(d.entities[y])
        BY <2>4, <1>4, <1>7
      <3>2. UnsetOf(d, y) = UnsetOf(c, y)
        BY <2>4, <1>4, <1>9
      <3>. QED BY <3>1, <3>2, <2>2, <1>5 DEF CountedRow
    <2>. QED BY <2>3, <2>4
  <1>15. ASSUME NEW y \in DOMAIN d.entities PROVE StateOf(d, y, 0)
    <2>1. PICK kids, unset, left : kids = Kids(c, 0, y) /\ unset = UnsetOf(c, y) /\ left = UnsetOf(d, y)
      OBVIOUS
    <2>2. y \in 1..n /\ y # 0
      BY <1>4
    <2>3. RowState(rows[y], y, kids, unset, FALSE, FALSE)
      <3>1. RowState(rows[y], y, kids, unset, y \in Pending(c) \/ y = 0, Listed(c, y))
        BY <2>1, <2>2, <1>5, <1>6 DEF StateOf
      <3>. QED BY <3>1, <2>2, <1>5 DEF RowState
    <2>4. unset # {} => IsActivity(rows[y])
      <3>1. SUFFICES ASSUME unset # {} PROVE IsActivity(rows[y])
        OBVIOUS
      <3>2. PICK b \in 1..n : rows[b].prev = y /\ IsUnset(rows[b])
        BY <3>1, <2>1, <1>2, <1>5 DEF UnsetOf
      <3>. QED BY <3>2, <1>6 DEF ShapeOf, IsUnset
    <2>5. left \subseteq unset /\ (y \notin E => left = unset)
      BY <2>1, <2>2, <1>9
    <2>61. PICK pending : pending = (y \in Pending(d))
      OBVIOUS
    <2>62. PICK ended : ended = (y \in E)
      OBVIOUS
    <2>63. PICK listed \in BOOLEAN : listed = Listed(d, y)
      BY DEF Listed
    <2>6. pending = (y \in Pending(d)) /\ ended = (y \in E) /\ listed = Listed(d, y)
      BY <2>61, <2>62, <2>63
    <2>7. BegunRow(d.entities[y], rows[y], pending, ended)
      BY <2>2, <2>6, <1>7
    <2>80. listed => pending
      <3>1. SUFFICES ASSUME Listed(d, y) PROVE y \in Pending(d)
        BY <2>6
      <3>2. PICK k \in DOMAIN d.list : d.list[k] = y
        BY <3>1 DEF Listed
      <3>3. k \in d.next..Len(d.list)
        BY <3>2, <1>3, CtxFacts DEF Begun
      <3>. QED BY <3>2, <3>3, <2>2 DEF Pending
    <2>8. /\ pending => IsActive(rows[y])
          /\ ended => pending
          /\ listed => pending
          /\ left \subseteq unset
          /\ ~ended => left = unset
      BY <2>2, <2>5, <2>6, <2>80, <1>3, <1>7
    <2>9. RowState(d.entities[y], y, kids, left, pending, listed)
      BY <2>2, <2>3, <2>4, <2>7, <2>8, <1>6, BegunState
    <2>10. (y \in Pending(d) \/ y = 0) = pending
      BY <2>2, <2>6
    <2>. QED BY <2>1, <2>6, <2>9, <2>10, <1>8 DEF StateOf
  <1>16. ProcessOf(d, 0)
    <2>1. ProcessOf(c, 0)
      BY <1>5 DEF Consistent
    <2>2. Type(rows[1]) = "process" /\ 1 \notin E /\ ~IsBoundaryEvent(rows[1])
      <3>1. Type(rows[1]) = "process"
        BY <1>2, <1>6 DEF ShapeOf
      <3>2. 1 \notin E
        BY <1>3 DEF EndedRows
      <3>. QED BY <3>1, <3>2 DEF IsBoundaryEvent, BoundaryEvents
    <2>3. d.entities[1].state = rows[1].state /\ d.entities[1].count = rows[1].count
      BY <2>2, <1>2, <1>7 DEF BegunRow
    <2>4. \A x \in 1..n : Type(d.entities[x]) = Type(rows[x])
      BY <1>7, RowLike
    <2>. QED BY <2>1, <2>3, <2>4, <1>2, <1>3, <1>4, <1>5 DEF ProcessOf, IsActive
  <1>17. Consistent(d, 0, 0)
    BY <1>3, <1>10, <1>12, <1>13, <1>14, <1>15, <1>16 DEF Consistent
  <1>18. NewOnce(d, 0)
    BY <1>2, <1>4 DEF NewOnce, IsNew
  <1>. QED BY <1>1, <1>2, <1>8, <1>9, <1>17, <1>18

LEMMA BegunKept ==
  ASSUME NEW d, NEW E, Begun(d, E),
         \A y \in 1..Len(rows) :
           IsBoundaryEvent(rows[y]) /\ rows[y].state = "CREATED" /\ d.entities[y].state # "CREATED" =>
             rows[y].prev \in E \/ Untouched(d, rows[y].prev),
         \A y \in Pending(d) :
           IsMultiInstanceActivity(rows[y]) /\ rows[y].state = "CREATED" =>
             rows[y].prev \in E \/ ~IsActive(rows[rows[y].prev])
  PROVE  Kept(d)
  <1>1. /\ RowsOK /\ rows # <<>> /\ CtxType(d) /\ Len(d.entities) = Len(rows) /\ E \subseteq Pending(d)
        /\ \A y \in 1..Len(rows) : BegunRow(d.entities[y], rows[y], y \in Pending(d), y \in E)
        /\ E \subseteq 2..Len(rows)
    BY DEF Begun, EndedRows
  <1>2. Len(rows) \in Nat /\ DOMAIN rows = 1..Len(rows) /\ rows \in Seq(Row)
    <2>1. CtxType(Context(rows, <<>>)) /\ Context(rows, <<>>).entities = rows
      BY <1>1 DEF RowsOK, Consistent, Context
    <2>. QED BY <2>1, CtxFacts
  <1>3. ASSUME NEW z \in 1..Len(rows), ~IsActive(rows[z]) \/ z \in E PROVE ~IsActive(d.entities[z])
    <2>1. BegunRow(d.entities[z], rows[z], z \in Pending(d), z \in E) /\ rows[z] \in Row
      BY <1>1, <1>2, RowsFacts
    <2>2. PICK pending : pending = (z \in Pending(d))
      OBVIOUS
    <2>3. PICK ended : ended = (z \in E)
      OBVIOUS
    <2>4. BegunRow(d.entities[z], rows[z], pending, ended)
      BY <2>1, <2>2, <2>3
    <2>5. IsActive(d.entities[z]) <=> IsActive(rows[z]) /\ ~ended
      BY <2>1, <2>4, BegunRows
    <2>. QED BY <2>3, <2>5, <1>3
  <1>4. ASSUME NEW y \in 1..Len(rows) PROVE KeptRow(d, y)
    <2>1. BegunRow(d.entities[y], rows[y], y \in Pending(d), y \in E) /\ rows[y] \in Row /\ ShapeOf(rows, y)
      BY <1>1, <1>2, RowsFacts
    <2>2. rows[y].prev # 0 => rows[y].prev \in 1..Len(rows)
      <3>1. rows[y].prev \in 0..Len(rows)
        BY <2>1, <1>2, Referred
      <3>. QED BY <3>1, <1>2
    <2>3. ASSUME IsBoundaryEvent(rows[y]), rows[y].state = "CREATED", d.entities[y].state # "CREATED"
          PROVE  ~IsActive(d.entities[rows[y].prev]) \/ Untouched(d, rows[y].prev)
      <3>1. \A z \in E : z \in 1..Len(rows)
        BY <1>1, <1>2
      <3>2. rows[y].prev # 0
        BY <2>1, <2>3 DEF ShapeOf
      <3>. QED BY <3>1, <3>2, <2>2, <2>3, <1>3
    <2>4. ASSUME IsMultiInstanceActivity(rows[y]), rows[y].state = "CREATED",
                 d.entities[y].state # "CREATED" \/ y \in Pending(d)
          PROVE  ~IsActive(d.entities[rows[y].prev])
      <3>1. ~IsBoundaryEvent(rows[y])
        BY <2>1, <2>4, ValidAssumption
           DEF IsActivity, IsBoundaryEvent, BoundaryEvents, Activities, IsMultiInstanceActivity, Type, Row
      <3>2. y \in Pending(d)
        BY <3>1, <2>1, <2>4, <1>1 DEF BegunRow
      <3>3. rows[y].prev \in E \/ ~IsActive(rows[rows[y].prev])
        BY <3>2, <2>4
      <3>4. rows[y].prev # 0
        <4>1. StateOf(Context(rows, <<>>), y, 0) /\ Context(rows, <<>>).entities = rows
          BY <1>1, <1>2, RowsFacts
        <4>. QED BY <4>1, <2>4 DEF StateOf, RowState
      <3>. QED BY <3>3, <3>4, <2>2, <1>3
    <2>. QED BY <2>1, <2>3, <2>4 DEF KeptRow, BegunRow
  <1>. QED BY <1>1, <1>2, <1>4 DEF Kept

(* What a command or task continues has no open job. *)
LEMMA PendingIdle ==
  ASSUME NEW c, Consistent(c, 0, 0), NEW y \in Pending(c), IsActive(c.entities[y])
  PROVE  Listed(c, y) /\ Idle(c.entities[y])
  <1>1. CtxType(c)
    BY DEF Consistent
  <1>2. y \in 1..Len(c.entities) /\ y \in DOMAIN c.entities /\ c.entities[y] \in Row
    BY <1>1, CtxFacts
  <1>3. PICK k \in c.next..Len(c.list) : c.list[k] = y
    BY DEF Pending
  <1>4. k \in DOMAIN c.list
    BY <1>1, <1>3, CtxFacts
  <1>5. Listed(c, y)
    BY <1>3, <1>4 DEF Listed
  <1>6. StateOf(c, y, 0)
    BY <1>2 DEF Consistent
  <1>. QED BY <1>2, <1>5, <1>6, ListedIdle

(* A command or task continues x within its scope, after row x has become r. *)
Opened(c, x, s, r, E) ==
  /\ Begun(c, E) /\ Consistent(c, 0, 0) /\ NewOnce(c, 0) /\ CtxType(c)
  /\ x \in 2..Len(rows) /\ s \in 1..Len(rows) /\ s < x /\ s = rows[x].parent /\ Len(rows) \in Nat
  /\ Len(c.entities) = Len(rows) /\ c.entities[x] = r /\ r \in Row /\ SameRow(r, rows[x])
  /\ \A y \in 1..Len(rows) : y # x => c.entities[y] = rows[y]
  /\ Pending(c) = {s, x} /\ ~IsNew(s) /\ ~IsNew(x)
  /\ rows[s].state \in {"STARTED", "QUEUED", "SUSPENDED"} /\ IsScope(rows[s])
  /\ rows[s].state = "QUEUED" => Type(rows[x]) = "startEvent"
  /\ c = Context([rows EXCEPT ![x] = r], <<s, x>>)

LEMMA Opens ==
  ASSUME RowsOK, NEW x \in DOMAIN rows, x # 1, IsActive(rows[x]),
         NEW E \in SUBSET {x}, EndedRows(E), NEW r, BegunRow(r, rows[x], TRUE, x \in E),
         NEW s, s = rows[x].parent, NEW c, c = Context([rows EXCEPT ![x] = r], <<s, x>>)
  PROVE  Opened(c, x, s, r, E)
  <1>1. PICK n \in Nat : n = Len(rows) /\ DOMAIN rows = 1..n
    <2>1. rows \in Seq(Row) /\ Len(rows) \in Nat
      BY RowsFacts
    <2>. QED BY <2>1
  <1>2. /\ rows \in Seq(Row) /\ x \in 2..n /\ rows # <<>>
        /\ \A y \in 1..n : rows[y] \in Row
        /\ Consistent(Context(rows, <<>>), 0, 0)
    <2>1. rows \in Seq(Row) /\ \A y \in 1..n : rows[y] \in Row
      BY <1>1, RowsFacts
    <2>2. x \in 1..n /\ rows # <<>>
      BY <1>1, <2>1
    <2>. QED BY <2>1, <2>2, <1>1 DEF RowsOK
  <1>3. /\ s \in 1..n /\ s < x /\ IsActive(rows[s])
        /\ rows[s].state \in {"STARTED", "QUEUED", "SUSPENDED"} /\ IsScope(rows[s])
        /\ Idle(rows[s])
    BY <1>1, ScopeCounts
  <1>4. r \in Row /\ SameRow(r, rows[x])
    BY DEF BegunRow
  <1>5. PICK e : e = [rows EXCEPT ![x] = r]
    OBVIOUS
  <1>6. e \in Seq(Row) /\ Len(e) = n /\ e[x] = r /\ \A y \in 1..n : y # x => e[y] = rows[y]
    <2>1. /\ e \in Seq(Row) /\ Len(e) = Len(rows)
          /\ \A y \in 1..Len(rows) : e[y] = IF y = x THEN r ELSE rows[y]
      BY <1>1, <1>2, <1>4, <1>5, ExceptSeq
    <2>. QED BY <2>1, <1>1, <1>2
  <1>7. PICK L : L = <<s, x>>
    OBVIOUS
  <1>8. L \in Seq(0..n) /\ L \in Seq(Nat) /\ Len(L) = 2 /\ L[1] = s /\ L[2] = x
    BY <1>2, <1>3, <1>7
  <1>9. c.entities = e /\ c.list = L /\ c.next = 1 /\ c.instance = instance
        /\ c = [entities |-> e, list |-> L, next |-> 1, instance |-> instance]
    BY <1>5, <1>7 DEF Context
  <1>10. CtxType(c) /\ Len(c.entities) = n
    <2>1. instance \in InstanceState
      BY <1>2 DEF Consistent, CtxType, Contexts, Context
    <2>2. c \in Contexts
      BY <2>1, <1>6, <1>8, <1>9 DEF Contexts
    <2>3. e # <<>>
      BY <1>2, <1>6
    <2>. QED BY <2>2, <2>3, <1>6, <1>8, <1>9 DEF CtxType
  <1>11. c.next..Len(c.list) = {1, 2}
    <2>1. \A k : k \in 1..2 <=> k \in {1, 2}
      OBVIOUS
    <2>. QED BY <2>1, <1>8, <1>9
  <1>12. Pending(c) = {s, x}
    <2>1. s # 0 /\ x # 0
      BY <1>2, <1>3
    <2>2. \A z : z \in Pending(c) <=> z \in {s, x}
      BY <2>1, <1>8, <1>9, <1>11, SMTT(20) DEF Pending
    <2>. QED BY <2>2
  <1>13. Distinct(c)
    <2>1. s # x
      BY <1>2, <1>3
    <2>. QED BY <2>1, <1>8, <1>9, <1>11 DEF Distinct
  <1>14. Begun(c, E)
    <2>1. E \subseteq Pending(c) /\ \A y \in Pending(c) : IsActive(rows[y])
      BY <1>3, <1>12
    <2>2. ASSUME NEW y \in 1..n PROVE BegunRow(c.entities[y], rows[y], y \in Pending(c), y \in E)
      <3>1. CASE y = x
        <4>1. x \in Pending(c)
          BY <1>12
        <4>. QED BY <4>1, <3>1, <1>6, <1>9 DEF BegunRow
      <3>2. CASE y # x
        <4>1. c.entities[y] = rows[y] /\ y \notin E /\ rows[y] \in Row
          BY <3>2, <1>2, <1>6, <1>9
        <4>2. y \in Pending(c) => Idle(rows[y])
          BY <3>2, <1>3, <1>12
        <4>. QED BY <4>1, <4>2 DEF BegunRow, SameRow, Row
      <3>. QED BY <3>1, <3>2
    <2>3. \A y \in E : rows[y].parent \notin E
      <3>1. s # x
        BY <1>2, <1>3
      <3>. QED BY <3>1
    <2>. QED BY <2>1, <2>2, <2>3, <1>1, <1>2, <1>9, <1>10, <1>13 DEF Begun
  <1>15. Consistent(c, 0, 0) /\ NewOnce(c, 0)
    BY <1>14, BegunConsistent
  <1>16. ~IsNew(s) /\ ~IsNew(x)
    BY <1>1, <1>2, <1>3 DEF IsNew
  <1>17. rows[s].state = "QUEUED" => Type(rows[x]) = "startEvent"
    <2>1. SUFFICES ASSUME rows[s].state = "QUEUED" PROVE Type(rows[x]) = "startEvent"
      OBVIOUS
    <2>2. PICK z : z = Context(rows, <<>>)
      OBVIOUS
    <2>3. ProcessOf(z, 0) /\ z.entities = rows /\ StateOf(z, s, 0)
      <3>1. z.entities = rows /\ StateOf(z, s, 0)
        BY <2>2, <1>1, <1>3, RowsFacts
      <3>. QED BY <3>1, <2>2, <1>2 DEF Consistent
    <2>4. s = 1
      <3>1. s = 1 \/ Type(rows[s]) = "startEvent"
        BY <2>1, <2>3 DEF StateOf, RowState
      <3>2. IsScope(rows[s]) => s = 1 \/ Type(rows[s]) # "startEvent"
        <4>1. ShapeOf(rows, s)
          BY <1>1, <1>3, RowsFacts
        <4>2. rows[s].multi => Type(rows[s]) \in Activities
          BY <4>1, <1>2, <1>3, ValidAssumption DEF ShapeOf, Type, Row
        <4>. QED BY <4>2 DEF IsScope, Activities
      <3>. QED BY <3>1, <3>2, <1>3
    <2>5. x \in DOMAIN rows \ {1}
      BY <1>1, <1>2
    <2>. QED BY <2>1, <2>3, <2>4, <2>5 DEF ProcessOf
  <1>. QED BY <1>1, <1>2, <1>3, <1>4, <1>5, <1>6, <1>7, <1>9, <1>10, <1>12, <1>14, <1>15, <1>16, <1>17 DEF Opened

LEMMA NothingEnds == EndedRows({})
  BY DEF EndedRows

LEMMA MovedKept ==
  ASSUME NEW c, NEW x, NEW s, NEW r, NEW E, Opened(c, x, s, r, E), rows[x].work > 0,
         ~IsBoundaryEvent(rows[x]), NEW h, CtxType(h), Moves(c, h, x, s)
  PROVE  Kept(h)
  <1>1. /\ RowsOK /\ CtxType(c) /\ Len(c.entities) = Len(rows) /\ Len(rows) \in Nat
        /\ c.entities[x] = r /\ SameRow(r, rows[x])
        /\ \A y \in 1..Len(rows) : y # x => c.entities[y] = rows[y]
        /\ Pending(c) = {s, x} /\ x \in 2..Len(rows) /\ s \in 1..Len(rows)
        /\ rows[s].state \in {"STARTED", "QUEUED", "SUSPENDED"}
    BY DEF Opened, Begun
  <1>2. DOMAIN rows = 1..Len(rows)
    <2>1. rows # <<>>
      BY DEF Opened, Begun
    <2>2. CtxType(Context(rows, <<>>)) /\ Context(rows, <<>>).entities = rows
      BY <1>1, <2>1 DEF RowsOK, Consistent, Context
    <2>. QED BY <2>2, CtxFacts
  <1>3. Len(rows) <= Len(h.entities) /\ \A y \in 1..Len(rows) : MovedRow(c, h, x, s, y)
    BY <1>1 DEF Moves
  <1>4. ASSUME NEW y \in 1..Len(rows) PROVE KeptRow(h, y)
    <2>1. MovedRow(c, h, x, s, y)
      BY <1>3
    <2>2. SameRow(h.entities[y], rows[y])
      BY <2>1, <1>1 DEF MovedRow, SameRow
    <2>3. IsBoundaryEvent(rows[y]) => h.entities[y].state = rows[y].state
      BY <2>1, <1>1 DEF MovedRow
    <2>4. ASSUME IsMultiInstanceActivity(rows[y]), rows[y].state = "CREATED" PROVE y # x /\ y # s
      <3>1. StateOf(Context(rows, <<>>), y, 0) /\ Context(rows, <<>>).entities = rows
            /\ rows[y] \in Row
        BY <1>1, <1>2, RowsFacts
      <3>2. rows[y].work = 0
        BY <3>1, <2>4 DEF StateOf, RowState
      <3>. QED BY <3>2, <2>4, <1>1
    <2>5. IsMultiInstanceActivity(rows[y]) /\ rows[y].state = "CREATED" =>
            h.entities[y].state = "CREATED" /\ y \notin Pending(h)
      BY <2>1, <2>4, <1>1 DEF MovedRow
    <2>. QED BY <2>2, <2>3, <2>5 DEF KeptRow
  <1>. QED BY <1>3, <1>4 DEF Kept

LEMMA OpenedMoves ==
  ASSUME NEW c, NEW x, NEW s, CtxType(c)
  PROVE  Moves(c, c, x, s)
  <1>1. Len(c.entities) \in Nat
    BY CtxFacts
  <1>. QED BY <1>1 DEF Moves, MovedRow, SameRow

WorkedRow(x) == [rows[x] EXCEPT !.work = @ - 1]

LEMMA WorkIs ==
  ASSUME Inv, NEW x, NEW T, Work(x, T), "process" \notin T
  PROVE  /\ RowsOK /\ x \in DOMAIN rows /\ x # 1 /\ rows[x] \in Row /\ tx = Null
         /\ IsActive(rows[x]) /\ rows[x].work > 0 /\ Type(rows[x]) \in T
         /\ Worked(x) = [rows EXCEPT ![x] = WorkedRow(x)] /\ Parent(x) = rows[x].parent
         /\ Idle(WorkedRow(x)) /\ (IsActivity(rows[x]) => rows[x].state # "SUSPENDED")
  <1>1. RowsOK /\ x \in DOMAIN rows /\ IsActive(rows[x]) /\ rows[x].work > 0 /\ Type(rows[x]) \in T
        /\ tx = Null
    BY DEF Inv, Work
  <1>2. rows[x] \in Row /\ ShapeOf(rows, x)
    BY <1>1, RowsFacts
  <1>3. x # 1
    BY <1>1, <1>2 DEF ShapeOf
  <1>4. Idle(WorkedRow(x)) /\ (IsActivity(rows[x]) => rows[x].state # "SUSPENDED")
    <2>1. StateOf(Context(rows, <<>>), x, 0) /\ Context(rows, <<>>).entities = rows
      BY <1>1, RowsFacts
    <2>2. IsActivity(rows[x]) => rows[x].work = 1 /\ rows[x].state # "SUSPENDED"
      BY <2>1, <1>1 DEF StateOf, RowState
    <2>3. WorkedRow(x).work = rows[x].work - 1 /\ WorkedRow(x).element = rows[x].element
      BY <1>2 DEF WorkedRow, Row
    <2>4. IsActivity(WorkedRow(x)) <=> IsActivity(rows[x])
      BY <2>3 DEF IsActivity, Type
    <2>. QED BY <2>2, <2>3, <2>4 DEF Idle
  <1>. QED BY <1>1, <1>2, <1>3, <1>4 DEF Worked, WorkedRow, Parent

(* The execution x is continued after its job or task has been executed. *)
LEMMA WorkedOpens ==
  ASSUME Inv, NEW x, NEW T, Work(x, T), "process" \notin T,
         NEW c, c = Context(Worked(x), <<Parent(x), x>>)
  PROVE  Opened(c, x, Parent(x), WorkedRow(x), {})
  <1>1. /\ RowsOK /\ x \in DOMAIN rows /\ x # 1 /\ rows[x] \in Row
        /\ IsActive(rows[x]) /\ rows[x].work > 0
        /\ Worked(x) = [rows EXCEPT ![x] = WorkedRow(x)] /\ Parent(x) = rows[x].parent
        /\ Idle(WorkedRow(x))
    BY WorkIs
  <1>2. PICK ended : ended = (x \in {})
    OBVIOUS
  <1>3. BegunRow(WorkedRow(x), rows[x], TRUE, ended)
    <2>1. /\ WorkedRow(x) \in Row /\ WorkedRow(x).count = rows[x].count
          /\ WorkedRow(x).work <= rows[x].work /\ WorkedRow(x).state = rows[x].state
          /\ WorkedRow(x).context = rows[x].context
      BY <1>1 DEF WorkedRow, Row
    <2>2. SameRow(WorkedRow(x), rows[x])
      BY <1>1 DEF WorkedRow, Row, SameRow
    <2>. QED BY <2>1, <2>2, <1>1, <1>2 DEF BegunRow
  <1>4. PICK E \in SUBSET {x} : E = {}
    OBVIOUS
  <1>5. BegunRow(WorkedRow(x), rows[x], TRUE, x \in E)
    BY <1>2, <1>3, <1>4
  <1>6. EndedRows(E)
    BY <1>4, NothingEnds
  <1>7. Opened(c, x, Parent(x), WorkedRow(x), E)
    BY <1>1, <1>5, <1>6, Opens
  <1>. QED BY <1>4, <1>7

(* What begins with c, and goes on to h. *)
LEMMA BeginsKept ==
  ASSUME Inv, NEW c, NEW x, NEW s, NEW r, NEW E, Opened(c, x, s, r, E), rows[x].work > 0,
         ~IsBoundaryEvent(rows[x]),
         NEW h, Consistent(h, 0, 0), NewOnce(h, 0), Moves(c, h, x, s), Begin(h)
  PROVE  Inv'
  <1>1. CtxType(h)
    BY DEF Consistent
  <1>2. Kept(h)
    BY <1>1, MovedKept
  <1>3. UNCHANGED <<rows, instance>> /\ h = tx'
    BY DEF Begin
  <1>. QED BY <1>2, <1>3, ContextKept

LEMMA CompleteTaskKeeps ==
  ASSUME Inv, NEW x, CompleteTask(x)
  PROVE  Inv'
  <1>1. PICK c : c = Context(Worked(x), <<Parent(x), x>>)
    OBVIOUS
  <1>2. PICK T : T = Activities
    OBVIOUS
  <1>3. Work(x, T) /\ "process" \notin T /\ Begin(c)
    BY <1>1, <1>2 DEF CompleteTask, Activities
  <1>4. PICK r, E : r = WorkedRow(x) /\ E = {}
    OBVIOUS
  <1>5. Opened(c, x, Parent(x), r, E)
    BY <1>1, <1>3, <1>4, WorkedOpens
  <1>6. rows[x].work > 0 /\ ~IsBoundaryEvent(rows[x])
    BY <1>2, <1>3, WorkIs DEF IsBoundaryEvent, BoundaryEvents, Activities
  <1>7. Consistent(c, 0, 0) /\ NewOnce(c, 0) /\ CtxType(c)
    BY <1>5 DEF Opened
  <1>8. Moves(c, c, x, Parent(x))
    BY <1>7, OpenedMoves
  <1>. QED BY <1>3, <1>5, <1>6, <1>7, <1>8, BeginsKept

(* An activity that has an open job waits for no boundary event. *)
LEMMA OpenedFacts ==
  ASSUME NEW x, NEW s, NEW c, Opened(c, x, s, WorkedRow(x), {}), rows[x].work > 0, rows[x] \in Row,
         x \in DOMAIN rows, RowsOK
  PROVE  /\ CtxType(c) /\ Consistent(c, 0, 0) /\ NewOnce(c, 0)
         /\ x \in 1..Len(c.entities) /\ x \in 2..Len(c.entities) /\ s \in 1..Len(c.entities)
         /\ SameRow(c.entities[x], rows[x]) /\ c.entities[x].state = rows[x].state
         /\ IsActive(c.entities[x]) <=> IsActive(rows[x])
         /\ c.entities[s] = rows[s] /\ ~IsNew(x) /\ ~IsNew(s)
         /\ IsActivity(rows[x]) /\ IsActive(rows[x]) =>
              UnsetOf(c, x) = {} /\ c.entities[x].work = 0 /\ Idle(c.entities[x])
         /\ Type(rows[x]) # "startEvent" => IsOpen(c.entities[s])
         /\ Idle(c.entities[s])
         /\ IsScope(c.entities[s]) /\ (IsMultiInstanceActivity(rows[x]) <=> c.entities[s].multi)
         /\ Kids(c, 0, x) = Kids(Context(rows, <<>>), 0, x)
  <1>1. PICK E : E = {}
    OBVIOUS
  <1>2. /\ Begun(c, E) /\ Consistent(c, 0, 0) /\ NewOnce(c, 0) /\ CtxType(c)
        /\ x \in 2..Len(rows) /\ s \in 1..Len(rows) /\ s < x /\ s = rows[x].parent
        /\ Len(rows) \in Nat /\ Len(c.entities) = Len(rows) /\ c.entities[x] = WorkedRow(x)
        /\ SameRow(WorkedRow(x), rows[x])
        /\ \A y \in 1..Len(rows) : y # x => c.entities[y] = rows[y]
        /\ ~IsNew(s) /\ ~IsNew(x)
        /\ rows[s].state \in {"STARTED", "QUEUED", "SUSPENDED"} /\ IsScope(rows[s])
        /\ rows[s].state = "QUEUED" => Type(rows[x]) = "startEvent"
        /\ Pending(c) = {s, x}
    BY <1>1 DEF Opened
  <1>3. WorkedRow(x).state = rows[x].state
    BY DEF WorkedRow, Row
  <1>4. c.entities[s] = rows[s] /\ x \in 1..Len(rows) /\ s # x
    BY <1>2
  <1>5. /\ \A y : Kids(c, 0, y) = Kids(Context(rows, <<>>), 0, y)
        /\ UnsetOf(c, x) = UnsetOf(Context(rows, <<>>), x)
    BY <1>1, <1>2, <1>4, BegunConsistent
  <1>60. Idle(c.entities[s])
    <2>1. IsActive(c.entities[s])
      BY <1>2, <1>4 DEF IsActive, Ended
    <2>. QED BY <2>1, <1>2, PendingIdle
  <1>6. IsActivity(rows[x]) /\ IsActive(rows[x]) =>
          UnsetOf(c, x) = {} /\ c.entities[x].work = 0 /\ Idle(c.entities[x])
    <2>1. StateOf(Context(rows, <<>>), x, 0) /\ Context(rows, <<>>).entities = rows
      BY RowsFacts
    <2>2. IsActivity(rows[x]) /\ IsActive(rows[x]) => UnsetOf(c, x) = {}
      BY <2>1, <1>5 DEF StateOf, RowState
    <2>3. IsActive(rows[x]) => Idle(c.entities[x])
      <3>1. IsActive(rows[x]) => IsActive(c.entities[x])
        BY <1>2, <1>3 DEF IsActive
      <3>. QED BY <3>1, <1>2, PendingIdle
    <2>4. IsActivity(c.entities[x]) <=> IsActivity(rows[x])
      BY <1>2, RowLike
    <2>. QED BY <2>2, <2>3, <2>4 DEF Idle
  <1>61. Type(rows[x]) # "startEvent" => IsOpen(c.entities[s])
    BY <1>2, <1>4 DEF IsOpen
  <1>7. IsMultiInstanceActivity(rows[x]) <=> rows[s].multi
    <2>1. ShapeOf(rows, x)
      BY RowsFacts
    <2>. QED BY <2>1, <1>2 DEF ShapeOf
  <1>. QED BY <1>2, <1>3, <1>4, <1>5, <1>6, <1>60, <1>61, <1>7 DEF IsActive

LEMMA ContinueSubProcessKeeps ==
  ASSUME Inv, NEW x, ContinueSubProcess(x)
  PROVE  Inv'
  <1>1. PICK c : c = Context(Worked(x), <<Parent(x), x>>)
    OBVIOUS
  <1>2. PICK T : T = {"subProcess"}
    OBVIOUS
  <1>3. PICK s : s = Parent(x)
    OBVIOUS
  <1>4. PICK h : h = EnterSubProcess(c, s, x)
    OBVIOUS
  <1>5. Work(x, T) /\ "process" \notin T /\ ~rows[x].multi /\ Begin(h)
    BY <1>1, <1>2, <1>3, <1>4 DEF ContinueSubProcess
  <1>6. /\ RowsOK /\ x \in DOMAIN rows /\ rows[x] \in Row /\ Type(rows[x]) = "subProcess"
        /\ IsActive(rows[x]) /\ rows[x].work > 0
    BY <1>2, <1>5, WorkIs
  <1>7. Opened(c, x, s, WorkedRow(x), {})
    BY <1>1, <1>3, <1>5, WorkedOpens
  <1>8. /\ CtxType(c) /\ Consistent(c, 0, 0) /\ NewOnce(c, 0)
        /\ x \in 1..Len(c.entities) /\ x \in 2..Len(c.entities)
        /\ SameRow(c.entities[x], rows[x]) /\ ~IsNew(x)
        /\ IsActive(c.entities[x]) /\ UnsetOf(c, x) = {} /\ Idle(c.entities[x])
        /\ IsOpen(c.entities[s])
    <2>1. IsActivity(rows[x]) /\ Type(rows[x]) # "startEvent"
      BY <1>6 DEF IsActivity, Activities
    <2>. QED BY <2>1, <1>6, <1>7, OpenedFacts
  <1>9. Type(c.entities[x]) = "subProcess" /\ ~c.entities[x].multi
    BY <1>5, <1>6, <1>8, RowLike DEF SameRow
  <1>10. PICK o : o = 0
    OBVIOUS
  <1>11. (o = o \/ (o = x /\ o = 0)) /\ o \in 0..Len(c.entities) /\ Consistent(c, o, o) /\ NewOnce(c, o)
    BY <1>8, <1>10, CtxFacts
  <1>12. PICK d : d = SetState(c, x, c.entities[s].state)
    OBVIOUS
  <1>13. Consistent(h, o, o) /\ NewOnce(h, o) /\ NewIn(d, h, x)
    BY <1>4, <1>8, <1>9, <1>11, <1>12, EntersSubProcess
  <1>14. PICK r \in Row : SameRow(r, c.entities[x]) /\ d = Put(c, x, r)
    <2>1. c.entities[s].state \in InstanceState
      BY <1>8 DEF IsOpen, InstanceState
    <2>. QED BY <2>1, <1>8, <1>12, StateIs, SMTT(20) DEF Put
  <1>15. Moves(c, d, x, s) /\ CtxType(d) /\ x \in 1..Len(d.entities)
    BY <1>8, <1>14, StateMoves
  <1>16. CtxType(h)
    BY <1>13 DEF Consistent
  <1>17. Moves(d, h, x, s)
    BY <1>13, <1>15, MovesBranches
  <1>18. Moves(c, h, x, s)
    BY <1>8, <1>15, <1>16, <1>17, MovesOn
  <1>19. ~IsBoundaryEvent(rows[x])
    BY <1>6 DEF IsBoundaryEvent, BoundaryEvents
  <1>20. PICK q, E : q = WorkedRow(x) /\ E = {}
    OBVIOUS
  <1>. QED BY <1>5, <1>6, <1>7, <1>10, <1>13, <1>18, <1>19, <1>20, BeginsKept

LEMMA CompleteStartMultiInstanceKeeps ==
  ASSUME Inv, NEW x, CompleteStartMultiInstance(x)
  PROVE  Inv'
  <1>1. PICK c : c = Context(Worked(x), <<Parent(x), x>>)
    OBVIOUS
  <1>2. PICK T : T = Activities
    OBVIOUS
  <1>3. PICK s : s = Parent(x)
    OBVIOUS
  <1>4. PICK n, h : n \in Nat /\ h = StartMultiInstance(c, x, n) /\ Begin(h)
    <2>1. \A n \in 0..MaxLoop : n \in Nat
      BY BoundAssumption
    <2>. QED BY <2>1, <1>1 DEF CompleteStartMultiInstance
  <1>5. Work(x, T) /\ "process" \notin T /\ rows[x].multi
    BY <1>2 DEF CompleteStartMultiInstance, Activities
  <1>6. /\ RowsOK /\ x \in DOMAIN rows /\ rows[x] \in Row /\ IsActivity(rows[x])
        /\ IsActive(rows[x]) /\ rows[x].work > 0
    BY <1>2, <1>5, WorkIs DEF IsActivity
  <1>7. Opened(c, x, s, WorkedRow(x), {})
    BY <1>1, <1>3, <1>5, WorkedOpens
  <1>8. /\ CtxType(c) /\ Consistent(c, 0, 0) /\ NewOnce(c, 0)
        /\ x \in 1..Len(c.entities) /\ x \in 2..Len(c.entities)
        /\ SameRow(c.entities[x], rows[x]) /\ ~IsNew(x)
        /\ IsActive(c.entities[x]) /\ UnsetOf(c, x) = {} /\ c.entities[x].work = 0
    BY <1>6, <1>7, OpenedFacts
  <1>9. c.entities[x].multi
    BY <1>5, <1>8 DEF SameRow
  <1>10. PICK o : o = 0
    OBVIOUS
  <1>11. (o = o \/ (o = x /\ o = 0)) /\ o \in 0..Len(c.entities) /\ Consistent(c, o, o) /\ NewOnce(c, o)
    BY <1>8, <1>10, CtxFacts
  <1>12. /\ Consistent(h, o, o) /\ NewOnce(h, o)
         /\ \E r \in Row : SameRow(r, c.entities[x]) /\ NewIn(Put(c, x, r), h, x)
    BY <1>4, <1>8, <1>9, <1>11, MultiInstanceStarts
  <1>13. PICK r, d : r \in Row /\ SameRow(r, c.entities[x]) /\ NewIn(d, h, x) /\ d = Put(c, x, r)
    BY <1>12
  <1>14. Moves(c, d, x, s) /\ CtxType(d) /\ x \in 1..Len(d.entities)
    BY <1>8, <1>13, StateMoves
  <1>15. CtxType(h)
    BY <1>12 DEF Consistent
  <1>16. Moves(d, h, x, s)
    BY <1>13, <1>14, MovesBranches
  <1>17. Moves(c, h, x, s)
    BY <1>8, <1>14, <1>15, <1>16, MovesOn
  <1>18. ~IsBoundaryEvent(rows[x])
    BY <1>6 DEF IsBoundaryEvent, BoundaryEvents, IsActivity, Activities
  <1>19. PICK q, E : q = WorkedRow(x) /\ E = {}
    OBVIOUS
  <1>. QED BY <1>4, <1>6, <1>7, <1>10, <1>12, <1>17, <1>18, <1>19, BeginsKept

(* Executions of gateways and events have nothing within or attached to them. *)
LEMMA EndAlone ==
  ASSUME RowsOK, NEW E, E \subseteq 2..Len(rows),
         \A y \in E : /\ y \in DOMAIN rows /\ IsActive(rows[y])
                      /\ Type(rows[y]) \notin {"process"} \cup Activities \cup BoundaryEvents
  PROVE  EndedRows(E)
  <1>1. SUFFICES ASSUME NEW y \in 1..Len(rows), rows # <<>>
                 PROVE  /\ IsActive(rows[y]) /\ rows[y].parent \in E => y \in E
                        /\ IsUnset(rows[y]) => y \notin E /\ rows[y].prev \notin E
    <2>1. CASE rows = <<>>
      BY <2>1, EmptySeq DEF EndedRows
    <2>2. CASE rows # <<>>
      BY <2>2 DEF EndedRows
    <2>. QED BY <2>1, <2>2
  <1>2. y \in DOMAIN rows /\ Len(rows) \in Nat
    <2>1. CtxType(Context(rows, <<>>)) /\ Context(rows, <<>>).entities = rows
      BY <1>1 DEF RowsOK, Consistent, Context
    <2>. QED BY <2>1, <1>1, CtxFacts
  <1>3. ShapeOf(rows, y) /\ rows[y] \in Row
    BY <1>2, RowsFacts
  <1>4. ASSUME rows[y].parent \in E, IsActive(rows[y]) PROVE FALSE
    <2>1. PICK p \in DOMAIN rows : /\ p = rows[y].parent /\ p \in E /\ rows[p] \in Row /\ ShapeOf(rows, p)
                                   /\ Type(rows[p]) \notin {"process"} \cup Activities \cup BoundaryEvents
      BY <1>4, RowsFacts
    <2>2. p # 0
      <3>1. p \in 2..Len(rows)
        BY <2>1
      <3>. QED BY <3>1, <1>2
    <2>3. IsScope(rows[p])
      BY <2>1, <2>2, <1>3 DEF ShapeOf
    <2>4. rows[p].multi
      BY <2>1, <2>3 DEF IsScope, Activities
    <2>. QED BY <2>1, <2>4, ValidAssumption DEF ShapeOf, Type, Row
  <1>5. ASSUME IsUnset(rows[y]) PROVE y \notin E /\ rows[y].prev \notin E
    <2>1. IsBoundaryEvent(rows[y])
      BY <1>5 DEF IsUnset
    <2>2. y \notin E
      BY <2>1 DEF IsBoundaryEvent
    <2>3. IsActivity(rows[rows[y].prev])
      BY <2>1, <1>3 DEF ShapeOf
    <2>. QED BY <2>2, <2>3 DEF IsActivity
  <1>. QED BY <1>4, <1>5

CompletedRow(x) == [WorkedRow(x) EXCEPT !.state = "COMPLETED"]

(* A gateway is left. *)
LEMMA GatewayLeft ==
  ASSUME Inv, NEW x, NEW T, Work(x, T), T \subseteq {"exclusive", "inclusive"},
         NEW c, c = SetState(Context(Worked(x), <<Parent(x), x>>), x, "COMPLETED"),
         NEW m \in Nat, NEW new \in [1..m -> Row],
         \A k \in 1..m : \E e \in Range(Outgoing(rows[x])) : new[k] = NewRow(e, Parent(x), 0, Null),
         NEW h, h = Branches(c, Parent(x), new), Begin(h)
  PROVE  Inv'
  <1>1. /\ RowsOK /\ x \in DOMAIN rows /\ x # 1 /\ rows[x] \in Row
        /\ IsActive(rows[x]) /\ rows[x].work > 0 /\ Type(rows[x]) \in {"exclusive", "inclusive"}
        /\ Worked(x) = [rows EXCEPT ![x] = WorkedRow(x)] /\ Parent(x) = rows[x].parent
    <2>1. "process" \notin T
      OBVIOUS
    <2>. QED BY <2>1, WorkIs
  <1>2. PICK s : s = Parent(x)
    OBVIOUS
  <1>3. PICK E \in SUBSET {x} : E = {x}
    OBVIOUS
  <1>4. EndedRows(E)
    <2>1. Type(rows[x]) \notin {"process"} \cup Activities \cup BoundaryEvents
      BY <1>1 DEF Activities, BoundaryEvents
    <2>2. x \in 2..Len(rows)
      <3>1. x \in 1..Len(rows) /\ Len(rows) \in Nat
        BY <1>1, RowsFacts
      <3>. QED BY <3>1, <1>1
    <2>. QED BY <2>1, <2>2, <1>1, <1>3, EndAlone
  <1>5. /\ CompletedRow(x) \in Row /\ CompletedRow(x).count = rows[x].count
        /\ CompletedRow(x).work <= rows[x].work /\ CompletedRow(x).state = "COMPLETED"
        /\ SameRow(CompletedRow(x), rows[x])
    <2>1. /\ WorkedRow(x) \in Row /\ WorkedRow(x).count = rows[x].count
          /\ WorkedRow(x).work <= rows[x].work
      <3>1. rows[x] \in Row /\ rows[x].work - 1 \in Nat /\ rows[x].work - 1 <= rows[x].work
        BY <1>1 DEF Row
      <3>. QED BY <3>1 DEF WorkedRow, Row
    <2>2. SameRow(WorkedRow(x), rows[x])
      BY <1>1 DEF WorkedRow, Row, SameRow
    <2>3. "COMPLETED" \in InstanceState
      BY DEF InstanceState, Ended
    <2>4. /\ CompletedRow(x) \in Row /\ CompletedRow(x).count = WorkedRow(x).count
          /\ CompletedRow(x).work = WorkedRow(x).work /\ CompletedRow(x).state = "COMPLETED"
      BY <2>1, <2>3 DEF CompletedRow, Row
    <2>5. SameRow(CompletedRow(x), WorkedRow(x))
      BY <2>1 DEF CompletedRow, Row, SameRow
    <2>. QED BY <2>1, <2>2, <2>4, <2>5 DEF SameRow
  <1>6. BegunRow(CompletedRow(x), rows[x], TRUE, x \in E)
    <2>1. ~IsActivity(rows[x])
      BY <1>1 DEF IsActivity, Activities
    <2>. QED BY <2>1, <1>3, <1>5 DEF BegunRow
  <1>7. c = Context([rows EXCEPT ![x] = CompletedRow(x)], <<s, x>>)
    <2>1. [Worked(x) EXCEPT ![x].state = "COMPLETED"] = [rows EXCEPT ![x] = CompletedRow(x)]
      BY <1>1 DEF CompletedRow
    <2>. QED BY <2>1, <1>2 DEF SetState, Context
  <1>8. Opened(c, x, s, CompletedRow(x), E)
    BY <1>1, <1>2, <1>4, <1>6, <1>7, Opens
  <1>9. /\ Consistent(c, 0, 0) /\ NewOnce(c, 0) /\ CtxType(c) /\ s \in 1..Len(c.entities)
        /\ c.entities[s] = rows[s] /\ IsOpen(rows[s]) /\ IsScope(rows[s]) /\ ~IsNew(s)
        /\ Idle(c.entities[s])
    <2>1. /\ Consistent(c, 0, 0) /\ NewOnce(c, 0) /\ CtxType(c)
          /\ x \in 2..Len(rows) /\ s \in 1..Len(rows) /\ s < x /\ Len(rows) \in Nat
          /\ Len(c.entities) = Len(rows) /\ \A y \in 1..Len(rows) : y # x => c.entities[y] = rows[y]
          /\ ~IsNew(s) /\ rows[s].state \in {"STARTED", "QUEUED", "SUSPENDED"} /\ IsScope(rows[s])
          /\ rows[s].state = "QUEUED" => Type(rows[x]) = "startEvent"
          /\ Pending(c) = {s, x}
      BY <1>8 DEF Opened
    <2>2. IsOpen(rows[s])
      BY <2>1, <1>1 DEF IsOpen
    <2>3. s # x /\ s \in 1..Len(c.entities)
      BY <2>1
    <2>4. IsActive(c.entities[s])
      BY <2>1, <2>2, <2>3 DEF IsActive, Ended, IsOpen
    <2>5. Idle(c.entities[s])
      BY <2>1, <2>4, PendingIdle
    <2>. QED BY <2>1, <2>2, <2>3, <2>5
  <1>10. ~c.entities[s].multi
    <2>1. ShapeOf(rows, x) /\ ~IsMultiInstanceActivity(rows[x])
      BY <1>1, RowsFacts, ValidAssumption DEF IsMultiInstanceActivity, Type, Row, Activities
    <2>. QED BY <2>1, <1>1, <1>2, <1>9 DEF ShapeOf
  <1>11. \A k \in 1..m : \E e \in Elements, q \in 0..Len(c.entities), f \in Elements \cup {Null} :
           /\ new[k] = NewRow(e, s, q, f)
           /\ Graph[e].type \notin {"process"} \cup BoundaryEvents
           /\ q # 0 => Graph[e].type = "parallel"
    <2>1. SUFFICES ASSUME NEW k \in 1..m
                   PROVE  \E e \in Elements, q \in 0..Len(c.entities), f \in Elements \cup {Null} :
                            /\ new[k] = NewRow(e, s, q, f)
                            /\ Graph[e].type \notin {"process"} \cup BoundaryEvents
                            /\ q # 0 => Graph[e].type = "parallel"
      OBVIOUS
    <2>2. PICK e \in Range(Outgoing(rows[x])) : new[k] = NewRow(e, s, 0, Null)
      BY <1>2
    <2>3. e \in Elements /\ Graph[e].type \notin {"process"} \cup BoundaryEvents
      <3>1. rows[x].element \in Elements
        BY <1>1 DEF Row
      <3>2. PICK l \in DOMAIN Graph[rows[x].element].outgoing : e = Graph[rows[x].element].outgoing[l]
        BY <2>2 DEF Range, Outgoing
      <3>. QED BY <3>1, <3>2, Flows
    <2>4. 0 \in 0..Len(c.entities)
      BY <1>9, CtxFacts
    <2>. QED BY <2>2, <2>3, <2>4
  <1>12. PICK o : o = 0
    OBVIOUS
  <1>13. Consistent(c, o, o) /\ NewOnce(c, o) /\ o \in 0..Len(c.entities)
    BY <1>9, <1>12, CtxFacts
  <1>14. IsOpen(c.entities[s]) /\ Idle(c.entities[s]) /\ IsScope(c.entities[s]) /\ (IsNew(s) /\ s # 1 => s \notin Pending(c))
    BY <1>9
  <1>15. h = Branches(c, s, new)
    BY <1>2
  <1>16. Consistent(h, o, o) /\ NewOnce(h, o) /\ NewIn(c, h, s)
    <2>1. s \in 1..Len(c.entities) /\ new \in [1..m -> Row] /\ m \in Nat
      BY <1>9
    <2>. QED BY ONLY <2>1, <1>10, <1>11, <1>13, <1>14, <1>15, Continued
  <1>17. CtxType(h)
    BY <1>16 DEF Consistent
  <1>18. Moves(c, h, x, s)
    BY <1>9, <1>16, MovesBranches
  <1>19. ~IsBoundaryEvent(rows[x])
    BY <1>1 DEF IsBoundaryEvent, BoundaryEvents
  <1>20. PICK q : q = CompletedRow(x)
    OBVIOUS
  <1>. QED BY <1>1, <1>8, <1>12, <1>16, <1>18, <1>19, <1>20, BeginsKept

LEMMA EvaluateExclusiveGatewayKeeps ==
  ASSUME Inv, NEW x, EvaluateExclusiveGateway(x)
  PROVE  Inv'
  <1>1. PICK c : c = SetState(Context(Worked(x), <<Parent(x), x>>), x, "COMPLETED")
    OBVIOUS
  <1>2. PICK T : T = {"exclusive"}
    OBVIOUS
  <1>3. Work(x, T) /\ T \subseteq {"exclusive", "inclusive"} /\ "process" \notin T
    BY <1>2 DEF EvaluateExclusiveGateway
  <1>4. PICK k \in DOMAIN Outgoing(rows[x]) : Begin(Branch(c, Parent(x), Outgoing(rows[x])[k]))
    BY <1>1 DEF EvaluateExclusiveGateway
  <1>5. PICK e : e = Outgoing(rows[x])[k]
    OBVIOUS
  <1>6. e \in Range(Outgoing(rows[x])) /\ e \in Elements /\ Parent(x) \in Nat
    <2>1. rows[x] \in Row
      BY <1>3, WorkIs
    <2>2. Outgoing(rows[x]) \in Seq(Elements)
      BY <2>1, Flows DEF Outgoing, Row
    <2>. QED BY <2>1, <2>2, <1>5 DEF Range, Parent, Row
  <1>7. PICK r \in Row : r = NewRow(e, Parent(x), 0, Null)
    BY <1>6, NewRowType
  <1>8. PICK new : new = [l \in 1..1 |-> r]
    OBVIOUS
  <1>9. <<r>> = new
    BY <1>8
  <1>10. PICK h : h = Branches(c, Parent(x), new)
    OBVIOUS
  <1>11. Begin(h)
    BY <1>4, <1>5, <1>7, <1>9, <1>10 DEF Branch
  <1>12. PICK m \in Nat : m = 1
    OBVIOUS
  <1>13. new \in [1..m -> Row]
    BY <1>8, <1>12
  <1>14. \A l \in 1..m : \E f \in Range(Outgoing(rows[x])) : new[l] = NewRow(f, Parent(x), 0, Null)
    BY <1>6, <1>7, <1>8, <1>12
  <1>. QED BY <1>1, <1>3, <1>10, <1>11, <1>13, <1>14, GatewayLeft

LEMMA EvaluateInclusiveGatewayKeeps ==
  ASSUME Inv, NEW x, EvaluateInclusiveGateway(x)
  PROVE  Inv'
  <1>1. PICK c : c = SetState(Context(Worked(x), <<Parent(x), x>>), x, "COMPLETED")
    OBVIOUS
  <1>2. PICK T : T = {"inclusive"}
    OBVIOUS
  <1>3. Work(x, T) /\ T \subseteq {"exclusive", "inclusive"} /\ "process" \notin T
    BY <1>2 DEF EvaluateInclusiveGateway
  <1>4. PICK D \in SUBSET DOMAIN Outgoing(rows[x]) :
          Begin(Branches(c, Parent(x),
                         [k \in DOMAIN Ids(D) |-> NewRow(Outgoing(rows[x])[Ids(D)[k]], Parent(x), 0, Null)]))
    BY <1>1 DEF EvaluateInclusiveGateway
  <1>5. rows[x] \in Row /\ Parent(x) \in Nat
    BY <1>3, WorkIs DEF Parent, Row
  <1>6. Outgoing(rows[x]) \in Seq(Elements) /\ DOMAIN Outgoing(rows[x]) = 1..Len(Outgoing(rows[x]))
        /\ Len(Outgoing(rows[x])) \in Nat
    BY <1>5, Flows DEF Outgoing, Row
  <1>7. D \in SUBSET Nat /\ IsFiniteSet(D)
    <2>1. IsFiniteSet(1..Len(Outgoing(rows[x])))
      BY <1>6, FS_Interval
    <2>2. D \subseteq 1..Len(Outgoing(rows[x]))
      BY <1>6
    <2>3. IsFiniteSet(D)
      BY <2>1, <2>2, FS_Subset
    <2>. QED BY <2>2, <2>3, <1>6
  <1>8. PICK m \in Nat : m = Cardinality(D)
    BY <1>7, FS_CardinalityType
  <1>9. DOMAIN Ids(D) = 1..m
    BY <1>8 DEF Ids
  <1>10. \A k \in 1..m : Ids(D)[k] \in D
    <2>1. Ids(D) \in Seq(D) /\ Len(Ids(D)) = m
      BY <1>7, <1>8, IdsFacts
    <2>. QED BY <2>1, ElementOfSeq
  <1>11. PICK new : new = [k \in 1..m |-> NewRow(Outgoing(rows[x])[Ids(D)[k]], Parent(x), 0, Null)]
    OBVIOUS
  <1>12. PICK h : h = Branches(c, Parent(x), new)
    OBVIOUS
  <1>13. Begin(h)
    BY <1>4, <1>9, <1>11, <1>12
  <1>14. \A k \in 1..m : \E e \in Range(Outgoing(rows[x])) : e \in Elements /\ new[k] = NewRow(e, Parent(x), 0, Null)
    <2>1. \A l \in D : Outgoing(rows[x])[l] \in Range(Outgoing(rows[x])) /\ Outgoing(rows[x])[l] \in Elements
      BY <1>6 DEF Range
    <2>. QED BY <2>1, <1>10, <1>11
  <1>15. new \in [1..m -> Row]
    <2>1. ASSUME NEW k \in 1..m PROVE new[k] \in Row
      <3>1. PICK e \in Elements : new[k] = NewRow(e, Parent(x), 0, Null)
        BY <1>14
      <3>. QED BY <3>1, <1>5, NewRowType
    <2>. QED BY <2>1, <1>11
  <1>. QED BY <1>1, <1>3, <1>12, <1>13, <1>14, <1>15, GatewayLeft

LEMMA ContinueNilKeeps ==
  ASSUME Inv, ContinueNil
  PROVE  Inv'
  BY NoContext DEF ContinueNil, Rollback

LEMMA ContinueProcessKeeps ==
  ASSUME Inv, ContinueProcess
  PROVE  Inv'
  BY NoContext DEF ContinueProcess, Rollback

LEMMA SetErrorEndEventKeeps ==
  ASSUME Inv, NEW x, SetErrorEndEvent(x)
  PROVE  Inv'
  <1>1. PICK T : T = {"errorEnd"}
    OBVIOUS
  <1>2. PICK r : r = [rows[x] EXCEPT !.context = TRUE]
    OBVIOUS
  <1>3. Work(x, T) /\ "process" \notin T
    BY <1>1 DEF SetErrorEndEvent
  <1>4. /\ RowsOK /\ x \in DOMAIN rows /\ x # 1 /\ rows[x] \in Row /\ IsActive(rows[x])
        /\ rows[x].work > 0 /\ ~IsBoundaryEvent(rows[x]) /\ Parent(x) = rows[x].parent
    BY <1>1, <1>3, WorkIs DEF IsBoundaryEvent, BoundaryEvents
  <1>5. PICK c : c = Context([rows EXCEPT ![x] = r], <<Parent(x), x>>)
    OBVIOUS
  <1>6. Begin(c)
    <2>1. [rows EXCEPT ![x].context = TRUE] = [rows EXCEPT ![x] = r]
      BY <1>2
    <2>. QED BY <2>1, <1>5 DEF SetErrorEndEvent
  <1>7. PICK E \in SUBSET {x} : E = {}
    OBVIOUS
  <1>8. PICK ended : ended = (x \in E)
    OBVIOUS
  <1>9. BegunRow(r, rows[x], TRUE, ended)
    <2>1. /\ r \in Row /\ r.count = rows[x].count /\ r.work = rows[x].work /\ r.state = rows[x].state
          /\ rows[x].work \in Nat
      BY <1>2, <1>4 DEF Row
    <2>2. SameRow(r, rows[x])
      BY <1>2, <1>4 DEF Row, SameRow
    <2>3. r.work <= rows[x].work
      BY <2>1
    <2>4. ~ended
      BY <1>7, <1>8, Zenon
    <2>5. ~IsBoundaryEvent(rows[x])
      BY <1>4
    <2>6. Idle(r)
      <3>1. Type(r) = "errorEnd"
        BY <1>1, <1>3, <2>2, WorkIs, RowLike
      <3>. QED BY <3>1 DEF Idle, IsActivity, Activities
    <2>. QED BY ONLY <2>1, <2>2, <2>3, <2>4, <2>5, <2>6 DEF BegunRow
  <1>10. BegunRow(r, rows[x], TRUE, x \in E)
    BY <1>8, <1>9
  <1>11. EndedRows(E)
    BY <1>7, NothingEnds
  <1>12. Opened(c, x, Parent(x), r, E)
    BY <1>4, <1>5, <1>10, <1>11, Opens
  <1>13. Consistent(c, 0, 0) /\ NewOnce(c, 0) /\ CtxType(c)
    BY <1>12 DEF Opened
  <1>14. Moves(c, c, x, Parent(x))
    BY <1>13, OpenedMoves
  <1>. QED BY <1>4, <1>6, <1>12, <1>13, <1>14, BeginsKept

(* An error end event whose error is caught by nothing *)
LEMMA ErrorEndsKeeps ==
  ASSUME Inv, NEW x, Work(x, {"errorEnd"}), Begin(Context(Worked(x), <<Parent(x), x>>))
  PROVE  Inv'
  <1>1. PICK c : c = Context(Worked(x), <<Parent(x), x>>)
    OBVIOUS
  <1>2. PICK T : T = {"errorEnd"}
    OBVIOUS
  <1>3. Work(x, T) /\ "process" \notin T /\ Begin(c)
    BY <1>1, <1>2
  <1>4. PICK r, E : r = WorkedRow(x) /\ E = {}
    OBVIOUS
  <1>5. Opened(c, x, Parent(x), r, E)
    BY <1>1, <1>3, <1>4, WorkedOpens
  <1>6. rows[x].work > 0 /\ ~IsBoundaryEvent(rows[x])
    BY <1>2, <1>3, WorkIs DEF IsBoundaryEvent, BoundaryEvents
  <1>7. Consistent(c, 0, 0) /\ NewOnce(c, 0) /\ CtxType(c)
    BY <1>5 DEF Opened
  <1>8. Moves(c, c, x, Parent(x))
    BY <1>7, OpenedMoves
  <1>. QED BY <1>3, <1>5, <1>6, <1>7, <1>8, BeginsKept

(* L lists the members of S, each once. *)
Lists(L, S) ==
  /\ L \in Seq(S)
  /\ \A z \in S : \E k \in 1..Len(L) : L[k] = z
  /\ \A i, j \in 1..Len(L) : L[i] = L[j] => i = j

Descends(L) == \A i, j \in 1..Len(L) : i < j => L[j] < L[i]

LEMMA IdsLists ==
  ASSUME NEW S \in SUBSET Nat, IsFiniteSet(S)
  PROVE  Lists(Ids(S), S)
  <1>0. PICK L : L = Ids(S)
    OBVIOUS
  <1>1. PICK n \in Nat : L = Ids(S) /\ n = Cardinality(S)
    BY <1>0, IdsFacts
  <1>2. /\ L \in Seq(S) /\ Len(L) = n
        /\ \A x \in S : \E k \in 1..n : L[k] = x
        /\ \A k, l \in 1..n : k < l => L[k] < L[l]
    BY <1>1, IdsFacts
  <1>3. \A k \in 1..n : L[k] \in Nat
    BY <1>2, ElementOfSeq
  <1>4. ASSUME NEW i \in 1..n, NEW j \in 1..n, L[i] = L[j] PROVE i = j
    <2>1. ~(i < j) /\ ~(j < i)
      BY <1>2, <1>3, <1>4
    <2>. QED BY <2>1
  <1>. QED BY <1>1, <1>2, <1>4 DEF Lists

LEMMA ReversedLists ==
  ASSUME NEW S \in SUBSET Nat, IsFiniteSet(S)
  PROVE  Lists(ReversedIds(S), S) /\ Descends(ReversedIds(S))
  <1>0. PICK I : I = Ids(S)
    OBVIOUS
  <1>1. PICK n \in Nat : I = Ids(S) /\ n = Cardinality(S)
    BY <1>0, IdsFacts
  <1>2. /\ I \in Seq(S) /\ Len(I) = n
        /\ \A x \in S : \E k \in 1..n : I[k] = x
        /\ \A k, l \in 1..n : k < l => I[k] < I[l]
    BY <1>1, IdsFacts
  <1>3. \A k \in 1..n : I[k] \in S
    BY <1>2, ElementOfSeq
  <1>4. PICK L : L = [i \in 1..n |-> I[n - i + 1]]
    OBVIOUS
  <1>5. ReversedIds(S) = L
    BY <1>1, <1>2, <1>4 DEF ReversedIds, Reverse
  <1>6. \A i \in 1..n : n - i + 1 \in 1..n /\ n - (n - i + 1) + 1 = i
    OBVIOUS
  <1>7. L \in [1..n -> S]
    BY <1>3, <1>4, <1>6
  <1>8. L \in Seq(S) /\ Len(L) = n
    BY <1>7
  <1>9. ASSUME NEW z \in S PROVE \E k \in 1..n : L[k] = z
    <2>1. PICK k \in 1..n : I[k] = z
      BY <1>2
    <2>2. PICK i \in 1..n : i = n - k + 1 /\ n - i + 1 = k
      BY <1>6
    <2>. QED BY <2>1, <2>2, <1>4
  <1>10. ASSUME NEW i \in 1..n, NEW j \in 1..n, i < j PROVE L[j] < L[i]
    <2>1. PICK k \in 1..n, l \in 1..n : k = n - j + 1 /\ l = n - i + 1
      BY <1>6
    <2>2. k < l
      BY <2>1, <1>10
    <2>. QED BY <2>1, <2>2, <1>2, <1>4
  <1>11. ASSUME NEW i \in 1..n, NEW j \in 1..n, L[i] = L[j] PROVE i = j
    <2>1. L[i] \in Nat /\ L[j] \in Nat
      BY <1>7
    <2>2. ~(i < j) /\ ~(j < i)
      BY <2>1, <1>10, <1>11
    <2>. QED BY <2>2
  <1>. QED BY <1>5, <1>8, <1>9, <1>10, <1>11 DEF Lists, Descends

(* A transaction begins with a list of executions. *)
ContextIs(c, e, L, i) == c = [entities |-> e, list |-> L, next |-> 1, instance |-> i]

Opening(c, e, S, i) ==
  /\ CtxType(c) /\ Pending(c) = S /\ Distinct(c) /\ \A z \in S : Listed(c, z)
  /\ c.entities = e /\ c.instance = i

ChildrenFirst(c, S) == \A y, z \in S : z < y => Before(c, y, z)

LEMMA ContextOf ==
  ASSUME NEW e \in Seq(Row), e # <<>>, NEW S, S \subseteq 1..Len(e), NEW L, Lists(L, S),
         NEW i \in InstanceState, NEW c, ContextIs(c, e, L, i)
  PROVE  Opening(c, e, S, i) /\ (Descends(L) => ChildrenFirst(c, S))
  <1>1. PICK n \in Nat, m \in Nat : n = Len(e) /\ m = Len(L)
    BY DEF Lists
  <1>2. /\ L \in Seq(S) /\ \A z \in S : \E k \in 1..m : L[k] = z
        /\ \A k, j \in 1..m : L[k] = L[j] => k = j
    BY <1>1 DEF Lists
  <1>3. \A k \in 1..m : L[k] \in S
    BY <1>1, <1>2, ElementOfSeq
  <1>4. S \subseteq 0..n /\ S \subseteq Nat /\ 0 \notin S
    BY <1>1
  <1>5. L \in Seq(0..n) /\ L \in Seq(Nat) /\ DOMAIN L = 1..m
    <2>1. L \in Seq(0..n) /\ L \in Seq(Nat)
      BY <1>2, <1>4, SeqMonotonic
    <2>. QED BY <2>1, <1>1
  <1>6. c.entities = e /\ c.list = L /\ c.next = 1 /\ c.instance = i /\ c \in Contexts
    BY <1>5 DEF Contexts, ContextIs
  <1>7. CtxType(c)
    <2>1. c.next <= Len(c.list) + 1
      BY <1>1, <1>6
    <2>. QED BY <2>1, <1>1, <1>5, <1>6 DEF CtxType
  <1>8. c.next..Len(c.list) = 1..m
    BY <1>1, <1>6
  <1>9. Pending(c) = S
    <2>1. Pending(c) = {L[k] : k \in 1..m} \ {0}
      BY <1>6, <1>8 DEF Pending
    <2>2. ASSUME NEW z \in S PROVE z \in Pending(c)
      <3>1. PICK k \in 1..m : L[k] = z
        BY <1>2
      <3>2. z # 0
        BY <1>4
      <3>. QED BY ONLY <3>1, <3>2, <2>1
    <2>3. ASSUME NEW z \in Pending(c) PROVE z \in S
      BY <2>1, <1>3
    <2>. QED BY <2>2, <2>3
  <1>10. Distinct(c)
    BY <1>2, <1>6, <1>8 DEF Distinct
  <1>11. \A z \in S : Listed(c, z)
    BY <1>2, <1>5, <1>6 DEF Listed
  <1>12. ASSUME Descends(L), NEW y \in S, NEW z \in S, z < y PROVE Before(c, y, z)
    <2>1. PICK k \in 1..m, j \in 1..m : L[k] = y /\ L[j] = z
      BY <1>2
    <2>2. y \in Nat /\ z \in Nat
      BY <1>4
    <2>3. ~(j < k) /\ j # k
      BY <2>1, <2>2, <1>1, <1>12 DEF Descends
    <2>4. k < j
      BY <2>3
    <2>. QED BY <2>1, <2>4, <1>6, <1>8 DEF Before
  <1>. QED BY <1>6, <1>7, <1>9, <1>10, <1>11, <1>12 DEF ChildrenFirst, Opening

(* What is attached to an activity is active as long as the activity is. *)
AttachedToActive ==
  \A b \in DOMAIN rows : IsBoundaryEvent(rows[b]) /\ IsActive(rows[b]) => IsActive(rows[rows[b].prev])

Triggers(b) ==
  b \in DOMAIN rows /\ IsBoundaryEvent(rows[b]) /\ rows[b].state = "CREATED" /\ ~IsUnset(rows[b])

(* What an interrupting boundary event b ends. *)
EndedBy(b) == Below(rows[b].prev) \cup (AttachedTo(rows[b].prev) \ {b})

LEMMA TriggersFacts ==
  ASSUME RowsOK, AttachedToActive, NEW b, Triggers(b), NEW a, a = rows[b].prev
  PROVE  /\ b \in 2..Len(rows) /\ a \in 2..Len(rows) /\ Len(rows) \in Nat /\ DOMAIN rows = 1..Len(rows)
         /\ rows \in Seq(Row) /\ rows # <<>>
         /\ IsActive(rows[b]) /\ IsActive(rows[a]) /\ rows[a].parent = rows[b].parent /\ a < b
         /\ IsActivity(rows[a]) /\ ~IsMultiInstanceActivity(rows[a]) /\ BelowIs(a)
         /\ \A y \in AttachedTo(a) : /\ y \in 2..Len(rows) /\ IsActive(rows[y]) /\ rows[y].prev = a
                                     /\ IsBoundaryEvent(rows[y]) /\ ~IsActivity(rows[y])
                                     /\ rows[y].parent = rows[a].parent
         /\ b \in AttachedTo(a)
  <1>1. b \in DOMAIN rows /\ IsBoundaryEvent(rows[b]) /\ rows[b].state = "CREATED"
    BY DEF Triggers
  <1>2. /\ rows \in Seq(Row) /\ b \in 1..Len(rows) /\ Len(rows) \in Nat /\ ShapeOf(rows, b)
    BY <1>1, RowsFacts
  <1>3. DOMAIN rows = 1..Len(rows) /\ rows # <<>>
    BY <1>2
  <1>4. a # 0 /\ b \in AttachedTo(a)
    BY <1>1, <1>2 DEF ShapeOf, AttachedTo
  <1>5. /\ a \in 1..Len(rows) /\ a < b /\ rows[a].parent = rows[b].parent /\ a # 1 /\ b # 1
    BY <1>4, AttachedRows
  <1>6. IsActivity(rows[a]) /\ ~IsMultiInstanceActivity(rows[a])
    BY <1>1, <1>2 DEF ShapeOf
  <1>7. IsActive(rows[b]) /\ IsActive(rows[a])
    <2>1. IsActive(rows[b])
      BY <1>1 DEF IsActive, Ended
    <2>. QED BY <2>1, <1>1 DEF AttachedToActive
  <1>8. BelowIs(a)
    BY <1>3, <1>5, <1>7, BelowFacts
  <1>9. ASSUME NEW y \in AttachedTo(a)
        PROVE  /\ y \in 2..Len(rows) /\ IsActive(rows[y]) /\ rows[y].prev = a
               /\ IsBoundaryEvent(rows[y]) /\ ~IsActivity(rows[y])
               /\ rows[y].parent = rows[a].parent
    <2>1. /\ y \in 1..Len(rows) /\ y # 1 /\ rows[y].state = "CREATED" /\ rows[y].prev = a
          /\ rows[a].parent = rows[y].parent /\ IsBoundaryEvent(rows[y])
      BY <1>4, <1>6, AttachedRows
    <2>2. IsActive(rows[y]) /\ ~IsActivity(rows[y])
      BY <2>1 DEF IsActive, Ended, IsActivity, IsBoundaryEvent, BoundaryEvents, Activities
    <2>3. y \in 2..Len(rows)
      BY <2>1, <1>2
    <2>. QED BY <2>1, <2>2, <2>3
  <1>10. b \in 2..Len(rows) /\ a \in 2..Len(rows)
    BY <1>2, <1>5
  <1>. QED BY <1>2, <1>3, <1>4, <1>5, <1>6, <1>7, <1>8, <1>9, <1>10

LEMMA InterruptedEnds ==
  ASSUME RowsOK, AttachedToActive, NEW b, Triggers(b), NEW E, E = EndedBy(b)
  PROVE  EndedRows(E) /\ b \notin E /\ rows[b].prev \in E
  <1>1. PICK a : a = rows[b].prev
    OBVIOUS
  <1>2. PICK n \in Nat : n = Len(rows)
    BY <1>1, TriggersFacts
  <1>3. /\ b \in 2..n /\ a \in 2..n /\ DOMAIN rows = 1..n
        /\ IsActive(rows[b]) /\ IsActive(rows[a]) /\ rows[a].parent = rows[b].parent /\ a < b
        /\ IsActivity(rows[a]) /\ ~IsMultiInstanceActivity(rows[a]) /\ BelowIs(a)
        /\ \A y \in AttachedTo(a) : /\ y \in 2..n /\ IsActive(rows[y]) /\ rows[y].prev = a
                                    /\ IsBoundaryEvent(rows[y]) /\ ~IsActivity(rows[y])
                                    /\ rows[y].parent = rows[a].parent
        /\ b \in AttachedTo(a)
    BY <1>1, <1>2, TriggersFacts
  <1>4. /\ Below(a) \subseteq 1..n /\ a \in Below(a)
        /\ \A y \in Below(a) : y >= a /\ IsActive(rows[y]) /\ (y # a => rows[y].parent \in Below(a))
        /\ \A y \in 1..n : IsActive(rows[y]) /\ rows[y].parent \in Below(a) => y \in Below(a)
    BY <1>2, <1>3 DEF BelowIs
  <1>5. \A y : y \in E <=> y \in Below(a) \/ (y \in AttachedTo(a) /\ y # b)
    BY <1>1 DEF EndedBy
  <1>6. rows[a].parent \notin Below(a) /\ rows[b].parent \notin Below(a)
    <2>1. ShapeOf(rows, a) /\ a \in 1..n
      <3>1. a \in 1..n
        BY <1>3
      <3>. QED BY <3>1, <1>2, <1>3, RowsFacts
    <2>2. rows[a].parent \in 0..a - 1
      BY <2>1, <1>2, Referred
    <2>3. \A y \in Below(a) : y \in 1..n /\ y >= a
      BY <1>4
    <2>. QED BY <2>2, <2>3, <1>3
  <1>7. b \notin E /\ a \in E
    <2>1. b \notin Below(a)
      BY <1>3, <1>4, <1>6
    <2>. QED BY <2>1, <1>4, <1>5
  <1>8. E \subseteq 2..n
    <2>1. ASSUME NEW y \in E PROVE y \in 2..n
      <3>1. CASE y \in Below(a)
        <4>1. y \in 1..n /\ y >= a
          BY <3>1, <1>4
        <4>. QED BY <4>1, <1>3
      <3>2. CASE y \in AttachedTo(a)
        BY <3>2, <1>3
      <3>. QED BY <3>1, <3>2, <1>5
    <2>. QED BY <2>1
  <1>9. \A y \in E : IsActive(rows[y])
    BY <1>3, <1>4, <1>5
  <1>10. ASSUME NEW y \in 1..n, IsActive(rows[y]), rows[y].parent \in E PROVE y \in E
    <2>1. rows[y].parent \notin AttachedTo(a)
      <3>1. SUFFICES ASSUME rows[y].parent \in AttachedTo(a) PROVE FALSE
        OBVIOUS
      <3>2. PICK c : c = Context(rows, <<>>)
        OBVIOUS
      <3>3. PICK z : z = rows[y].parent
        OBVIOUS
      <3>4. z \in 1..n /\ IsBoundaryEvent(rows[z])
        <4>1. z \in 2..n /\ IsBoundaryEvent(rows[z])
          BY <3>1, <3>3, <1>3
        <4>. QED BY <4>1
      <3>5. Consistent(c, 0, 0) /\ c.entities = rows
        BY <3>2, <1>3, RowsFacts
      <3>6. \A x \in 1..Len(c.entities) : c.entities[x].parent # z
        BY <3>4, <3>5, <1>2, BoundaryNoScope
      <3>. QED BY <3>3, <3>5, <3>6, <1>2
    <2>. QED BY <2>1, <1>4, <1>5, <1>10
  <1>11. ASSUME NEW y \in 1..n, IsUnset(rows[y])
         PROVE  /\ y \in E => rows[y].prev \in E
                /\ rows[y].prev \in E /\ rows[y].state = "CREATED" => y \in E
    <2>1. ShapeOf(rows, y)
      BY <1>2, <1>3, RowsFacts
    <2>2. IsBoundaryEvent(rows[y]) /\ IsActive(rows[y])
      BY <1>11 DEF IsUnset
    <2>4. PICK p : p = rows[y].prev
      OBVIOUS
    <2>5. p # 0 /\ IsActivity(rows[p]) /\ rows[p].parent = rows[y].parent
      BY <2>1, <2>2, <2>4 DEF ShapeOf
    <2>6. p \in 1..n /\ IsActive(rows[p])
      <3>1. p \in 0..Len(rows)
        BY <2>1, <2>4, <1>2, Referred
      <3>. QED BY <3>1, <2>2, <2>4, <2>5, <1>2, <1>3 DEF AttachedToActive
    <2>7. p \notin AttachedTo(a)
      BY <2>5, <1>3
    <2>8. y # b
      BY <1>11 DEF Triggers
    <2>9. ~IsActivity(rows[y])
      BY <2>2 DEF IsActivity, IsBoundaryEvent, BoundaryEvents, Activities
    <2>10. ASSUME y \in E PROVE p \in E
      <3>1. CASE y \in Below(a)
        <4>1. y # a
          BY <2>9, <1>3
        <4>2. rows[p].parent \in Below(a)
          BY <3>1, <4>1, <2>5, <1>4
        <4>. QED BY <4>2, <2>6, <1>4, <1>5
      <3>2. CASE y \in AttachedTo(a)
        BY <3>2, <2>4, <1>3, <1>7
      <3>. QED BY <3>1, <3>2, <2>10, <1>5
    <2>11. ASSUME p \in E, rows[y].state = "CREATED" PROVE y \in E
      <3>1. p \in Below(a)
        BY <2>7, <2>11, <1>5
      <3>2. CASE p = a
        <4>1. y \in AttachedTo(a)
          BY <3>2, <2>4, <2>11, <1>3 DEF AttachedTo
        <4>. QED BY <4>1, <2>8, <1>5
      <3>3. CASE p # a
        <4>1. rows[y].parent \in Below(a)
          BY <3>1, <3>3, <2>5, <1>4
        <4>. QED BY <4>1, <2>2, <1>4, <1>5
      <3>. QED BY <3>2, <3>3
    <2>. QED BY <2>4, <2>10, <2>11
  <1>. QED BY <1>1, <1>2, <1>7, <1>8, <1>9, <1>10, <1>11 DEF EndedRows

(* What is attached to, or comes after, something that is not interrupted is  *)
(* not interrupted either.                                                    *)
LEMMA EndedWith ==
  ASSUME RowsOK, AttachedToActive, NEW b, Triggers(b), NEW E, E = EndedBy(b), NEW y \in E,
         IsBoundaryEvent(rows[y]) \/ (IsMultiInstanceActivity(rows[y]) /\ rows[y].prev # 0)
  PROVE  rows[y].prev \in E \/ ~IsActive(rows[rows[y].prev])
  <1>1. PICK a : a = rows[b].prev
    OBVIOUS
  <1>2. PICK p : p = rows[y].prev
    OBVIOUS
  <1>3. PICK n \in Nat : n = Len(rows)
    BY <1>1, TriggersFacts
  <1>4. /\ DOMAIN rows = 1..n /\ IsActivity(rows[a]) /\ ~IsMultiInstanceActivity(rows[a]) /\ BelowIs(a)
        /\ \A z \in AttachedTo(a) : z \in 2..n /\ rows[z].prev = a
    BY <1>1, <1>3, TriggersFacts
  <1>5. /\ a \in Below(a) /\ Below(a) \subseteq 1..n
        /\ \A z \in Below(a) : z # a => rows[z].parent \in Below(a)
        /\ \A z \in 1..n : IsActive(rows[z]) /\ rows[z].parent \in Below(a) => z \in Below(a)
    BY <1>3, <1>4 DEF BelowIs
  <1>6. \A z : z \in E <=> z \in Below(a) \/ (z \in AttachedTo(a) /\ z # b)
    BY <1>1 DEF EndedBy
  <1>7. CASE y \in AttachedTo(a)
    BY <1>7, <1>2, <1>4, <1>5, <1>6
  <1>8. CASE y \in Below(a)
    <2>1. SUFFICES ASSUME IsActive(rows[p]) PROVE p \in E
      BY <1>2
    <2>2. y \in 1..n /\ ShapeOf(rows, y) /\ rows[y] \in Row
      <3>1. y \in 1..n
        BY <1>5, <1>8
      <3>. QED BY <3>1, <1>4, RowsFacts
    <2>3. p # 0 /\ rows[p].parent = rows[y].parent
      BY <2>2, <1>2 DEF ShapeOf
    <2>4. p \in 1..n
      <3>1. p \in 0..n
        BY <2>2, <1>2, <1>3, Referred
      <3>. QED BY <3>1, <2>3
    <2>5. y # a
      BY <1>4, <2>2 DEF IsActivity, IsBoundaryEvent, BoundaryEvents, Activities
    <2>6. rows[p].parent \in Below(a)
      BY <2>3, <2>5, <1>5, <1>8
    <2>. QED BY <2>1, <2>4, <2>6, <1>5, <1>6
  <1>. QED BY <1>6, <1>7, <1>8

(* Row y when b has been triggered, which ends E, of which C completes. *)
InterruptedRow(y, b, E, C) ==
  IF y \in E THEN [rows[y] EXCEPT !.state = IF y \in C THEN "COMPLETED" ELSE "TERMINATED"]
  ELSE IF y = b THEN [rows[y] EXCEPT !.state = "STARTED"]
  ELSE rows[y]

LEMMA InterruptedRows ==
  ASSUME RowsOK, AttachedToActive, NEW b, Triggers(b), NEW E, E = EndedBy(b),
         NEW C \in SUBSET E, \A y \in C : ~IsActivity(rows[y]), NEW y \in 1..Len(rows),
         NEW pending, y = b => pending, pending => y \in E \cup {b} \/ Idle(rows[y]),
         NEW ended, ended = (y \in E),
         NEW q, q = InterruptedRow(y, b, E, C)
  PROVE  BegunRow(q, rows[y], pending, ended) /\ q \in Row
  <1>1. rows[y] \in Row /\ rows[b] \in Row
    <2>1. DOMAIN rows = 1..Len(rows) /\ b \in DOMAIN rows
      BY TriggersFacts DEF Triggers
    <2>. QED BY <2>1, RowsFacts
  <1>2. CASE y \in E
    <2>1. PICK v : v = IF y \in C THEN "COMPLETED" ELSE "TERMINATED"
      OBVIOUS
    <2>2. q = [rows[y] EXCEPT !.state = v] /\ v \in InstanceState
      BY <2>1, <1>2 DEF InterruptedRow, InstanceState, Ended
    <2>3. /\ q \in Row /\ q.count = rows[y].count /\ q.work = rows[y].work /\ q.state = v
          /\ rows[y].work \in Nat
      BY <2>2, <1>1 DEF Row
    <2>4. SameRow(q, rows[y]) /\ q.work <= rows[y].work
      BY <2>2, <2>3, <1>1 DEF Row, SameRow
    <2>5. v = "TERMINATED" \/ (v = "COMPLETED" /\ ~IsActivity(rows[y]))
      BY <2>1
    <2>6. ended
      BY <1>2, Zenon
    <2>. QED BY ONLY <2>3, <2>4, <2>5, <2>6 DEF BegunRow
  <1>3. CASE y \notin E /\ y = b
    <2>1. q = [rows[y] EXCEPT !.state = "STARTED"] /\ "STARTED" \in InstanceState
      BY <1>3 DEF InterruptedRow, InstanceState
    <2>2. /\ q \in Row /\ q.count = rows[y].count /\ q.work = rows[y].work /\ q.state = "STARTED"
          /\ rows[y].work \in Nat /\ q.context = rows[y].context
      BY <2>1, <1>1 DEF Row
    <2>3. SameRow(q, rows[y]) /\ q.work <= rows[y].work
      BY <2>1, <2>2, <1>1 DEF Row, SameRow
    <2>4. IsBoundaryEvent(rows[y]) /\ ~IsUnset(rows[y]) /\ IsActive(rows[y]) /\ pending
      BY <1>3, TriggersFacts DEF Triggers
    <2>5. ~ended
      BY <1>3, Zenon
    <2>6. Idle(q)
      BY <2>3, <2>4, RowLike DEF Idle, IsActivity, IsBoundaryEvent, BoundaryEvents, Activities
    <2>. QED BY ONLY <2>2, <2>3, <2>4, <2>5, <2>6 DEF BegunRow
  <1>4. CASE y \notin E /\ y # b
    <2>1. q = rows[y] /\ q.work <= rows[y].work
      BY <1>1, <1>4 DEF InterruptedRow, Row
    <2>2. ~ended
      BY <1>4, Zenon
    <2>3. pending => Idle(q)
      BY <2>1, <1>4
    <2>. QED BY ONLY <2>1, <2>2, <2>3, <1>1 DEF BegunRow, SameRow
  <1>. QED BY <1>2, <1>3, <1>4

LEMMA InterruptedBegins ==
  ASSUME Inv, AttachedToActive, NEW b, Triggers(b), NEW E, E = EndedBy(b),
         NEW s \in DOMAIN rows, IsActive(rows[s]), rows[s].state # "CREATED", Idle(rows[s]),
         NEW C \in SUBSET E, \A y \in C : ~IsActivity(rows[y]),
         NEW d, d = Context([y \in DOMAIN rows |-> InterruptedRow(y, b, E, C)], ReversedIds(E \cup {s, b})),
         Begin(d)
  PROVE  Inv'
  <1>1. RowsOK
    BY DEF Inv
  <1>2. PICK n \in Nat : n = Len(rows)
    BY <1>1, TriggersFacts
  <1>3. /\ DOMAIN rows = 1..n /\ b \in 2..n /\ rows \in Seq(Row) /\ rows # <<>>
        /\ IsActive(rows[b]) /\ EndedRows(E) /\ b \notin E /\ rows[b].prev \in E
    BY <1>1, <1>2, TriggersFacts, InterruptedEnds
  <1>4. E \subseteq 2..n /\ \A y \in E : IsActive(rows[y])
    BY <1>2, <1>3 DEF EndedRows
  <1>5. PICK S : S = E \cup {s, b}
    OBVIOUS
  <1>6. S \subseteq 1..n
    BY <1>3, <1>4, <1>5
  <1>7. S \in SUBSET Nat /\ IsFiniteSet(S)
    <2>1. IsFiniteSet(1..n)
      BY FS_Interval
    <2>2. IsFiniteSet(S)
      BY <2>1, <1>6, FS_Subset
    <2>. QED BY <2>2, <1>6
  <1>8. PICK L : L = ReversedIds(S)
    OBVIOUS
  <1>9. Lists(L, S) /\ Descends(L)
    BY <1>7, <1>8, ReversedLists
  <1>10. PICK e : e = [y \in DOMAIN rows |-> InterruptedRow(y, b, E, C)]
    OBVIOUS
  <1>11. ASSUME NEW y \in 1..n PROVE e[y] = InterruptedRow(y, b, E, C) /\ e[y] \in Row
    <2>1. PICK ended : ended = (y \in E)
      OBVIOUS
    <2>2. PICK q : q = InterruptedRow(y, b, E, C)
      OBVIOUS
    <2>4. PICK pending : pending = (y = b)
      OBVIOUS
    <2>3. q \in Row
      BY <2>1, <2>2, <2>4, <1>1, <1>2, InterruptedRows
    <2>. QED BY <2>2, <2>3, <1>3, <1>10
  <1>12. e \in Seq(Row) /\ Len(e) = n /\ e # <<>>
    <2>1. e \in [1..n -> Row]
      BY <1>3, <1>10, <1>11
    <2>2. n # 0
      BY <1>3
    <2>. QED BY <2>1, <2>2
  <1>13. instance \in InstanceState
    <2>1. Consistent(Context(rows, <<>>), 0, 0)
      BY <1>1, <1>3 DEF RowsOK
    <2>. QED BY <2>1 DEF Consistent, CtxType, Contexts, Context
  <1>14. d = [entities |-> e, list |-> L, next |-> 1, instance |-> instance]
    BY <1>5, <1>8, <1>10 DEF Context
  <1>15. /\ CtxType(d) /\ Pending(d) = S /\ Distinct(d) /\ d.entities = e /\ d.instance = instance
         /\ d.next = 1 /\ \A y, z \in S : z < y => Before(d, y, z)
    <2>1. PICK i \in InstanceState : i = instance
      BY <1>13
    <2>2. e \in Seq(Row) /\ e # <<>> /\ S \subseteq 1..Len(e) /\ Lists(L, S)
          /\ ContextIs(d, e, L, i)
      BY <2>1, <1>6, <1>9, <1>12, <1>14 DEF ContextIs
    <2>3. Opening(d, e, S, i) /\ (Descends(L) => ChildrenFirst(d, S))
      BY ONLY <2>1, <2>2, ContextOf
    <2>. QED BY <2>1, <2>3, <1>9, <1>14 DEF ChildrenFirst, Opening
  <1>16. ASSUME NEW y \in E, rows[y].parent \in E PROVE Before(d, y, rows[y].parent)
    <2>1. y \in 1..n /\ ShapeOf(rows, y)
      <3>1. y \in 1..n
        BY <1>4
      <3>. QED BY <3>1, <1>1, <1>2, <1>3, RowsFacts
    <2>2. rows[y].parent \in 0..y - 1
      BY <2>1, <1>2, Referred
    <2>3. rows[y].parent < y
      BY <2>1, <2>2
    <2>. QED BY <2>3, <1>5, <1>15, <1>16
  <1>17. Begun(d, E)
    <2>1. ASSUME NEW y \in 1..n PROVE BegunRow(d.entities[y], rows[y], y \in Pending(d), y \in E)
      <3>1. PICK ended : ended = (y \in E)
        OBVIOUS
      <3>2. PICK pending : pending = (y \in Pending(d))
        OBVIOUS
      <3>3. PICK q : q = InterruptedRow(y, b, E, C)
        OBVIOUS
      <3>4. y = b => pending
        <4>1. b \in Pending(d)
          BY <1>5, <1>15
        <4>. QED BY <3>2, <4>1, Zenon
      <3>7. pending => y \in E \cup {b} \/ Idle(rows[y])
        BY <3>2, <1>5, <1>15
      <3>5. BegunRow(q, rows[y], pending, ended)
        BY <3>1, <3>3, <3>4, <3>7, <1>1, <1>2, InterruptedRows
      <3>6. d.entities[y] = q
        BY <3>3, <1>11, <1>15
      <3>. QED BY <3>1, <3>2, <3>5, <3>6
    <2>2. E \subseteq Pending(d) /\ \A y \in Pending(d) : IsActive(rows[y])
      BY <1>3, <1>4, <1>5, <1>15
    <2>. QED BY <2>1, <2>2, <1>1, <1>2, <1>3, <1>12, <1>15, <1>16 DEF Begun
  <1>18. ASSUME NEW y \in 1..n, IsBoundaryEvent(rows[y]), rows[y].state = "CREATED", d.entities[y].state # "CREATED"
         PROVE  rows[y].prev \in E \/ Untouched(d, rows[y].prev)
    <2>1. CASE y \in E
      <3>1. IsActive(rows[rows[y].prev])
        <4>1. IsActive(rows[y])
          BY <2>1, <1>4
        <4>. QED BY <4>1, <1>3, <1>18 DEF AttachedToActive
      <3>. QED BY <2>1, <3>1, <1>1, <1>18, EndedWith
    <2>2. CASE y = b
      BY <2>2, <1>3
    <2>3. CASE y \notin E /\ y # b
      BY <2>3, <1>11, <1>15, <1>18 DEF InterruptedRow
    <2>. QED BY <2>1, <2>2, <2>3
  <1>19. ASSUME NEW y \in Pending(d), IsMultiInstanceActivity(rows[y]), rows[y].state = "CREATED"
         PROVE  rows[y].prev \in E \/ ~IsActive(rows[rows[y].prev])
    <2>1. y \in 1..n /\ StateOf(Context(rows, <<>>), y, 0) /\ Context(rows, <<>>).entities = rows
          /\ rows[y] \in Row
      <3>1. y \in 1..n
        BY <1>6, <1>15
      <3>. QED BY <3>1, <1>1, <1>3, RowsFacts
    <2>2. rows[y].prev # 0
      BY <2>1, <1>19 DEF StateOf, RowState
    <2>3. y # b
      <3>1. ~IsBoundaryEvent(rows[y])
        BY <2>1, <1>19, ValidAssumption
           DEF IsActivity, IsBoundaryEvent, BoundaryEvents, Activities, IsMultiInstanceActivity, Type, Row
      <3>. QED BY <3>1 DEF Triggers
    <2>4. y \in E
      BY <2>3, <1>5, <1>15, <1>19
    <2>. QED BY <2>2, <2>4, <1>1, <1>19, EndedWith
  <1>20. Kept(d)
    <2>1. \A y \in 1..Len(rows) :
           IsBoundaryEvent(rows[y]) /\ rows[y].state = "CREATED" /\ d.entities[y].state # "CREATED" =>
             rows[y].prev \in E \/ Untouched(d, rows[y].prev)
      BY <1>2, <1>18
    <2>2. \A y \in Pending(d) :
           IsMultiInstanceActivity(rows[y]) /\ rows[y].state = "CREATED" =>
             rows[y].prev \in E \/ ~IsActive(rows[rows[y].prev])
      BY <1>19
    <2>. QED BY <2>1, <2>2, <1>17, BegunKept
  <1>21. Consistent(d, 0, 0) /\ NewOnce(d, 0)
    BY <1>17, BegunConsistent
  <1>22. UNCHANGED <<rows, instance>> /\ d = tx'
    BY DEF Begin
  <1>. QED BY <1>20, <1>21, <1>22, ContextKept

LEMMA InterruptedIs ==
  ASSUME NEW s, NEW b, NEW E, E = EndedBy(b)
  PROVE  Interrupted(s, b) =
           Context([y \in DOMAIN rows |-> InterruptedRow(y, b, E, {})], ReversedIds(E \cup {s, b}))
  <1>1. \A y : InterruptedRow(y, b, E, {}) =
                 IF y \in E THEN [rows[y] EXCEPT !.state = "TERMINATED"]
                 ELSE IF y = b THEN [rows[y] EXCEPT !.state = "STARTED"] ELSE rows[y]
    BY DEF InterruptedRow
  <1>. QED BY <1>1 DEF Interrupted, EndedBy

(* An activity that is left with an error has all its boundary events set. *)
LEMMA CatcherTriggers ==
  ASSUME RowsOK, AttachedToActive, NEW x \in DOMAIN rows, IsActive(rows[x]), rows[x].work > 0,
         NEW b \in ErrorBoundaryEvents(x)
  PROVE  Triggers(b)
  <1>1. PICK a : a = rows[b].prev
    OBVIOUS
  <1>2. /\ b \in DOMAIN rows /\ Type(rows[b]) = "errorBoundary" /\ rows[b].state = "CREATED"
        /\ x \in Within(a, {y \in DOMAIN rows : rows[y].parent # 0})
    BY <1>1 DEF ErrorBoundaryEvents
  <1>3. IsBoundaryEvent(rows[b])
    BY <1>2 DEF IsBoundaryEvent, BoundaryEvents
  <1>4. SUFFICES ASSUME IsUnset(rows[b]) PROVE FALSE
    BY <1>2, <1>3 DEF Triggers
  <1>5. PICK c : c = Context(rows, <<>>)
    OBVIOUS
  <1>6. /\ ShapeOf(rows, b) /\ rows \in Seq(Row) /\ Len(rows) \in Nat /\ b \in 1..Len(rows)
        /\ c.entities = rows /\ Consistent(c, 0, 0)
    BY <1>2, <1>5, RowsFacts
  <1>7. a \in DOMAIN rows /\ IsActivity(rows[a])
    <2>1. a # 0 /\ IsActivity(rows[a])
      BY <1>1, <1>3, <1>6 DEF ShapeOf
    <2>2. a \in 0..Len(rows)
      BY <1>1, <1>6, Referred
    <2>. QED BY <2>1, <2>2, <1>6
  <1>8. StateOf(c, a, 0) /\ b \in UnsetOf(c, a)
    <2>1. StateOf(c, a, 0)
      BY <1>5, <1>7, RowsFacts
    <2>. QED BY <2>1, <1>1, <1>2, <1>4, <1>6 DEF UnsetOf
  <1>9. IsActive(rows[a]) /\ rows[a].state = "CREATED"
    <2>1. IsActive(rows[a])
      BY <1>1, <1>2, <1>3, <1>4 DEF IsUnset, AttachedToActive
    <2>. QED BY <2>1, <1>6, <1>8 DEF StateOf, RowState, IsActive, Ended
  <1>10. CASE x = a
    <2>1. IsActivity(rows[a]) /\ rows[a].work > 0
      BY <1>7, <1>10
    <2>. QED BY <2>1, <1>6, <1>8, <1>9 DEF StateOf, RowState
  <1>11. CASE x # a
    <2>1. PICK z \in DOMAIN rows : IsActive(rows[z]) /\ rows[z].parent = a
      BY <1>2, <1>7, <1>11, CatchesWithin
    <2>2. z \in Kids(c, 0, a)
      BY <2>1, <1>6 DEF Kids
    <2>. QED BY <2>2, <1>6, <1>8, <1>9 DEF StateOf, RowState
  <1>. QED BY <1>10, <1>11

(* A boundary event interrupts what it is attached to, or the transaction is  *)
(* rolled back.                                                               *)
LEMMA InterruptedKeeps ==
  ASSUME Inv, AttachedToActive, NEW b, Triggers(b), NEW x \in DOMAIN rows, x # 1, IsActive(rows[x]),
         NEW s, s = rows[x].parent, StartBoundaryEvent(s, b, Interrupted(s, b))
  PROVE  Inv'
  <1>1. PICK E : E = EndedBy(b)
    OBVIOUS
  <1>2. PICK C \in SUBSET E : C = {}
    OBVIOUS
  <1>3. PICK d : d = Context([y \in DOMAIN rows |-> InterruptedRow(y, b, E, C)], ReversedIds(E \cup {s, b}))
    OBVIOUS
  <1>4. Interrupted(s, b) = d
    BY <1>1, <1>2, <1>3, InterruptedIs
  <1>5. s \in DOMAIN rows /\ IsActive(rows[s]) /\ rows[s].state # "CREATED" /\ Idle(rows[s])
    <2>1. RowsOK
      BY DEF Inv
    <2>2. /\ s \in 1..Len(rows) /\ IsActive(rows[s]) /\ rows[s].state \in {"STARTED", "QUEUED", "SUSPENDED"}
          /\ Idle(rows[s]) /\ rows \in Seq(Row)
      BY <2>1, ScopeCounts, RowsFacts
    <2>. QED BY <2>2
  <1>6. CASE Begin(d)
    <2>1. \A y \in C : ~IsActivity(rows[y])
      BY <1>2
    <2>. QED BY <2>1, <1>1, <1>3, <1>5, <1>6, InterruptedBegins
  <1>7. CASE Rollback("NIL")
    BY <1>7, NoContext DEF Rollback
  <1>. QED BY <1>4, <1>6, <1>7 DEF StartBoundaryEvent

LEMMA ThrowErrorKeeps ==
  ASSUME Inv, AttachedToActive, NEW x, ThrowError(x)
  PROVE  Inv'
  <1>1. PICK T : T = {"task"}
    OBVIOUS
  <1>2. Work(x, T) /\ "process" \notin T
    BY <1>1 DEF ThrowError
  <1>3. PICK b \in ErrorBoundaryEvents(x) : StartBoundaryEvent(Parent(x), b, Interrupted(Parent(x), b))
    BY DEF ThrowError
  <1>4. /\ RowsOK /\ x \in DOMAIN rows /\ x # 1 /\ IsActive(rows[x]) /\ rows[x].work > 0
        /\ Parent(x) = rows[x].parent
    BY <1>2, WorkIs
  <1>5. Triggers(b)
    BY <1>4, CatcherTriggers
  <1>. QED BY <1>3, <1>4, <1>5, InterruptedKeeps

(* An error end event that is interrupted by its own error is completed. *)
LEMMA CaughtKeeps ==
  ASSUME Inv, AttachedToActive, NEW b, Triggers(b), NEW x, Work(x, {"errorEnd"}),
         NEW s, s = rows[b].parent, NEW c, c = Interrupted(s, b),
         \E k \in DOMAIN c.list : c.list[k] = x, Begin(SetState(c, x, "COMPLETED"))
  PROVE  Inv'
  <1>1. PICK T : T = {"errorEnd"}
    OBVIOUS
  <1>2. Work(x, T) /\ "process" \notin T
    BY <1>1
  <1>3. RowsOK /\ x \in DOMAIN rows /\ x # 1 /\ rows[x] \in Row /\ Type(rows[x]) = "errorEnd"
    BY <1>1, <1>2, WorkIs
  <1>4. PICK E : E = EndedBy(b)
    OBVIOUS
  <1>5. PICK n \in Nat : n = Len(rows)
    BY <1>3, TriggersFacts
  <1>6. /\ DOMAIN rows = 1..n /\ b \in 2..n /\ E \subseteq 2..n /\ rows \in Seq(Row) /\ IsActive(rows[b])
    BY <1>3, <1>4, <1>5, TriggersFacts, InterruptedEnds DEF EndedRows
  <1>7. /\ s \in 1..n /\ IsActive(rows[s]) /\ rows[s].state \in {"STARTED", "QUEUED", "SUSPENDED"}
        /\ IsScope(rows[s]) /\ Idle(rows[s])
    <2>1. b \in DOMAIN rows /\ b # 1
      BY <1>6
    <2>. QED BY <2>1, <1>3, <1>5, <1>6, ScopeCounts
  <1>8. PICK S : S = E \cup {s, b}
    OBVIOUS
  <1>9. S \in SUBSET Nat /\ IsFiniteSet(S)
    <2>1. S \subseteq 1..n
      <3>1. b \in 1..n /\ E \subseteq 1..n
        BY <1>6
      <3>. QED BY <3>1, <1>7, <1>8
    <2>2. IsFiniteSet(1..n)
      BY FS_Interval
    <2>3. IsFiniteSet(S)
      BY <2>1, <2>2, FS_Subset
    <2>. QED BY <2>1, <2>3
  <1>10. PICK L : L = ReversedIds(S)
    OBVIOUS
  <1>11. PICK e : e = [y \in DOMAIN rows |-> InterruptedRow(y, b, E, {})]
    OBVIOUS
  <1>12. c = Context(e, L)
    BY <1>4, <1>8, <1>10, <1>11, InterruptedIs
  <1>13. x \in S
    <2>1. L \in Seq(S)
      BY <1>9, <1>10, ReversedLists DEF Lists
    <2>2. PICK k \in DOMAIN L : L[k] = x
      BY <1>12 DEF Context
    <2>3. DOMAIN L = 1..Len(L)
      BY <2>1
    <2>. QED BY <2>1, <2>2, <2>3, ElementOfSeq
  <1>14. x # s /\ x # b /\ ~IsActivity(rows[x])
    <2>1. ~IsScope(rows[x])
      <3>1. ShapeOf(rows, x)
        BY <1>3, RowsFacts
      <3>. QED BY <3>1, <1>3, ValidAssumption DEF ShapeOf, IsScope, Type, Row, Activities
    <2>2. ~IsBoundaryEvent(rows[x]) /\ ~IsActivity(rows[x])
      BY <1>3 DEF IsBoundaryEvent, BoundaryEvents, IsActivity, Activities
    <2>. QED BY <2>1, <2>2, <1>7 DEF Triggers
  <1>15. x \in E
    BY <1>8, <1>13, <1>14
  <1>16. PICK C \in SUBSET E : C = {x}
    BY <1>15
  <1>17. PICK f : f = [y \in DOMAIN rows |-> InterruptedRow(y, b, E, C)]
    OBVIOUS
  <1>18. [e EXCEPT ![x].state = "COMPLETED"] = f
    <2>1. ASSUME NEW y \in DOMAIN rows, y # x PROVE InterruptedRow(y, b, E, {}) = InterruptedRow(y, b, E, C)
      BY <2>1, <1>16 DEF InterruptedRow
    <2>2. [InterruptedRow(x, b, E, {}) EXCEPT !.state = "COMPLETED"] = InterruptedRow(x, b, E, C)
      <3>1. InterruptedRow(x, b, E, {}) = [rows[x] EXCEPT !.state = "TERMINATED"]
        BY <1>15 DEF InterruptedRow
      <3>2. InterruptedRow(x, b, E, C) = [rows[x] EXCEPT !.state = "COMPLETED"]
        BY <1>15, <1>16 DEF InterruptedRow
      <3>. QED BY <3>1, <3>2, <1>3 DEF Row
    <2>. QED BY <2>1, <2>2, <1>3, <1>11, <1>17
  <1>19. SetState(c, x, "COMPLETED") = Context(f, L)
    BY <1>12, <1>18 DEF SetState, Context
  <1>20. PICK d : d = Context([y \in DOMAIN rows |-> InterruptedRow(y, b, E, C)], ReversedIds(E \cup {s, b}))
    OBVIOUS
  <1>21. Begin(d)
    BY <1>8, <1>10, <1>17, <1>19, <1>20
  <1>22. \A y \in C : ~IsActivity(rows[y])
    BY <1>14, <1>16
  <1>23. s \in DOMAIN rows /\ rows[s].state # "CREATED" /\ Idle(rows[s])
    BY <1>6, <1>7
  <1>. QED BY <1>4, <1>7, <1>20, <1>21, <1>22, <1>23, InterruptedBegins

LEMMA TriggerErrorEndEventKeeps ==
  ASSUME Inv, AttachedToActive, NEW x, TriggerErrorEndEvent(x)
  PROVE  Inv'
  <1>1. PICK T : T = {"errorEnd"}
    OBVIOUS
  <1>2. Work(x, T) /\ "process" \notin T
    BY <1>1 DEF TriggerErrorEndEvent
  <1>3. /\ RowsOK /\ x \in DOMAIN rows /\ x # 1 /\ IsActive(rows[x]) /\ rows[x].work > 0
    BY <1>2, WorkIs
  <1>4. CASE Begin(Context(Worked(x), <<Parent(x), x>>))
    BY <1>1, <1>2, <1>4, ErrorEndsKeeps
  <1>5. ASSUME NEW b \in ErrorBoundaryEvents(x), NEW c, c = Interrupted(Parent(b), b),
               NEW d, d = (IF \E k \in DOMAIN c.list : c.list[k] = x THEN SetState(c, x, "COMPLETED") ELSE c),
               StartBoundaryEvent(Parent(b), b, d)
        PROVE  Inv'
    <2>1. Triggers(b)
      BY <1>3, CatcherTriggers
    <2>2. b \in DOMAIN rows /\ b # 1 /\ IsActive(rows[b])
      <3>1. b \in 2..Len(rows) /\ IsActive(rows[b])
        BY <2>1, <1>3, TriggersFacts
      <3>. QED BY <3>1, <2>1 DEF Triggers
    <2>3. PICK s : s = rows[b].parent
      OBVIOUS
    <2>4. Parent(b) = s
      BY <2>3 DEF Parent
    <2>5. CASE Rollback("NIL")
      BY <2>5, NoContext DEF Rollback
    <2>6. CASE Begin(d) /\ (\E k \in DOMAIN c.list : c.list[k] = x)
      <3>1. Begin(SetState(c, x, "COMPLETED")) /\ c = Interrupted(s, b) /\ Work(x, {"errorEnd"})
        BY <2>4, <2>6, <1>1, <1>2, <1>5
      <3>2. \E k \in DOMAIN c.list : c.list[k] = x
        BY <2>6
      <3>. QED BY <3>1, <3>2, <2>1, <2>3, CaughtKeeps
    <2>7. CASE ~(\E k \in DOMAIN c.list : c.list[k] = x)
      <3>1. StartBoundaryEvent(s, b, Interrupted(s, b))
        BY <2>4, <2>7, <1>5
      <3>. QED BY <3>1, <2>1, <2>2, <2>3, InterruptedKeeps
    <2>. QED BY <2>5, <2>6, <2>7, <1>5 DEF StartBoundaryEvent
  <1>. QED BY <1>4, <1>5 DEF TriggerErrorEndEvent

LEMMA WithinAbove ==
  ASSUME NEW n, NEW a, NEW W, ParentsIn(n, a, W), NEW y \in Within(a, W)
  PROVE  y >= a
  <1>1. /\ n \in Nat /\ a \in 1..n
        /\ \A x \in W : rows[x].parent \in 1..n /\ rows[x].parent < x
    BY DEF ParentsIn
  <1>2. PICK B : B = Within(a, W)
    OBVIOUS
  <1>3. B \subseteq 1..n /\ \A x \in 1..n : x \in B <=> x = a \/ (x \in W /\ rows[x].parent \in B)
    BY <1>2, WithinIs
  <1>4. PICK T : T = {z \in B : z < a}
    OBVIOUS
  <1>5. SUFFICES ASSUME T # {} PROVE FALSE
    <2>1. y \in 1..n /\ y \in B
      BY <1>2, <1>3
    <2>2. ~(y < a)
      BY <2>1, <1>4, <1>5
    <2>. QED BY <2>1, <2>2, <1>1
  <1>6. T \in SUBSET Nat
    <2>1. \A z \in T : z \in 1..n
      BY <1>3, <1>4
    <2>2. \A z \in T : z \in Nat
      BY <2>1
    <2>. QED BY <2>2
  <1>7. PICK z \in T : \A m \in T : z <= m
    BY <1>5, <1>6, LeastNumber
  <1>8. z \in B /\ z < a /\ z \in 1..n /\ z # a
    BY <1>1, <1>3, <1>4
  <1>9. z \in W /\ rows[z].parent \in B
    BY <1>3, <1>8
  <1>10. rows[z].parent \in 1..n /\ rows[z].parent < z
    BY <1>1, <1>9
  <1>11. rows[z].parent < a
    BY <1>1, <1>8, <1>10
  <1>12. rows[z].parent \in T
    BY <1>4, <1>9, <1>11
  <1>13. z <= rows[z].parent
    BY <1>7, <1>12
  <1>. QED BY <1>8, <1>10, <1>13

(* Nothing within a is touched as long as what is listed is not within a. *)
LEMMA NotTouched ==
  ASSUME RowsOK, NEW a \in DOMAIN rows, a # 1, NEW h, CtxType(h), Len(rows) <= Len(h.entities),
         \A y \in 1..Len(rows) : h.entities[y].parent = rows[y].parent,
         \A y \in 1..Len(h.entities) : y > Len(rows) => h.entities[y].parent < a,
         \A z \in 1..Len(rows) : Listed(h, z) => z < a \/ (z # a /\ rows[z].parent < a)
  PROVE  Untouched(h, a)
  <1>1. PICK n \in Nat : n = Len(rows)
    BY RowsFacts
  <1>2. DOMAIN rows = 1..n /\ a \in 1..n
    <2>1. rows \in Seq(Row)
      BY RowsFacts
    <2>. QED BY <2>1, <1>1
  <1>3. PICK W : W = {y \in DOMAIN rows : rows[y].parent # 0}
    OBVIOUS
  <1>4. ParentsIn(n, a, W)
    <2>1. ASSUME NEW y \in W PROVE rows[y].parent \in 1..n /\ rows[y].parent < y
      <3>1. y \in 1..n /\ rows[y].parent # 0 /\ ShapeOf(rows, y)
        BY <1>2, <1>3, RowsFacts
      <3>2. rows[y].parent \in 0..y - 1 /\ rows[y].parent \in 0..n
        BY <3>1, Referred
      <3>. QED BY <3>1, <3>2
    <2>. QED BY <2>1, <1>2, <1>3 DEF ParentsIn
  <1>5. PICK D : D = Within(a, W)
    OBVIOUS
  <1>6. /\ D \subseteq 1..n /\ a \in D
        /\ \A x \in 1..n : x \in D <=> x = a \/ (x \in W /\ rows[x].parent \in D)
        /\ \A x \in D : x >= a
    BY <1>4, <1>5, WithinIs, WithinAbove
  <1>7. PICK l \in Nat : l = Len(h.entities)
    BY CtxFacts
  <1>8. ASSUME NEW z \in 1..l, h.entities[z].parent \in D PROVE z \in D
    <2>1. CASE z > n
      <3>1. h.entities[z].parent < a /\ h.entities[z].parent >= a
        BY <2>1, <1>1, <1>6, <1>7, <1>8
      <3>2. h.entities[z].parent \in 1..n
        BY <1>6, <1>8
      <3>3. h.entities[z].parent \in Nat /\ a \in Nat
        BY <3>2, <1>2
      <3>. QED BY <3>1, <3>3
    <2>2. CASE ~(z > n)
      <3>1. z \in 1..n
        BY <2>2
      <3>2. rows[z].parent \in D
        BY <3>1, <1>1, <1>8
      <3>3. z \in W
        BY <3>1, <3>2, <1>2, <1>3, <1>6
      <3>. QED BY <3>1, <3>2, <3>3, <1>6
    <2>. QED BY <2>1, <2>2
  <1>9. \A z \in D \ {a} : z \in 1..n /\ rows[z].parent \in D /\ h.entities[z].parent \in D
    BY <1>1, <1>6
  <1>10. ASSUME NEW z \in D PROVE ~Listed(h, z)
    <2>1. SUFFICES ASSUME Listed(h, z) PROVE FALSE
      OBVIOUS
    <2>2. z \in 1..n /\ z >= a
      BY <1>6
    <2>3. z # a /\ rows[z].parent < a
      <3>1. ~(z < a)
        BY <2>2, <1>2
      <3>. QED BY <3>1, <2>1, <2>2, <1>1
    <2>4. rows[z].parent \in D
      BY <2>3, <1>9
    <2>5. rows[z].parent \in 1..n /\ rows[z].parent >= a
      BY <2>4, <1>6
    <2>. QED BY <2>3, <2>5, <1>2
  <1>. QED BY <1>1, <1>6, <1>7, <1>8, <1>9, <1>10 DEF Untouched

(* One more execution r within p. *)
OneMore(c, p, r) ==
  [AddCount(c, p, 1) EXCEPT !.entities = Append(@, r), !.list = Append(@, Len(c.entities) + 1)]

LEMMA OneMoreIs ==
  ASSUME NEW c, CtxType(c), NEW p \in 1..Len(c.entities), NEW r \in Row, ~r.multi
  PROVE  OneMore(c, p, r) = Branches(c, p, <<r>>)
  <1>1. PICK L : L = <<r>>
    OBVIOUS
  <1>2. Len(L) = 1 /\ DOMAIN L = 1..1 /\ L[1] = r
    BY <1>1
  <1>3. [r EXCEPT !.multi = @ /\ ~c.entities[p].multi] = r
    <2>1. (r.multi /\ ~c.entities[p].multi) = r.multi
      BY DEF Row
    <2>2. [r EXCEPT !.multi = r.multi] = r
      BY DEF Row
    <2>. QED BY <2>1, <2>2
  <1>4. PICK q : q = [k \in DOMAIN L |-> [L[k] EXCEPT !.multi = @ /\ ~c.entities[p].multi]]
    OBVIOUS
  <1>5. q = <<r>>
    <2>1. q = [k \in 1..1 |-> r]
      BY <1>2, <1>3, <1>4
    <2>. QED BY <2>1
  <1>6. PICK n \in Nat : n = Len(c.entities)
    BY CtxFacts
  <1>7. PICK i : i = [k \in DOMAIN L |-> Len(c.entities) + k]
    OBVIOUS
  <1>8. i = <<n + 1>>
    <2>1. i = [k \in 1..1 |-> n + k]
      BY <1>2, <1>6, <1>7
    <2>. QED BY <2>1
  <1>9. PICK d : d = AddCount(c, p, 1)
    OBVIOUS
  <1>10. d.entities \in Seq(Row) /\ d.list \in Seq(Nat) /\ d = [d EXCEPT !.entities = d.entities]
    <2>1. CtxType(c) /\ c.entities[p] \in Row
      BY CtxFacts
    <2>2. Counted(c.entities[p], 1) \in Row
      <3>1. c.entities[p].count + 1 \in Int
        BY <2>1 DEF Row
      <3>. QED BY <2>1, <3>1 DEF Counted, Row
    <2>3. d = Put(c, p, Counted(c.entities[p], 1))
      BY <1>9 DEF AddCount, Put, Counted
    <2>4. CtxType(d)
      BY <2>1, <2>2, <2>3, PutFacts
    <2>. QED BY <2>4 DEF CtxType, Contexts
  <1>11. d.entities \o q = Append(d.entities, r) /\ d.list \o i = Append(d.list, n + 1)
    BY <1>5, <1>6, <1>8, <1>10
  <1>12. Branches(c, p, L) = [d EXCEPT !.entities = @ \o q, !.list = @ \o i]
    BY <1>2, <1>4, <1>7, <1>9 DEF Branches
  <1>13. OneMore(c, p, r) = [d EXCEPT !.entities = Append(@, r), !.list = Append(@, n + 1)]
    BY <1>6, <1>9 DEF OneMore
  <1>. QED BY <1>1, <1>11, <1>12, <1>13

LEMMA OneMoreFacts ==
  ASSUME NEW c, CtxType(c), Distinct(c), NEW p \in 1..Len(c.entities), NEW r \in Row, ~r.multi,
         NEW d, d = OneMore(c, p, r), NEW n \in Nat, n = Len(c.entities)
  PROVE  /\ CtxType(d) /\ d.instance = c.instance /\ Len(d.entities) = n + 1
         /\ Extended(c, d, Numbers(n, 1))
         /\ \A y \in 1..n : d.entities[y] = IF y = p THEN Counted(c.entities[p], 1) ELSE c.entities[y]
         /\ d.entities[n + 1] = r
         /\ r.parent = p => NewIn(c, d, p)
  <1>1. PICK L \in Seq(Row) : L = <<r>>
    <2>1. <<r>> \in Seq(Row)
      OBVIOUS
    <2>. QED BY <2>1, Zenon
  <1>2. Len(L) = 1 /\ L[1] = r
    BY <1>1
  <1>3. BranchesAre(c, d, p, L)
    <2>1. d = Branches(c, p, L)
      BY <1>1, OneMoreIs
    <2>. QED BY <2>1, BranchesFacts
  <1>4. Inside(r, c.entities[p]) = r
    <2>1. (r.multi /\ ~c.entities[p].multi) = r.multi
      BY DEF Row
    <2>2. [r EXCEPT !.multi = r.multi] = r
      BY DEF Row
    <2>. QED BY <2>1, <2>2 DEF Inside
  <1>5. d.entities[n + 1] = r
    <2>1. 1 \in 1..Len(L)
      BY <1>2
    <2>2. d.entities[Len(c.entities) + 1] = Inside(L[1], c.entities[p])
      BY <2>1, <1>3 DEF BranchesAre
    <2>. QED BY <2>2, <1>2, <1>4
  <1>6. r.parent = p => NewIn(c, d, p)
    <2>1. \A k \in 1..Len(L) : L[k] = r
      BY <1>2
    <2>. QED BY <2>1, <1>3 DEF NewIn
  <1>. QED BY <1>2, <1>3, <1>5, <1>6 DEF BranchesAre

LEMMA TimerTriggers ==
  ASSUME Inv, NEW b, Work(b, {"timerBoundary"}), rows[b].context
  PROVE  /\ Triggers(b) /\ RowsOK /\ b # 1 /\ rows[b] \in Row /\ IsActive(rows[b]) /\ rows[b].work > 0
         /\ Worked(b) = [rows EXCEPT ![b] = WorkedRow(b)] /\ Parent(b) = rows[b].parent
  <1>1. PICK T : T = {"timerBoundary"}
    OBVIOUS
  <1>2. Work(b, T) /\ "process" \notin T
    BY <1>1
  <1>3. /\ RowsOK /\ b \in DOMAIN rows /\ b # 1 /\ rows[b] \in Row
        /\ IsActive(rows[b]) /\ rows[b].work > 0 /\ Type(rows[b]) \in T
        /\ Worked(b) = [rows EXCEPT ![b] = WorkedRow(b)] /\ Parent(b) = rows[b].parent
    BY <1>2, WorkIs
  <1>4. IsBoundaryEvent(rows[b])
    BY <1>1, <1>3 DEF IsBoundaryEvent, BoundaryEvents
  <1>5. ~IsUnset(rows[b])
    BY DEF IsUnset
  <1>6. rows[b].state = "CREATED"
    <2>1. PICK c : c = Context(rows, <<>>)
      OBVIOUS
    <2>2. StateOf(c, b, 0) /\ c.entities = rows /\ Pending(c) = {} /\ b # 0
      <3>1. b \in 1..Len(rows)
        BY <1>3, RowsFacts
      <3>. QED BY <2>1, <3>1, <1>3, RowsFacts
    <2>3. rows[b].state \notin {"NEW", "QUEUED", "STARTED", "SUSPENDED"}
      BY <2>2, <1>3, <1>4 DEF StateOf, RowState
    <2>. QED BY <2>3, <1>3 DEF IsActive, Row, InstanceState
  <1>. QED BY <1>3, <1>4, <1>5, <1>6 DEF Triggers

(* A boundary event begins to interrupt what it is attached to. *)
LEMMA InterruptsKeeps ==
  ASSUME Inv, AttachedToActive, NEW b, Triggers(b), NEW s \in DOMAIN rows, IsActive(rows[s]),
         rows[s].state # "CREATED", Idle(rows[s]), Begin(Interrupted(s, b))
  PROVE  Inv'
  <1>1. PICK E : E = EndedBy(b)
    OBVIOUS
  <1>2. PICK C \in SUBSET E : C = {}
    OBVIOUS
  <1>3. PICK d : d = Context([y \in DOMAIN rows |-> InterruptedRow(y, b, E, C)], ReversedIds(E \cup {s, b}))
    OBVIOUS
  <1>4. Begin(d)
    BY <1>1, <1>2, <1>3, InterruptedIs
  <1>5. \A y \in C : ~IsActivity(rows[y])
    BY <1>2
  <1>. QED BY <1>1, <1>3, <1>4, <1>5, InterruptedBegins

(* The timer goes on, and a new boundary event takes its place. *)
TimedRow(b) == [WorkedRow(b) EXCEPT !.state = "STARTED"]

LEMMA TimerOpens ==
  ASSUME Inv, NEW b, Work(b, {"timerBoundary"}), rows[b].context,
         NEW c, c = Context([rows EXCEPT ![b] = TimedRow(b)], <<Parent(b), b>>)
  PROVE  Opened(c, b, Parent(b), TimedRow(b), {})
  <1>1. /\ Triggers(b) /\ RowsOK /\ b # 1 /\ rows[b] \in Row /\ IsActive(rows[b]) /\ rows[b].work > 0
        /\ Parent(b) = rows[b].parent
    BY TimerTriggers
  <1>2. PICK ended : ended = (b \in {})
    OBVIOUS
  <1>3. ~ended
    BY <1>2, Zenon
  <1>4. PICK r : r = TimedRow(b)
    OBVIOUS
  <1>5. /\ r \in Row /\ r.count = rows[b].count /\ r.work <= rows[b].work
        /\ r.state = "STARTED" /\ r.context = rows[b].context
    <2>1. rows[b].work - 1 \in Nat /\ rows[b].work - 1 <= rows[b].work
      BY <1>1 DEF Row
    <2>. QED BY <2>1, <1>1, <1>4 DEF TimedRow, WorkedRow, Row, InstanceState
  <1>6. SameRow(r, rows[b])
    BY <1>1, <1>4 DEF TimedRow, WorkedRow, Row, SameRow
  <1>7. IsBoundaryEvent(rows[b]) /\ ~IsUnset(rows[b]) /\ IsActive(rows[b])
    BY <1>1 DEF Triggers
  <1>8. BegunRow(r, rows[b], TRUE, ended)
    <2>1. Idle(r)
      BY <1>6, <1>7, RowLike DEF Idle, IsActivity, IsBoundaryEvent, BoundaryEvents, Activities
    <2>. QED BY ONLY <2>1, <1>3, <1>5, <1>6, <1>7 DEF BegunRow
  <1>9. PICK E \in SUBSET {b} : E = {}
    OBVIOUS
  <1>10. BegunRow(r, rows[b], TRUE, b \in E)
    BY <1>2, <1>8, <1>9
  <1>11. EndedRows(E)
    BY <1>9, NothingEnds
  <1>12. b \in DOMAIN rows
    BY <1>1 DEF Triggers
  <1>13. PICK s : s = rows[b].parent
    OBVIOUS
  <1>14. c = Context([rows EXCEPT ![b] = r], <<s, b>>)
    BY <1>1, <1>4, <1>13
  <1>15. Opened(c, b, s, r, E)
    BY <1>1, <1>10, <1>11, <1>12, <1>13, <1>14, Opens
  <1>. QED BY <1>1, <1>4, <1>9, <1>13, <1>15

LEMMA ReattachedIs ==
  ASSUME Inv, NEW b, Work(b, {"timerBoundary"}), rows[b].context,
         NEW c, c = Context([rows EXCEPT ![b] = TimedRow(b)], <<Parent(b), b>>)
  PROVE  Reattached(b) = OneMore(c, Parent(b), [rows[b] EXCEPT !.work = 1])
  <1>1. /\ RowsOK /\ b \in DOMAIN rows /\ rows[b] \in Row /\ rows \in Seq(Row)
        /\ Worked(b) = [rows EXCEPT ![b] = WorkedRow(b)]
    BY TimerTriggers, RowsFacts DEF Triggers
  <1>2. PICK e : e = [rows EXCEPT ![b] = TimedRow(b)]
    OBVIOUS
  <1>3. [Worked(b) EXCEPT ![b].state = "STARTED"] = e
    BY <1>1, <1>2 DEF TimedRow
  <1>4. SetState(Context(Worked(b), <<Parent(b), b>>), b, "STARTED") = c
    <2>1. PICK f, L : f = Worked(b) /\ L = <<Parent(b), b>>
      OBVIOUS
    <2>2. PICK a : a = Context(f, L)
      OBVIOUS
    <2>3. a.entities = f
      BY <2>2 DEF Context
    <2>4. SetState(a, b, "STARTED") = [a EXCEPT !.entities = e]
      BY <2>1, <2>3, <1>3 DEF SetState
    <2>5. [a EXCEPT !.entities = e] = Context(e, L)
      BY <2>2 DEF Context
    <2>. QED BY <2>1, <2>2, <2>4, <2>5, <1>2
  <1>5. Len(c.entities) = Len(rows)
    <2>1. TimedRow(b) \in Row
      <3>1. Opened(c, b, Parent(b), TimedRow(b), {})
        BY TimerOpens
      <3>. QED BY <3>1 DEF Opened
    <2>2. Len(e) = Len(rows)
      BY <2>1, <1>1, <1>2, ExceptSeq
    <2>. QED BY <2>2, <1>2 DEF Context
  <1>. QED BY <1>4, <1>5 DEF Reattached, OneMore

(* A new row that refers to what row b refers to. *)
LEMMA CopiedShape ==
  ASSUME NEW e, NEW f, NEW n \in Nat, NEW b \in 2..n, ShapeOf(e, b),
         \A y \in 1..n : SameRow(f[y], e[y]), SameRow(f[n + 1], e[b])
  PROVE  ShapeOf(f, n + 1)
  <1>1. PICK x : x = n + 1
    OBVIOUS
  <1>2. SameRow(f[x], e[b]) /\ x # 1 /\ b # 1
    BY <1>1
  <1>3. /\ e[b].parent \in 0..b - 1 /\ e[b].prev \in 0..b - 1 /\ e[b].parent # 0
    BY <1>2 DEF ShapeOf
  <1>4. /\ e[b].parent \in 1..n /\ (e[b].prev # 0 => e[b].prev \in 1..n)
        /\ e[b].parent \in 0..x - 1 /\ e[b].prev \in 0..x - 1
    BY <1>1, <1>3
  <1>5. SameRow(f[e[b].parent], e[e[b].parent])
    BY <1>4
  <1>6. e[b].prev # 0 => SameRow(f[e[b].prev], e[e[b].prev])
    BY <1>4
  <1>7. ShapeOf(f, x)
    BY ONLY ShapeOf(e, b), <1>2, <1>3, <1>4, <1>5, <1>6
       DEF ShapeOf, SameRow, IsScope, IsMultiInstanceActivity, IsBoundaryEvent, IsActivity, Type
  <1>. QED BY <1>1, <1>7

LEMMA BoundaryCount ==
  ASSUME RowsOK, NEW b \in DOMAIN rows, IsBoundaryEvent(rows[b]), IsActive(rows[b])
  PROVE  /\ rows[b].count = 0 /\ ~rows[b].multi /\ ~IsMultiInstanceActivity(rows[b]) /\ ~IsScope(rows[b])
         /\ ~IsActivity(rows[b]) /\ Type(rows[b]) # "parallel"
         /\ UnsetOf(Context(rows, <<>>), b) = {} /\ \A y \in DOMAIN rows : rows[y].parent # b
  <1>1. PICK c : c = Context(rows, <<>>)
    OBVIOUS
  <1>2. /\ rows \in Seq(Row) /\ b \in 1..Len(rows) /\ Len(rows) \in Nat /\ rows[b] \in Row
        /\ ShapeOf(rows, b) /\ CountedRow(c, 0, b) /\ Consistent(c, 0, 0)
        /\ c.entities = rows
    BY <1>1, RowsFacts
  <1>3. CtxType(c) /\ DOMAIN rows = 1..Len(rows) /\ \A y \in 1..Len(rows) : ShapeOf(rows, y)
    BY <1>2 DEF Consistent
  <1>4. ~IsScope(rows[b]) /\ \A y \in 1..Len(rows) : rows[y].parent # b
    BY <1>2, BoundaryNoScope
  <1>5. Kids(c, 0, b) = {}
    BY <1>2, <1>3, <1>4 DEF Kids
  <1>6. /\ ~IsActivity(rows[b]) /\ Type(rows[b]) # "parallel" /\ ~rows[b].multi
        /\ ~IsMultiInstanceActivity(rows[b])
    BY <1>2, <1>4, ValidAssumption
       DEF IsActivity, IsBoundaryEvent, BoundaryEvents, Activities, Type, IsScope, IsMultiInstanceActivity, Row
  <1>7. UnsetOf(c, b) = {}
    <2>1. ASSUME NEW y \in 1..Len(rows), rows[y].prev = b, IsUnset(rows[y]) PROVE FALSE
      BY <2>1, <1>3, <1>6 DEF ShapeOf, IsUnset
    <2>. QED BY <2>1, <1>2, <1>3 DEF UnsetOf
  <1>8. rows[b].count = Cardinality(Kids(c, 0, b)) - Cardinality(UnsetOf(c, b))
    BY <1>2 DEF CountedRow
  <1>9. Cardinality(Kids(c, 0, b)) = 0 /\ Cardinality(UnsetOf(c, b)) = 0
    BY <1>3, <1>5, <1>7, SetsOf
  <1>10. rows[b].count = 0
    BY <1>8, <1>9
  <1>11. \A y \in DOMAIN rows : rows[y].parent # b
    BY <1>3, <1>4
  <1>12. UnsetOf(Context(rows, <<>>), b) = {}
    BY <1>1, <1>7
  <1>. QED BY <1>4, <1>6, <1>10, <1>11, <1>12

(* The row of the new boundary event *)
ReattachedRow(b) == [rows[b] EXCEPT !.work = 1]
UnpreparedRow(b) == [ReattachedRow(b) EXCEPT !.state = "NEW", !.work = 0]

LEMMA ReattachedRows ==
  ASSUME RowsOK, NEW b \in DOMAIN rows, rows[b] \in Row, NEW r, r = ReattachedRow(b),
         NEW q, q = UnpreparedRow(b)
  PROVE  /\ r \in Row /\ SameRow(r, rows[b]) /\ r.count = rows[b].count /\ r.state = rows[b].state
         /\ r.context = rows[b].context /\ r.work = 1
         /\ q \in Row /\ SameRow(q, rows[b]) /\ q.count = rows[b].count /\ q.state = "NEW"
         /\ q.context = rows[b].context /\ q.work = 0
  <1>1. /\ r \in Row /\ r.count = rows[b].count /\ r.state = rows[b].state
        /\ r.context = rows[b].context /\ r.work = 1
    BY DEF ReattachedRow, Row
  <1>2. SameRow(r, rows[b])
    BY DEF ReattachedRow, Row, SameRow
  <1>3. /\ q \in Row /\ q.count = rows[b].count /\ q.state = "NEW"
        /\ q.context = rows[b].context /\ q.work = 0
    BY DEF ReattachedRow, UnpreparedRow, Row, InstanceState
  <1>4. SameRow(q, rows[b])
    BY DEF ReattachedRow, UnpreparedRow, Row, SameRow
  <1>. QED BY <1>1, <1>2, <1>3, <1>4

LEMMA UnpreparedGrows ==
  ASSUME NEW b, NEW p, NEW c, NEW r, NEW E, Opened(c, b, p, r, E), RowsOK,
         IsBoundaryEvent(rows[b]), IsActive(rows[b]), rows[b].context,
         NEW g, g = OneMore(c, p, UnpreparedRow(b))
  PROVE  Consistent(g, 0, 0) /\ NewOnce(g, 0)
  <1>1. PICK n \in Nat : n = Len(rows)
    BY DEF Opened
  <1>2. /\ Consistent(c, 0, 0) /\ NewOnce(c, 0) /\ CtxType(c)
        /\ b \in 2..n /\ p \in 1..n /\ p < b /\ p = rows[b].parent /\ Len(c.entities) = n
        /\ SameRow(r, rows[b]) /\ c.entities[b] = r
        /\ \A y \in 1..n : y # b => c.entities[y] = rows[y]
        /\ rows[p].state \in {"STARTED", "QUEUED", "SUSPENDED"} /\ IsScope(rows[p])
        /\ rows[p].state = "QUEUED" => Type(rows[b]) = "startEvent"
        /\ ~IsNew(p)
    BY <1>1 DEF Opened
  <1>3. /\ DOMAIN rows = 1..n /\ b \in DOMAIN rows /\ rows[b] \in Row /\ ShapeOf(rows, b)
    <2>1. rows # <<>>
      BY DEF Opened, Begun
    <2>2. CtxType(Context(rows, <<>>)) /\ Context(rows, <<>>).entities = rows
      BY <2>1 DEF RowsOK, Consistent, Context
    <2>3. DOMAIN rows = 1..n
      BY <2>2, <1>1, CtxFacts
    <2>4. b \in DOMAIN rows
      BY <2>3, <1>2
    <2>. QED BY <2>3, <2>4, RowsFacts
  <1>4. PICK q : q = UnpreparedRow(b)
    OBVIOUS
  <1>5. /\ q \in Row /\ SameRow(q, rows[b]) /\ q.count = 0 /\ q.state = "NEW"
        /\ q.context /\ q.work = 0 /\ ~q.multi
    <2>1. /\ q \in Row /\ SameRow(q, rows[b]) /\ q.count = rows[b].count /\ q.state = "NEW"
          /\ q.context = rows[b].context /\ q.work = 0
      <3>1. PICK v : v = ReattachedRow(b)
        OBVIOUS
      <3>. QED BY <3>1, <1>3, <1>4, ReattachedRows
    <2>2. rows[b].count = 0 /\ ~rows[b].multi
      BY <1>3, BoundaryCount
    <2>. QED BY <2>1, <2>2 DEF SameRow
  <1>6. /\ CtxType(g) /\ g.instance = c.instance /\ Len(g.entities) = n + 1
        /\ Extended(c, g, Numbers(n, 1))
        /\ \A y \in 1..n : g.entities[y] = IF y = p THEN Counted(c.entities[p], 1) ELSE c.entities[y]
        /\ g.entities[n + 1] = q
    <2>1. Distinct(c)
      BY <1>2 DEF Consistent
    <2>2. CtxType(c) /\ p \in 1..Len(c.entities) /\ q \in Row /\ ~q.multi /\ n = Len(c.entities)
          /\ g = OneMore(c, p, q)
      BY <1>2, <1>4, <1>5
    <2>. QED BY ONLY <2>1, <2>2, n \in Nat, OneMoreFacts
  <1>7. PICK m \in Nat, a \in 0..n, u \in Nat : m = 1 /\ a = 0 /\ u = 0
    OBVIOUS
  <1>8. Numbers(n, m) = {n + 1}
    <2>1. \A y : y \in n + 1..n + 1 <=> y \in {n + 1}
      OBVIOUS
    <2>2. Numbers(n, m) = n + 1..n + 1
      BY <1>7 DEF Numbers
    <2>. QED BY <2>1, <2>2
  <1>9. \A y \in 1..n : g.entities[y] = Recounted(c.entities[y], y, p, m, a, u)
    <2>1. ASSUME NEW y \in 1..n PROVE g.entities[y] = Recounted(c.entities[y], y, p, m, a, u)
      <3>1. PICK v \in Row : v = c.entities[y]
        BY <1>2, CtxFacts
      <3>2. m \in Int /\ y # a /\ g.entities[y] = (IF y = p THEN Counted(v, 1) ELSE v)
        BY <3>1, <1>6, <1>7
      <3>3. Recounted(v, y, p, m, a, u) = IF y = p THEN [v EXCEPT !.count = @ + m - 0] ELSE [v EXCEPT !.count = @ + 0 - 0]
        BY <3>2 DEF Recounted
      <3>. QED BY <3>1, <3>2, <3>3, <1>7, Recount DEF Counted
    <2>. QED BY <2>1
  <1>10. \A y \in 1..n : SameRow(g.entities[y], rows[y])
    <2>1. ASSUME NEW y \in 1..n PROVE SameRow(g.entities[y], rows[y])
      <3>1. SameRow(c.entities[y], rows[y]) /\ c.entities[y] \in Row
        <4>1. c.entities[y] \in Row
          BY <1>2, CtxFacts
        <4>. QED BY <4>1, <1>2 DEF SameRow
      <3>2. SameRow(Counted(c.entities[y], 1), c.entities[y])
        BY <3>1 DEF Counted, SameRow, Row
      <3>3. g.entities[y] = Counted(c.entities[y], 1) \/ g.entities[y] = c.entities[y]
        BY <1>6
      <3>. QED BY <3>1, <3>2, <3>3 DEF SameRow
    <2>. QED BY <2>1
  <1>11. NewWithin(g, n + 1, p, a)
    <2>1. ShapeOf(g.entities, n + 1)
      BY <1>2, <1>3, <1>5, <1>6, <1>10, CopiedShape
    <2>2. g.entities[n + 1].parent = p
      BY <1>2, <1>5, <1>6 DEF SameRow
    <2>3. ~IsUnset(g.entities[n + 1])
      BY <1>5, <1>6 DEF IsUnset
    <2>. QED BY <2>1, <2>2, <2>3, <1>5, <1>6 DEF NewWithin
  <1>12. u = Cardinality(NewUnset(g, n, m))
    <2>1. NewUnset(g, n, m) = {}
      <3>1. ~IsUnset(g.entities[n + 1])
        BY <1>5, <1>6 DEF IsUnset
      <3>. QED BY <3>1, <1>8 DEF NewUnset
    <2>. QED BY <2>1, <1>7, FS_EmptySet
  <1>13. c.entities[p] = rows[p] /\ IsOpen(rows[p]) /\ Idle(rows[p])
    <2>1. Type(rows[b]) # "startEvent"
      BY DEF IsBoundaryEvent, BoundaryEvents
    <2>2. b # 1
      BY <1>2
    <2>3. Idle(rows[p])
      BY <2>2, <1>2, <1>3, ScopeCounts
    <2>. QED BY <2>1, <2>3, <1>2 DEF IsOpen
  <1>14. c.entities[1].state # "QUEUED"
    <2>1. p \in 1..Len(c.entities) /\ IsScope(c.entities[p]) /\ IsOpen(c.entities[p])
      BY <1>2, <1>13
    <2>. QED BY <2>1, <1>2, NotQueued
  <1>15. /\ c.entities[p].state \in {"STARTED", "QUEUED", "SUSPENDED"} /\ Idle(c.entities[p])
         /\ (IsNew(p) /\ p # 1 => p \notin Pending(c))
         /\ p \in 1..Len(c.entities) /\ a \in 0..Len(c.entities) /\ 0 \in 0..Len(c.entities)
    BY <1>2, <1>13
  <1>16. /\ Extended(c, g, Numbers(Len(c.entities), m)) /\ Len(g.entities) = Len(c.entities) + m
         /\ g.instance = c.instance /\ CtxType(g)
    BY <1>2, <1>6, <1>7
  <1>17. /\ \A y \in 1..Len(c.entities) : g.entities[y] = Recounted(c.entities[y], y, p, m, a, u)
         /\ \A y \in Numbers(Len(c.entities), m) : NewWithin(g, y, p, a)
         /\ u = Cardinality(NewUnset(g, Len(c.entities), m))
         /\ u # 0 => a # 0 /\ c.entities[a].state = "CREATED" /\ c.entities[a].work = 0
         /\ c.entities[1].state = "QUEUED" =>
              \A y \in Numbers(Len(c.entities), m) : Type(g.entities[y]) = "startEvent"
    BY <1>2, <1>7, <1>8, <1>9, <1>11, <1>12, <1>14
  <1>18. PICK t : t = 0
    OBVIOUS
  <1>19. /\ Consistent(c, t, t) /\ NewOnce(c, t) /\ t \in 0..Len(c.entities)
    BY <1>2, <1>15, <1>18
  <1>20. Consistent(g, t, t) /\ NewOnce(g, t)
    BY ONLY <1>15, <1>16, <1>17, <1>19, m \in Nat, u \in Nat, Grown
  <1>. QED BY <1>18, <1>20

LEMMA OneMorePut ==
  ASSUME NEW c, CtxType(c), Distinct(c), NEW p \in 1..Len(c.entities), NEW q \in Row, ~q.multi,
         NEW r \in Row, ~r.multi, NEW n \in Nat, n = Len(c.entities)
  PROVE  OneMore(c, p, r) = Put(OneMore(c, p, q), n + 1, r)
  <1>1. PICK d : d = AddCount(c, p, 1)
    OBVIOUS
  <1>2. PICK e : e = d.entities
    OBVIOUS
  <1>3. e \in Seq(Row) /\ Len(e) = n /\ d = [d EXCEPT !.entities = e] /\ d \in Contexts
    <2>1. CtxType(c) /\ c.entities[p] \in Row
      BY CtxFacts
    <2>2. Counted(c.entities[p], 1) \in Row
      <3>1. PICK v \in Row : v = c.entities[p]
        BY <2>1
      <3>2. 1 \in Int
        OBVIOUS
      <3>3. Counted(v, 1) \in Row
        BY ONLY v \in Row, <3>2, RowCounted DEF Counted
      <3>. QED BY <3>1, <3>3
    <2>3. d = Put(c, p, Counted(c.entities[p], 1))
      BY <1>1 DEF AddCount, Put, Counted
    <2>4. CtxType(d) /\ Len(d.entities) = Len(c.entities)
      BY <2>1, <2>2, <2>3, PutFacts
    <2>. QED BY <2>4, <1>2 DEF CtxType, Contexts
  <1>4. [Append(e, q) EXCEPT ![n + 1] = r] = Append(e, r)
    <2>1. PICK f, g : f = Append(e, q) /\ g = Append(e, r)
      OBVIOUS
    <2>2. /\ f \in Seq(Row) /\ Len(f) = n + 1 /\ \A y \in 1..n : f[y] = e[y]
          /\ g \in Seq(Row) /\ Len(g) = n + 1 /\ g[n + 1] = r /\ \A y \in 1..n : g[y] = e[y]
      <3>1. /\ f \in Seq(Row) /\ Len(f) = Len(e) + 1 /\ \A y \in 1..Len(e) : f[y] = e[y]
        BY <2>1, <1>3, AppendProperties
      <3>2. /\ g \in Seq(Row) /\ Len(g) = Len(e) + 1 /\ \A y \in 1..Len(e) : g[y] = e[y]
            /\ g[Len(e) + 1] = r
        BY <2>1, <1>3, AppendProperties
      <3>. QED BY <3>1, <3>2, <1>3
    <2>3. n + 1 \in 1..n + 1
      OBVIOUS
    <2>4. PICK h : h = [f EXCEPT ![n + 1] = r]
      OBVIOUS
    <2>5. h \in Seq(Row) /\ Len(h) = n + 1 /\ \A y \in 1..n + 1 : h[y] = IF y = n + 1 THEN r ELSE f[y]
      BY <2>2, <2>3, <2>4, ExceptSeq
    <2>6. \A y \in 1..n + 1 : h[y] = g[y]
      <3>1. \A y \in 1..n + 1 : y = n + 1 \/ y \in 1..n
        OBVIOUS
      <3>. QED BY <3>1, <2>2, <2>5
    <2>7. h = g
      BY <2>2, <2>5, <2>6, SeqEqual
    <2>. QED BY <2>1, <2>4, <2>7
  <1>5. PICK l : l = Append(d.list, Len(c.entities) + 1)
    OBVIOUS
  <1>6. OneMore(c, p, q) = [d EXCEPT !.entities = Append(e, q), !.list = l]
    BY <1>1, <1>2, <1>5 DEF OneMore
  <1>7. OneMore(c, p, r) = [d EXCEPT !.entities = Append(e, r), !.list = l]
    BY <1>1, <1>2, <1>5 DEF OneMore
  <1>8. PICK f : f = Append(e, q)
    OBVIOUS
  <1>9. Put([d EXCEPT !.entities = f, !.list = l], n + 1, r)
          = [d EXCEPT !.entities = [f EXCEPT ![n + 1] = r], !.list = l]
    BY <1>3 DEF Put, Contexts
  <1>. QED BY <1>4, <1>6, <1>7, <1>8, <1>9

LEMMA ReattachedConsistent ==
  ASSUME NEW b, NEW p, NEW c, NEW r, NEW E, Opened(c, b, p, r, E), RowsOK, Triggers(b), rows[b].context,
         NEW h, h = OneMore(c, p, ReattachedRow(b))
  PROVE  /\ Consistent(h, 0, 0) /\ NewOnce(h, 0)
         /\ Len(h.entities) = Len(rows) + 1 /\ h.entities[Len(rows) + 1].parent = p
         /\ Moves(c, h, b, p)
         /\ Pending(h) = Pending(c) \cup {Len(rows) + 1}
         /\ \A y : y # 0 => (Listed(h, y) <=> Listed(c, y) \/ y = Len(rows) + 1)
  <1>1. PICK n \in Nat : n = Len(rows)
    BY DEF Opened
  <1>2. /\ Consistent(c, 0, 0) /\ NewOnce(c, 0) /\ CtxType(c) /\ Distinct(c)
        /\ p \in 1..n /\ p = rows[b].parent /\ Len(c.entities) = n
    BY <1>1 DEF Opened, Begun
  <1>3. /\ b \in DOMAIN rows /\ IsBoundaryEvent(rows[b]) /\ rows[b].state = "CREATED" /\ IsActive(rows[b])
    BY DEF Triggers, IsActive, Ended
  <1>4. rows[b] \in Row /\ rows[b].count = 0 /\ ~rows[b].multi /\ ~IsActivity(rows[b])
        /\ ~IsMultiInstanceActivity(rows[b]) /\ Type(rows[b]) # "parallel"
    BY <1>3, BoundaryCount, RowsFacts
  <1>5. PICK q : q = UnpreparedRow(b)
    OBVIOUS
  <1>6. PICK v : v = ReattachedRow(b)
    OBVIOUS
  <1>7. /\ v \in Row /\ SameRow(v, rows[b]) /\ v.count = 0 /\ v.state = "CREATED"
        /\ v.context /\ v.work = 1
        /\ q \in Row /\ SameRow(q, rows[b]) /\ q.count = 0 /\ q.state = "NEW" /\ q.context
    BY <1>3, <1>4, <1>5, <1>6, ReattachedRows
  <1>8. ~v.multi /\ ~q.multi /\ v.parent = p
    BY <1>2, <1>4, <1>7 DEF SameRow
  <1>9. PICK g : g = OneMore(c, p, q)
    OBVIOUS
  <1>10. Consistent(g, 0, 0) /\ NewOnce(g, 0)
    BY <1>3, <1>5, <1>9, UnpreparedGrows
  <1>11. p \in 1..Len(c.entities) /\ n = Len(c.entities)
    BY <1>2
  <1>12. h = Put(g, n + 1, v)
    BY <1>2, <1>6, <1>7, <1>8, <1>9, <1>11, OneMorePut
  <1>13. /\ CtxType(g) /\ Len(g.entities) = n + 1 /\ g.entities[n + 1] = q
         /\ Extended(c, g, Numbers(n, 1))
    BY <1>2, <1>7, <1>8, <1>9, <1>11, OneMoreFacts
  <1>14. Numbers(n, 1) = {n + 1}
    <2>1. \A y : y \in n + 1..n + 1 <=> y \in {n + 1}
      OBVIOUS
    <2>. QED BY <2>1 DEF Numbers
  <1>15. /\ CtxType(h) /\ Len(h.entities) = n + 1 /\ h.entities[n + 1] = v
         /\ Extended(c, h, Numbers(n, 1)) /\ NewIn(c, h, p)
    BY <1>2, <1>6, <1>7, <1>8, <1>11, OneMoreFacts, SMTT(20)
  <1>16. RowChanges(g, 0, n + 1, v, 0)
    <2>1. n + 1 \in Pending(g)
      BY <1>13, <1>14 DEF Extended
    <2>2. Kids(g, 0, n + 1) = {}
      <3>1. n + 1 \in 1..Len(g.entities) /\ IsBoundaryEvent(g.entities[n + 1])
        BY <1>3, <1>7, <1>13, RowLike
      <3>2. \A y \in 1..Len(g.entities) : g.entities[y].parent # n + 1
        BY <3>1, <1>10, BoundaryNoScope
      <3>3. DOMAIN g.entities = 1..Len(g.entities)
        BY <1>13, CtxFacts
      <3>. QED BY <3>2, <3>3 DEF Kids
    <2>3. SameRow(v, q)
      BY <1>7 DEF SameRow
    <2>4. /\ IsActive(v) /\ IsActive(q) /\ ~IsUnset(v) /\ ~IsUnset(q)
      BY <1>7 DEF IsActive, Ended, IsUnset
    <2>5. /\ ~IsActivity(v) /\ ~IsMultiInstanceActivity(v) /\ Type(v) # "parallel"
      BY <1>4, <1>7, RowLike
    <2>6. RowState(v, n + 1, Kids(g, 0, n + 1), UnsetOf(g, n + 1), n + 1 \in Pending(g) \/ n + 1 = 0, Listed(g, n + 1))
      BY <2>1, <2>2, <2>4, <2>5, <1>7 DEF RowState
    <2>7. n + 1 \in 2..Len(g.entities)
      BY <1>2, <1>13
    <2>. QED BY <2>3, <2>4, <2>6, <2>7, <1>7, <1>13 DEF RowChanges
  <1>17. Consistent(h, 0, 0) /\ NewOnce(h, 0)
    <2>1. PICK t : t = 0
      OBVIOUS
    <2>2. Consistent(g, t, t) /\ NewOnce(g, t) /\ RowChanges(g, t, n + 1, v, t)
      BY <2>1, <1>10, <1>16
    <2>3. Consistent(h, t, t) /\ NewOnce(h, t)
      BY <2>2, <1>12, RowChange
    <2>. QED BY <2>1, <2>3
  <1>18. Moves(c, h, b, p)
    BY <1>2, <1>11, <1>15, MovesBranches
  <1>19. /\ Pending(h) = Pending(c) \cup {n + 1}
         /\ \A y : y # 0 => (Listed(h, y) <=> Listed(c, y) \/ y = n + 1)
    BY <1>14, <1>15 DEF Extended
  <1>. QED BY <1>1, <1>8, <1>15, <1>17, <1>18, <1>19

LEMMA ReattachedKept ==
  ASSUME AttachedToActive, NEW b, NEW p, NEW c, NEW r, NEW E, Opened(c, b, p, r, E), RowsOK, Triggers(b),
         rows[b].context, NEW h, h = OneMore(c, p, ReattachedRow(b))
  PROVE  Kept(h)
  <1>1. PICK n \in Nat : n = Len(rows)
    BY DEF Opened
  <1>2. /\ Consistent(h, 0, 0) /\ Len(h.entities) = n + 1 /\ h.entities[n + 1].parent = p
        /\ Moves(c, h, b, p) /\ Pending(h) = Pending(c) \cup {n + 1}
        /\ \A y : y # 0 => (Listed(h, y) <=> Listed(c, y) \/ y = n + 1)
    BY <1>1, ReattachedConsistent
  <1>3. /\ b \in 2..n /\ p \in 1..n /\ p = rows[b].parent /\ Len(c.entities) = n
        /\ c.entities[b] = r /\ SameRow(r, rows[b])
        /\ \A y \in 1..n : y # b => c.entities[y] = rows[y]
        /\ Pending(c) = {p, b} /\ rows[p].state \in {"STARTED", "QUEUED", "SUSPENDED"}
        /\ \A y : Listed(c, y) => y \in {p, b}
    <2>1. /\ b \in 2..n /\ p \in 1..n /\ p = rows[b].parent /\ Len(c.entities) = n
          /\ c.entities[b] = r /\ SameRow(r, rows[b])
          /\ \A y \in 1..n : y # b => c.entities[y] = rows[y]
          /\ Pending(c) = {p, b} /\ rows[p].state \in {"STARTED", "QUEUED", "SUSPENDED"}
          /\ c = Context([rows EXCEPT ![b] = r], <<p, b>>)
      BY <1>1 DEF Opened
    <2>2. c.list = <<p, b>>
      BY <2>1 DEF Context
    <2>3. \A k \in DOMAIN c.list : c.list[k] \in {p, b}
      BY <2>2
    <2>. QED BY <2>1, <2>3 DEF Listed
  <1>4. PICK a : a = rows[b].prev
    OBVIOUS
  <1>5. /\ a \in 2..n /\ DOMAIN rows = 1..n /\ rows[a].parent = p /\ a < b /\ IsBoundaryEvent(rows[b])
    <2>1. /\ a \in 2..n /\ DOMAIN rows = 1..n /\ rows[a].parent = rows[b].parent /\ a < b
      BY <1>1, <1>4, TriggersFacts
    <2>. QED BY <2>1, <1>3 DEF Triggers
  <1>6. p < a
    <2>1. a \in 1..n /\ ShapeOf(rows, a)
      BY <1>5, RowsFacts
    <2>2. rows[a].parent \in 0..a - 1
      BY <2>1, Referred
    <2>. QED BY <2>2, <1>3, <1>5
  <1>7. \A y \in 1..n : MovedRow(c, h, b, p, y) /\ SameRow(h.entities[y], rows[y])
    <2>1. ASSUME NEW y \in 1..n PROVE MovedRow(c, h, b, p, y) /\ SameRow(h.entities[y], rows[y])
      <3>1. MovedRow(c, h, b, p, y)
        BY <1>2, <1>3 DEF Moves
      <3>. QED BY <3>1, <1>3 DEF MovedRow, SameRow
    <2>. QED BY <2>1
  <1>8. Untouched(h, a)
    <2>1. \A y \in 1..Len(rows) : h.entities[y].parent = rows[y].parent
      BY <1>1, <1>7 DEF SameRow
    <2>2. \A y \in 1..Len(h.entities) : y > Len(rows) => h.entities[y].parent < a
      <3>1. \A y \in 1..n + 1 : y > n => y = n + 1
        OBVIOUS
      <3>. QED BY <3>1, <1>1, <1>2, <1>6
    <2>3. ASSUME NEW z \in 1..Len(rows), Listed(h, z) PROVE z < a \/ (z # a /\ rows[z].parent < a)
      <3>1. z \in {p, b}
        <4>1. z # 0 /\ z # n + 1
          BY <1>1
        <4>. QED BY <4>1, <2>3, <1>2, <1>3
      <3>2. b # a /\ rows[b].parent < a
        BY <1>3, <1>5, <1>6
      <3>. QED BY <3>1, <3>2, <1>6
    <2>4. CtxType(h) /\ Len(rows) <= Len(h.entities) /\ a \in DOMAIN rows /\ a # 1
      BY <1>1, <1>2, <1>5 DEF Consistent
    <2>. QED BY <2>1, <2>2, <2>3, <2>4, NotTouched
  <1>9. ASSUME NEW y \in 1..n PROVE KeptRow(h, y)
    <2>1. MovedRow(c, h, b, p, y) /\ SameRow(h.entities[y], rows[y])
      BY <1>7
    <2>2. y # b => h.entities[y].state = rows[y].state
      BY <2>1, <1>3 DEF MovedRow
    <2>3. IsMultiInstanceActivity(rows[y]) => y # b
      <3>1. b \in DOMAIN rows /\ rows[b].state = "CREATED" /\ IsBoundaryEvent(rows[b])
        BY DEF Triggers
      <3>2. IsActive(rows[b])
        BY <3>1 DEF IsActive, Ended
      <3>3. ~IsMultiInstanceActivity(rows[b])
        BY <3>1, <3>2, BoundaryCount
      <3>. QED BY <3>3
    <2>4. ASSUME IsMultiInstanceActivity(rows[y]), rows[y].state = "CREATED"
          PROVE  h.entities[y].state = "CREATED" /\ y \notin Pending(h)
      <3>1. y # b /\ y # p /\ y # n + 1
        BY <2>3, <2>4, <1>3
      <3>. QED BY <3>1, <2>2, <2>4, <1>2, <1>3
    <2>. QED BY <2>1, <2>2, <2>4, <1>4, <1>8 DEF KeptRow
  <1>10. Len(rows) <= Len(h.entities)
    BY <1>1, <1>2
  <1>. QED BY <1>1, <1>9, <1>10 DEF Kept

LEMMA TriggerTimerBoundaryEventKeeps ==
  ASSUME Inv, AttachedToActive, NEW b, TriggerTimerBoundaryEvent(b)
  PROVE  Inv'
  <1>1. Work(b, {"timerBoundary"}) /\ rows[b].context
    BY DEF TriggerTimerBoundaryEvent
  <1>2. /\ Triggers(b) /\ RowsOK /\ b # 1 /\ rows[b] \in Row /\ IsActive(rows[b])
        /\ Parent(b) = rows[b].parent
    BY <1>1, TimerTriggers
  <1>3. PICK p : p = rows[b].parent
    OBVIOUS
  <1>4. CASE Begin(Interrupted(Parent(b), b))
    <2>1. p \in DOMAIN rows /\ IsActive(rows[p]) /\ rows[p].state # "CREATED" /\ Idle(rows[p])
      <3>1. b \in DOMAIN rows
        BY <1>2 DEF Triggers
      <3>2. /\ p \in 1..Len(rows) /\ IsActive(rows[p]) /\ Idle(rows[p])
            /\ rows[p].state \in {"STARTED", "QUEUED", "SUSPENDED"}
        BY <3>1, <1>2, <1>3, ScopeCounts
      <3>3. DOMAIN rows = 1..Len(rows)
        BY <1>2, TriggersFacts
      <3>. QED BY <3>2, <3>3
    <2>. QED BY <2>1, <1>2, <1>3, <1>4, InterruptsKeeps
  <1>5. CASE Begin(Reattached(b))
    <2>1. PICK c : c = Context([rows EXCEPT ![b] = TimedRow(b)], <<Parent(b), b>>)
      OBVIOUS
    <2>2. PICK r, E : r = TimedRow(b) /\ E = {}
      OBVIOUS
    <2>3. Opened(c, b, p, r, E)
      BY <2>1, <2>2, <1>1, <1>2, <1>3, TimerOpens
    <2>4. PICK h : h = OneMore(c, p, ReattachedRow(b))
      OBVIOUS
    <2>5. Reattached(b) = h
      BY <2>1, <2>4, <1>1, <1>2, <1>3, ReattachedIs DEF ReattachedRow
    <2>6. Consistent(h, 0, 0) /\ NewOnce(h, 0)
      BY <2>3, <2>4, <1>1, <1>2, ReattachedConsistent
    <2>7. Kept(h)
      BY <2>3, <2>4, <1>1, <1>2, ReattachedKept
    <2>8. UNCHANGED <<rows, instance>> /\ h = tx'
      BY <2>5, <1>5 DEF Begin
    <2>. QED BY <2>6, <2>7, <2>8, ContextKept
  <1>. QED BY <1>4, <1>5 DEF TriggerTimerBoundaryEvent

(* A boundary event is set, and what it is attached to waits for it no more. *)
SetRow(r) == [r EXCEPT !.context = TRUE]

LEMMA SetFacts ==
  ASSUME NEW r \in Row, NEW q, q = SetRow(r)
  PROVE  /\ q \in Row /\ SameRow(q, r) /\ q.count = r.count /\ q.state = r.state /\ q.work = r.work
         /\ q.context /\ ~IsUnset(q)
  <1>1. q \in Row /\ q.count = r.count /\ q.state = r.state /\ q.work = r.work /\ q.context
    BY DEF SetRow, Row
  <1>2. SameRow(q, r)
    BY DEF SetRow, Row, SameRow
  <1>. QED BY <1>1, <1>2 DEF IsUnset

LEMMA FewerUnset ==
  ASSUME NEW r, NEW y, NEW kids, NEW unset, NEW pending, NEW listed,
         RowState(r, y, kids, unset, pending, listed), NEW left \in SUBSET unset
  PROVE  RowState(r, y, kids, left, pending, listed)
  BY DEF RowState

LEMMA StateLike ==
  ASSUME NEW r, NEW q, SameRow(q, r), q.state = r.state, q.work = r.work, IsUnset(q) => IsUnset(r),
         q.context \/ q.context = r.context,
         NEW y, NEW kids, NEW unset, NEW pending, NEW listed,
         RowState(r, y, kids, unset, pending, listed)
  PROVE  RowState(q, y, kids, unset, pending, listed)
  <1>1. /\ Type(q) = Type(r) /\ q.element = r.element /\ q.prev = r.prev
        /\ IsActivity(q) = IsActivity(r) /\ IsBoundaryEvent(q) = IsBoundaryEvent(r)
        /\ IsMultiInstanceActivity(q) = IsMultiInstanceActivity(r)
    BY RowLike
  <1>2. IsActive(q) = IsActive(r)
    BY DEF IsActive
  <1>. QED BY <1>1, <1>2 DEF RowState

EventSet(c, x, a) == AddCount(Put(c, x, SetRow(c.entities[x])), a, 1)

LEMMA EventSetRows ==
  ASSUME NEW c, CtxType(c), NEW x \in 1..Len(c.entities), NEW a \in 1..Len(c.entities), a # x,
         NEW d, d = EventSet(c, x, a)
  PROVE  /\ CtxType(d) /\ Len(d.entities) = Len(c.entities) /\ d.instance = c.instance
         /\ d.list = c.list /\ d.next = c.next
         /\ d.entities[x] = SetRow(c.entities[x]) /\ d.entities[a] = Counted(c.entities[a], 1)
         /\ \A y \in 1..Len(c.entities) : y # x /\ y # a => d.entities[y] = c.entities[y]
  <1>1. PICK r : r = SetRow(c.entities[x])
    OBVIOUS
  <1>2. r \in Row
    <2>1. c.entities[x] \in Row
      BY CtxFacts
    <2>. QED BY <2>1, <1>1, SetFacts
  <1>3. PICK f : f = Put(c, x, r)
    OBVIOUS
  <1>4. /\ CtxType(f) /\ Len(f.entities) = Len(c.entities) /\ f.instance = c.instance
        /\ f.list = c.list /\ f.next = c.next /\ f.entities[x] = r
        /\ \A y \in 1..Len(c.entities) : y # x => f.entities[y] = c.entities[y]
    BY <1>2, <1>3, PutFacts
  <1>5. PICK q : q = Counted(f.entities[a], 1)
    OBVIOUS
  <1>6. q \in Row /\ d = Put(f, a, q)
    <2>1. PICK v \in Row : v = f.entities[a]
      BY <1>4, CtxFacts
    <2>2. 1 \in Int
      OBVIOUS
    <2>3. q \in Row
      BY <2>1, <2>2, <1>5, RowCounted DEF Counted
    <2>4. d = Put(f, a, q)
      BY <1>1, <1>3, <1>5 DEF EventSet, AddCount, Put, Counted
    <2>. QED BY <2>3, <2>4
  <1>7. /\ CtxType(d) /\ Len(d.entities) = Len(f.entities) /\ d.instance = f.instance
        /\ d.list = f.list /\ d.next = f.next /\ d.entities[a] = q
        /\ \A y \in 1..Len(f.entities) : y # a => d.entities[y] = f.entities[y]
    BY <1>4, <1>6, PutFacts
  <1>. QED BY <1>1, <1>4, <1>5, <1>7

LEMMA EventSetKeeps ==
  ASSUME NEW c, NEW t, NEW s, Consistent(c, t, s), NewOnce(c, t), NEW x \in 1..Len(c.entities),
         IsUnset(c.entities[x]), c.entities[x].state = "CREATED",
         NEW a, a = c.entities[x].prev, IsActive(c.entities[a]),
         NEW d, d = EventSet(c, x, a)
  PROVE  Consistent(d, t, s) /\ NewOnce(d, t)
  <1>1. /\ CtxType(c) /\ Distinct(c) /\ \A y \in DOMAIN c.entities : ShapeOf(c.entities, y)
        /\ ActiveWithin(c) /\ Order(c) /\ ProcessOf(c, s)
        /\ \A y \in DOMAIN c.entities : CountedRow(c, t, y)
        /\ \A y \in DOMAIN c.entities : StateOf(c, y, t)
    BY DEF Consistent
  <1>2. PICK n \in Nat : n = Len(c.entities)
    BY <1>1, CtxFacts
  <1>3. DOMAIN c.entities = 1..n /\ (\A y \in 1..n : c.entities[y] \in Row) /\ Pending(c) \subseteq 1..n /\ 1 \in 1..n
    <2>1. DOMAIN c.entities = 1..n /\ (\A y \in 1..n : c.entities[y] \in Row) /\ Pending(c) \subseteq 1..n /\ n # 0
      BY <1>1, <1>2, CtxFacts
    <2>. QED BY <2>1
  <1>4. IsBoundaryEvent(c.entities[x]) /\ IsActive(c.entities[x]) /\ ShapeOf(c.entities, x) /\ x \in 1..n
    BY <1>1, <1>2, <1>3 DEF IsUnset
  <1>5. a \in 1..n /\ a < x
    <2>1. a \in 0..x - 1 /\ a \in 0..n
      BY <1>2, <1>4, Referred
    <2>2. a # 0
      BY <1>4 DEF ShapeOf
    <2>. QED BY <2>1, <2>2, <1>4
  <1>6. IsActivity(c.entities[a])
    BY <1>4 DEF ShapeOf
  <1>7. x # 1 /\ a # 1 /\ a # x
    <2>1. ShapeOf(c.entities, a)
      BY <1>1, <1>3, <1>5
    <2>. QED BY <2>1, <1>4, <1>5, <1>6 DEF ShapeOf, IsActivity, Activities, IsBoundaryEvent, BoundaryEvents
  <1>8. /\ CtxType(d) /\ Len(d.entities) = n /\ d.instance = c.instance
        /\ d.list = c.list /\ d.next = c.next
        /\ d.entities[x] = SetRow(c.entities[x]) /\ d.entities[a] = Counted(c.entities[a], 1)
        /\ \A y \in 1..n : y # x /\ y # a => d.entities[y] = c.entities[y]
    BY <1>1, <1>2, <1>5, <1>7, EventSetRows
  <1>9. DOMAIN d.entities = 1..n
    BY <1>8, CtxFacts
  <1>10. /\ Pending(d) = Pending(c) /\ Distinct(d)
         /\ \A y : Listed(d, y) <=> Listed(c, y)
         /\ \A y, z : Before(d, y, z) <=> Before(c, y, z)
    BY <1>1, <1>8, SameList
  <1>11. /\ d.entities[x].count = c.entities[x].count /\ d.entities[x].state = c.entities[x].state
         /\ d.entities[x].work = c.entities[x].work /\ SameRow(d.entities[x], c.entities[x])
         /\ ~IsUnset(d.entities[x]) /\ d.entities[x].context
    BY <1>3, <1>4, <1>8, SetFacts
  <1>12. /\ d.entities[a].count = c.entities[a].count + 1 /\ d.entities[a].state = c.entities[a].state
         /\ d.entities[a].work = c.entities[a].work /\ SameRow(d.entities[a], c.entities[a])
         /\ d.entities[a].context = c.entities[a].context /\ c.entities[a].count \in Int
    <2>1. c.entities[a] \in Row
      BY <1>3, <1>5
    <2>. QED BY <2>1, <1>8 DEF Counted, Row, SameRow
  <1>13. ASSUME NEW y \in 1..n
         PROVE  /\ SameRow(d.entities[y], c.entities[y]) /\ d.entities[y].state = c.entities[y].state
                /\ d.entities[y].work = c.entities[y].work
                /\ IsActive(d.entities[y]) <=> IsActive(c.entities[y])
    <2>1. SameRow(d.entities[y], c.entities[y]) /\ d.entities[y].state = c.entities[y].state
          /\ d.entities[y].work = c.entities[y].work
      <3>1. CASE y = x
        BY <1>11, <3>1
      <3>2. CASE y = a
        BY <1>12, <3>2
      <3>3. CASE y # x /\ y # a
        BY <1>8, <3>3 DEF SameRow
      <3>. QED BY <3>1, <3>2, <3>3
    <2>. QED BY <2>1 DEF IsActive
  <1>14. ASSUME NEW y \in 1..n
         PROVE  IsUnset(d.entities[y]) <=> IsUnset(c.entities[y]) /\ y # x
    <2>1. CASE y = x
      BY <2>1, <1>11
    <2>2. CASE y = a
      BY <2>2, <1>7, <1>12, <1>13 DEF IsUnset, SameRow, IsBoundaryEvent, Type
    <2>3. CASE y # a /\ y # x
      BY <2>3, <1>8
    <2>. QED BY <2>1, <2>2, <2>3
  <1>15. \A y : Kids(d, t, y) = Kids(c, t, y)
    <2>1. \A z \in 1..n : d.entities[z].parent = c.entities[z].parent /\ (IsActive(d.entities[z]) <=> IsActive(c.entities[z]))
      BY <1>13 DEF SameRow
    <2>. QED BY <2>1, <1>3, <1>9, <1>10 DEF Kids
  <1>16. \A y : UnsetOf(d, y) = UnsetOf(c, y) \ {x}
    <2>1. \A z \in 1..n : d.entities[z].prev = c.entities[z].prev
      BY <1>13 DEF SameRow
    <2>. QED BY <2>1, <1>3, <1>9, <1>14, SMTT(20) DEF UnsetOf
  <1>17. \A y : y # a => UnsetOf(d, y) = UnsetOf(c, y)
    <2>1. \A y : y # a => x \notin UnsetOf(c, y)
      BY DEF UnsetOf
    <2>. QED BY <2>1, <1>16
  <1>18. Cardinality(UnsetOf(d, a)) = Cardinality(UnsetOf(c, a)) - 1
    <2>1. x \in UnsetOf(c, a)
      BY <1>3, <1>4 DEF UnsetOf
    <2>2. IsFiniteSet(UnsetOf(c, a))
      BY <1>1, SetsOf
    <2>. QED BY <2>1, <2>2, <1>16, FS_RemoveElement
  <1>19. \A y \in 1..n : ShapeOf(d.entities, y)
    <2>1. \A y \in 1..n : SameRow(d.entities[y], c.entities[y])
      BY <1>13
    <2>2. \A y \in 1..n : ShapeOf(c.entities, y)
      BY <1>1, <1>3
    <2>. QED BY <2>1, <2>2, SameShape
  <1>20. ActiveWithin(d)
    <2>. SUFFICES ASSUME NEW y \in 1..n, y # 1, IsActive(d.entities[y])
                  PROVE  IsActive(d.entities[d.entities[y].parent])
      BY <1>9 DEF ActiveWithin
    <2>1. IsActive(c.entities[c.entities[y].parent]) /\ d.entities[y].parent = c.entities[y].parent
      BY <1>1, <1>3, <1>13 DEF ActiveWithin, SameRow
    <2>2. c.entities[y].parent \in 1..n
      <3>1. ShapeOf(c.entities, y)
        BY <1>1, <1>3
      <3>. QED BY <3>1, Referred
    <2>. QED BY <2>1, <2>2, <1>13
  <1>21. Order(d)
    <2>1. \A y \in Pending(d) : y \in 1..Len(c.entities) /\ y \in Pending(c)
      BY <1>2, <1>3, <1>10
    <2>2. \A y \in 1..Len(c.entities) : SameRow(d.entities[y], c.entities[y]) /\ (IsActive(d.entities[y]) <=> IsActive(c.entities[y]))
      BY <1>2, <1>13
    <2>. QED BY <2>1, <2>2, <1>10, OrderKept
  <1>22. ASSUME NEW y \in 1..n PROVE CountedRow(d, t, y)
    <2>1. CountedRow(c, t, y)
      BY <1>1, <1>3
    <2>2. CASE y # a
      <3>1. d.entities[y].count = c.entities[y].count
        BY <2>2, <1>8, <1>11
      <3>. QED BY <3>1, <2>1, <2>2, <1>13, <1>15, <1>17 DEF CountedRow
    <2>3. CASE y = a
      <3>1. c.entities[a].count = Cardinality(Kids(c, t, a)) - Cardinality(UnsetOf(c, a))
        BY <2>1, <2>3 DEF CountedRow
      <3>2. Cardinality(Kids(c, t, a)) \in Nat /\ Cardinality(UnsetOf(c, a)) \in Nat
        BY <1>1, SetsOf
      <3>3. d.entities[a].count = Cardinality(Kids(c, t, a)) - Cardinality(UnsetOf(d, a))
        <4>1. d.entities[a].count = c.entities[a].count + 1
          BY <1>12
        <4>. QED BY ONLY <4>1, <3>1, <3>2, <1>18
      <3>4. IsActive(d.entities[a])
        BY <1>5, <1>13
      <3>. QED BY <3>3, <3>4, <2>3, <1>15 DEF CountedRow
    <2>. QED BY <2>2, <2>3
  <1>23. ASSUME NEW y \in 1..n PROVE StateOf(d, y, t)
    <2>1. StateOf(c, y, t)
      BY <1>1, <1>3
    <2>2. PICK pending : pending = (y \in Pending(c) \/ y = t)
      OBVIOUS
    <2>3. PICK listed : listed = Listed(c, y)
      OBVIOUS
    <2>4. PICK kids, unset : kids = Kids(c, t, y) /\ unset = UnsetOf(c, y)
      OBVIOUS
    <2>5. RowState(c.entities[y], y, kids, unset, pending, listed)
      BY <2>1, <2>2, <2>3, <2>4 DEF StateOf
    <2>6. RowState(d.entities[y], y, kids, unset, pending, listed)
      <3>1. CASE y # a /\ y # x
        BY <3>1, <2>5, <1>8
      <3>2. CASE y = x
        <4>1. SameRow(d.entities[y], c.entities[y])
          BY <1>13
        <4>. QED BY <4>1, <3>2, <2>5, <1>11, StateLike
      <3>3. CASE y = a
        <4>1. SameRow(d.entities[y], c.entities[y])
          BY <1>13
        <4>2. IsUnset(d.entities[y]) => IsUnset(c.entities[y])
          BY <1>14
        <4>3. /\ d.entities[y].state = c.entities[y].state /\ d.entities[y].work = c.entities[y].work
              /\ d.entities[y].context = c.entities[y].context
          BY <3>3, <1>12
        <4>. QED BY ONLY <4>1, <4>2, <4>3, <2>5, StateLike
      <3>. QED BY <3>1, <3>2, <3>3
    <2>7. PICK left \in SUBSET unset : left = UnsetOf(d, y)
      BY <2>4, <1>16
    <2>8. RowState(d.entities[y], y, kids, left, pending, listed)
      BY <2>6, FewerUnset
    <2>9. pending = (y \in Pending(d) \/ y = t) /\ listed = Listed(d, y) /\ kids = Kids(d, t, y)
      BY <2>2, <2>3, <2>4, <1>10, <1>15 DEF Listed
    <2>. QED BY <2>7, <2>8, <2>9 DEF StateOf
  <1>24. ProcessOf(d, s)
    <2>1. d.entities[1] = c.entities[1]
      BY <1>3, <1>7, <1>8
    <2>2. \A y \in 1..n : Type(d.entities[y]) = Type(c.entities[y])
      BY <1>13 DEF SameRow, Type
    <2>. QED BY <2>1, <2>2, <1>1, <1>3, <1>8, <1>9, SMTT(20) DEF ProcessOf
  <1>25. NewOnce(d, t)
    BY <1>3, <1>9, <1>10, <1>15 DEF NewOnce
  <1>. QED BY <1>8, <1>9, <1>10, <1>19, <1>20, <1>21, <1>22, <1>23, <1>24, <1>25 DEF Consistent

LEMMA UnsetFacts ==
  ASSUME RowsOK, AttachedToActive, NEW x \in DOMAIN rows, IsBoundaryEvent(rows[x]), IsActive(rows[x]),
         ~rows[x].context, rows[x].work > 0, NEW a, a = rows[x].prev
  PROVE  /\ IsUnset(rows[x]) /\ rows[x].state = "CREATED"
         /\ a \in 1..Len(rows) /\ a < x /\ rows[a] \in Row /\ rows[a].state = "CREATED" /\ IsActive(rows[a])
         /\ ~IsMultiInstanceActivity(rows[a]) /\ Idle(rows[a])
  <1>1. PICK c : c = Context(rows, <<>>)
    OBVIOUS
  <1>2. /\ rows \in Seq(Row) /\ x \in 1..Len(rows) /\ Len(rows) \in Nat /\ rows[x] \in Row
        /\ ShapeOf(rows, x) /\ Consistent(c, 0, 0) /\ StateOf(c, x, 0)
        /\ c.entities = rows /\ Pending(c) = {} /\ ~Listed(c, x)
    BY <1>1, RowsFacts
  <1>3. x # 0
    BY <1>2
  <1>12. rows[x].work # 0
    BY <1>2 DEF Row
  <1>4. IsUnset(rows[x])
    BY <1>2, <1>12 DEF StateOf, RowState, IsUnset
  <1>5. rows[x].state = "CREATED"
    BY <1>2, <1>3, <1>4, <1>12 DEF StateOf, RowState
  <1>6. a \in 1..Len(rows) /\ a < x
    <2>1. a \in 0..x - 1 /\ a \in 0..Len(rows)
      BY <1>2, Referred
    <2>2. a # 0
      BY <1>2 DEF ShapeOf
    <2>. QED BY <2>1, <2>2, <1>2
  <1>7. DOMAIN rows = 1..Len(rows)
    BY <1>2
  <1>8. rows[a] \in Row /\ StateOf(c, a, 0)
    <2>1. a \in DOMAIN rows
      BY <1>6, <1>7
    <2>. QED BY <2>1, <1>1, RowsFacts
  <1>9. x \in UnsetOf(c, a)
    BY <1>2, <1>4 DEF UnsetOf
  <1>10. rows[a].state = "CREATED"
    <2>1. IsActive(rows[a])
      BY DEF AttachedToActive
    <2>. QED BY <2>1, <1>2, <1>8, <1>9 DEF StateOf, RowState, IsActive, Ended
  <1>11. ~IsMultiInstanceActivity(rows[a])
    BY <1>2 DEF ShapeOf
  <1>13. Idle(rows[a])
    <2>1. rows[a].work \in Nat /\ IsActive(rows[a])
      BY <1>8, <1>10 DEF Row, IsActive, Ended
    <2>. QED BY <2>1, <1>2, <1>8, <1>9 DEF StateOf, RowState, Idle
  <1>. QED BY <1>4, <1>5, <1>6, <1>8, <1>10, <1>11, <1>13 DEF IsActive, Ended

LEMMA OpensLike ==
  ASSUME RowsOK, NEW x \in DOMAIN rows, x # 1, IsActive(rows[x]),
         NEW r \in Row, SameRow(r, rows[x]), r.count = rows[x].count, r.state = rows[x].state,
         r.context = rows[x].context, r.work <= rows[x].work, Idle(r),
         NEW s, s = rows[x].parent, NEW c, c = Context([rows EXCEPT ![x] = r], <<s, x>>)
  PROVE  Opened(c, x, s, r, {})
  <1>1. PICK ended : ended = (x \in {})
    OBVIOUS
  <1>2. ~ended
    BY <1>1, Zenon
  <1>3. BegunRow(r, rows[x], TRUE, ended)
    BY <1>2 DEF BegunRow
  <1>4. PICK E \in SUBSET {x} : E = {}
    OBVIOUS
  <1>5. BegunRow(r, rows[x], TRUE, x \in E)
    BY <1>1, <1>3, <1>4
  <1>6. EndedRows(E)
    BY <1>4, NothingEnds
  <1>7. Opened(c, x, s, r, E)
    BY <1>5, <1>6, Opens
  <1>. QED BY <1>4, <1>7

(* The row of an event whose job has been completed *)
SetWork(x) == IF Type(rows[x]) = "timerBoundary" THEN rows[x] ELSE WorkedRow(x)

LEMMA SetBoundaryEventIs ==
  ASSUME Inv, NEW x, SetBoundaryEvent(x), NEW c, c = Context([rows EXCEPT ![x] = SetWork(x)], <<Parent(x), x>>),
         NEW a, a = rows[x].prev
  PROVE  /\ Opened(c, x, rows[x].parent, SetWork(x), {})
         /\ IsBoundaryEvent(rows[x]) /\ IsActive(rows[x]) /\ ~rows[x].context /\ rows[x].work > 0
         /\ Begin(AddExecution(EventSet(c, x, a), a))
  <1>1. PICK T : T = BoundaryEvents
    OBVIOUS
  <1>2. Work(x, T) /\ "process" \notin T /\ ~rows[x].context
    BY <1>1 DEF SetBoundaryEvent, BoundaryEvents
  <1>3. /\ RowsOK /\ x \in DOMAIN rows /\ x # 1 /\ rows[x] \in Row /\ IsActive(rows[x]) /\ rows[x].work > 0
        /\ Type(rows[x]) \in T
        /\ Worked(x) = [rows EXCEPT ![x] = WorkedRow(x)] /\ Parent(x) = rows[x].parent
    BY <1>2, WorkIs
  <1>4. IsBoundaryEvent(rows[x]) /\ rows \in Seq(Row)
    BY <1>1, <1>3, RowsFacts DEF IsBoundaryEvent
  <1>5. PICK r : r = SetWork(x)
    OBVIOUS
  <1>6. /\ r \in Row /\ r.count = rows[x].count /\ r.state = rows[x].state
        /\ r.context = rows[x].context /\ r.work <= rows[x].work /\ SameRow(r, rows[x])
    <2>1. /\ WorkedRow(x) \in Row /\ WorkedRow(x).count = rows[x].count
          /\ WorkedRow(x).work <= rows[x].work /\ WorkedRow(x).state = rows[x].state
          /\ WorkedRow(x).context = rows[x].context /\ rows[x].work <= rows[x].work
      BY <1>3 DEF WorkedRow, Row
    <2>2. SameRow(WorkedRow(x), rows[x]) /\ SameRow(rows[x], rows[x])
      BY <1>3 DEF WorkedRow, Row, SameRow
    <2>. QED BY <2>1, <2>2, <1>3, <1>5 DEF SetWork
  <1>7. Opened(c, x, rows[x].parent, r, {})
    <2>1. Idle(r)
      BY <1>4, <1>6, RowLike DEF Idle, IsActivity, IsBoundaryEvent, BoundaryEvents, Activities
    <2>. QED BY <2>1, <1>3, <1>5, <1>6, OpensLike
  <1>8. PICK e : e = [rows EXCEPT ![x] = r]
    OBVIOUS
  <1>9. (IF Type(rows[x]) = "timerBoundary" THEN rows ELSE Worked(x)) = e
    <2>1. [rows EXCEPT ![x] = rows[x]] = rows
      BY <1>3, <1>4
    <2>. QED BY <2>1, <1>3, <1>5, <1>8 DEF SetWork
  <1>10. [e EXCEPT ![x].context = TRUE] = [e EXCEPT ![x] = SetRow(r)] /\ e[x] = r
    <2>1. e[x] = r
      BY <1>3, <1>8
    <2>. QED BY <2>1 DEF SetRow
  <1>11. PICK L : L = <<Parent(x), x>>
    OBVIOUS
  <1>12. c = Context(e, L) /\ c.entities = e
    BY <1>5, <1>8, <1>11 DEF Context
  <1>13. Put(c, x, SetRow(c.entities[x])) = Context([e EXCEPT ![x].context = TRUE], L)
    <2>1. Put(c, x, SetRow(r)) = [c EXCEPT !.entities = [e EXCEPT ![x] = SetRow(r)]]
      BY <1>12 DEF Put
    <2>2. [c EXCEPT !.entities = [e EXCEPT ![x] = SetRow(r)]] = Context([e EXCEPT ![x] = SetRow(r)], L)
      BY <1>12 DEF Context
    <2>. QED BY <2>1, <2>2, <1>10, <1>12
  <1>14. Begin(AddExecution(AddCount(Context([e EXCEPT ![x].context = TRUE], L), a, 1), a))
    BY <1>9, <1>11 DEF SetBoundaryEvent
  <1>. QED BY <1>2, <1>3, <1>4, <1>5, <1>7, <1>13, <1>14 DEF EventSet

LEMMA SetBoundaryEventKeeps ==
  ASSUME Inv, AttachedToActive, NEW x, SetBoundaryEvent(x)
  PROVE  Inv'
  <1>1. PICK c : c = Context([rows EXCEPT ![x] = SetWork(x)], <<Parent(x), x>>)
    OBVIOUS
  <1>2. PICK a, s, r : a = rows[x].prev /\ s = rows[x].parent /\ r = SetWork(x)
    OBVIOUS
  <1>3. PICK E : E = {}
    OBVIOUS
  <1>4. /\ Opened(c, x, s, r, E) /\ IsBoundaryEvent(rows[x]) /\ IsActive(rows[x]) /\ ~rows[x].context
        /\ rows[x].work > 0
        /\ Begin(AddExecution(EventSet(c, x, a), a))
    BY <1>1, <1>2, <1>3, SetBoundaryEventIs
  <1>5. PICK n \in Nat : n = Len(rows)
    BY <1>4 DEF Opened
  <1>6. /\ RowsOK /\ Consistent(c, 0, 0) /\ NewOnce(c, 0) /\ CtxType(c) /\ Len(c.entities) = n
        /\ x \in 2..n /\ s \in 1..n /\ c.entities[x] = r /\ SameRow(r, rows[x]) /\ r \in Row
        /\ \A y \in 1..n : y # x => c.entities[y] = rows[y]
        /\ Pending(c) = {s, x} /\ rows[s].state \in {"STARTED", "QUEUED", "SUSPENDED"}
    BY <1>4, <1>5 DEF Opened, Inv
  <1>7. DOMAIN rows = 1..n /\ x \in DOMAIN rows
    <2>1. rows # <<>>
      BY <1>4 DEF Opened, Begun
    <2>2. CtxType(Context(rows, <<>>)) /\ Context(rows, <<>>).entities = rows
      BY <2>1, <1>6 DEF RowsOK, Consistent, Context
    <2>3. DOMAIN rows = 1..n
      BY <2>2, <1>5, CtxFacts
    <2>. QED BY <2>3, <1>6
  <1>8. /\ IsUnset(rows[x]) /\ rows[x].state = "CREATED"
        /\ a \in 1..n /\ a < x /\ rows[a] \in Row /\ rows[a].state = "CREATED" /\ IsActive(rows[a])
        /\ ~IsMultiInstanceActivity(rows[a]) /\ Idle(rows[a])
    BY <1>2, <1>4, <1>5, <1>6, <1>7, UnsetFacts
  <1>9. r.state = rows[x].state /\ r.context = rows[x].context
    <2>1. rows[x] \in Row
      BY <1>6, <1>7, RowsFacts
    <2>. QED BY <2>1, <1>2 DEF SetWork, WorkedRow, Row
  <1>10. IsUnset(c.entities[x]) /\ c.entities[x].state = "CREATED"
    <2>1. r.element = rows[x].element /\ IsBoundaryEvent(r) /\ IsActive(r)
      BY <1>4, <1>6, <1>9, RowLike DEF IsActive
    <2>. QED BY <2>1, <1>6, <1>8, <1>9 DEF IsUnset
  <1>11. /\ a = c.entities[x].prev /\ IsActive(c.entities[a]) /\ c.entities[a] = rows[a] /\ a # x
    <2>1. a # x
      BY <1>6, <1>8
    <2>. QED BY <2>1, <1>2, <1>6, <1>8 DEF SameRow
  <1>12. PICK d : d = EventSet(c, x, a)
    OBVIOUS
  <1>13. PICK t : t = 0
    OBVIOUS
  <1>14. Consistent(c, t, t) /\ NewOnce(c, t) /\ x \in 1..Len(c.entities) /\ a \in 1..Len(c.entities)
    BY <1>6, <1>8, <1>13
  <1>15. Consistent(d, t, t) /\ NewOnce(d, t)
    BY <1>10, <1>11, <1>12, <1>14, EventSetKeeps
  <1>16. /\ CtxType(d) /\ Len(d.entities) = n /\ d.list = c.list /\ d.next = c.next
         /\ d.entities[x] = SetRow(r) /\ d.entities[a] = Counted(rows[a], 1)
         /\ \A y \in 1..n : y # x /\ y # a => d.entities[y] = rows[y]
    BY <1>6, <1>11, <1>12, <1>14, EventSetRows
  <1>17. PICK h : h = AddExecutions(d, {a})
    OBVIOUS
  <1>18. /\ Consistent(h, t, t) /\ NewOnce(h, t) /\ h.entities = d.entities
         /\ Pending(h) = Pending(d) \cup {a}
    <2>1. IsActive(d.entities[a])
      <3>1. d.entities[a].state = rows[a].state
        BY <1>8, <1>16 DEF Counted, Row
      <3>. QED BY <3>1, <1>8 DEF IsActive
    <2>2. ~IsNew(a)
      BY <1>5, <1>8 DEF IsNew
    <2>3. {a} \in SUBSET (1..Len(d.entities))
      BY <1>8, <1>16
    <2>4. Idle(d.entities[a])
      <3>1. d.entities[a].element = rows[a].element /\ d.entities[a].work = rows[a].work
        BY <1>8, <1>16 DEF Counted, Row
      <3>. QED BY <3>1, <1>8 DEF Idle, IsActivity, Type
    <2>. QED BY <2>1, <2>2, <2>3, <2>4, <1>15, <1>17, AddActive
  <1>19. Pending(d) = {s, x}
    BY <1>6, <1>16, SameList
  <1>20. ASSUME NEW y \in 1..n PROVE KeptRow(h, y)
    <2>1. /\ SameRow(h.entities[y], rows[y]) /\ h.entities[y].state = rows[y].state
      <3>1. CASE y = x
        <4>1. d.entities[x].state = r.state /\ SameRow(d.entities[x], r)
          BY <1>6, <1>16, SetFacts
        <4>. QED BY <4>1, <3>1, <1>6, <1>9, <1>18 DEF SameRow
      <3>2. CASE y = a
        BY <3>2, <1>8, <1>16, <1>18 DEF Counted, Row, SameRow
      <3>3. CASE y # x /\ y # a
        BY <3>3, <1>16, <1>18 DEF SameRow
      <3>. QED BY <3>1, <3>2, <3>3
    <2>2. IsMultiInstanceActivity(rows[y]) => y # x /\ y # a
      <3>1. ~IsMultiInstanceActivity(rows[x])
        BY <1>4, <1>6, <1>7, BoundaryCount
      <3>. QED BY <3>1, <1>8
    <2>3. IsMultiInstanceActivity(rows[y]) /\ rows[y].state = "CREATED" => y \notin Pending(h)
      BY <2>2, <1>6, <1>18, <1>19
    <2>. QED BY <2>1, <2>3 DEF KeptRow
  <1>21. Kept(h)
    <2>1. Len(rows) <= Len(h.entities)
      BY <1>5, <1>16, <1>18
    <2>. QED BY <2>1, <1>5, <1>20 DEF Kept
  <1>22. UNCHANGED <<rows, instance>> /\ h = tx'
    BY <1>4, <1>12, <1>17 DEF Begin, AddExecution
  <1>23. Consistent(h, 0, 0) /\ NewOnce(h, 0)
    BY <1>13, <1>18
  <1>. QED BY <1>21, <1>22, <1>23, ContextKept

(* x is listed first. *)
LEMMA ListsFirst ==
  ASSUME NEW S, NEW I, Lists(I, S), NEW x, x \notin S, NEW w, w = <<x>> \o I
  PROVE  Lists(w, S \cup {x})
  <1>1. PICK T : T = S \cup {x}
    OBVIOUS
  <1>2. PICK m \in Nat : m = Len(I)
    BY DEF Lists
  <1>3. /\ I \in Seq(S) /\ \A z \in S : \E k \in 1..m : I[k] = z
        /\ \A i, j \in 1..m : I[i] = I[j] => i = j
        /\ \A k \in 1..m : I[k] \in S
    <2>1. I \in Seq(S)
      BY DEF Lists
    <2>2. \A k \in 1..m : I[k] \in S
      BY <2>1, <1>2, ElementOfSeq
    <2>. QED BY <2>1, <2>2, <1>2 DEF Lists
  <1>4. I \in Seq(T) /\ <<x>> \in Seq(T) /\ Len(<<x>>) = 1 /\ <<x>>[1] = x
    <2>1. S \subseteq T /\ x \in T
      BY <1>1
    <2>2. I \in Seq(T)
      BY <2>1, <1>3, SeqMonotonic
    <2>. QED BY <2>1, <2>2
  <1>5. /\ w \in Seq(T) /\ Len(w) = m + 1
        /\ \A k \in 1..m + 1 : w[k] = IF k <= 1 THEN <<x>>[k] ELSE I[k - 1]
    <2>1. /\ w \in Seq(T) /\ Len(w) = Len(<<x>>) + Len(I)
          /\ \A k \in 1..Len(<<x>>) + Len(I) : w[k] = IF k <= Len(<<x>>) THEN <<x>>[k] ELSE I[k - Len(<<x>>)]
      BY <1>4, ConcatProperties
    <2>2. 1 + m = m + 1
      OBVIOUS
    <2>. QED BY <2>1, <2>2, <1>2, <1>4
  <1>6. w[1] = x
    <2>1. 1 \in 1..m + 1 /\ 1 <= 1
      OBVIOUS
    <2>. QED BY <2>1, <1>4, <1>5
  <1>7. ASSUME NEW k \in 1..m + 1, k # 1 PROVE k - 1 \in 1..m /\ w[k] = I[k - 1]
    <2>1. ~(k <= 1) /\ k - 1 \in 1..m
      BY <1>7
    <2>. QED BY <2>1, <1>5
  <1>8. ASSUME NEW z \in T PROVE \E k \in 1..m + 1 : w[k] = z
    <2>1. CASE z = x
      <3>1. 1 \in 1..m + 1
        OBVIOUS
      <3>. QED BY <3>1, <2>1, <1>6
    <2>2. CASE z # x
      <3>1. PICK k \in 1..m : I[k] = z
        BY <2>2, <1>1, <1>3
      <3>2. PICK j \in 1..m + 1 : j = k + 1 /\ j # 1 /\ j - 1 = k
        OBVIOUS
      <3>. QED BY <3>1, <3>2, <1>7
    <2>. QED BY <2>1, <2>2
  <1>9. ASSUME NEW i \in 1..m + 1, NEW j \in 1..m + 1, w[i] = w[j] PROVE i = j
    <2>1. CASE i = 1 /\ j # 1
      <3>1. w[j] \in S
        BY <2>1, <1>3, <1>7
      <3>. QED BY <3>1, <2>1, <1>6, <1>9
    <2>2. CASE i # 1 /\ j = 1
      <3>1. w[i] \in S
        BY <2>2, <1>3, <1>7
      <3>. QED BY <3>1, <2>2, <1>6, <1>9
    <2>3. CASE i # 1 /\ j # 1
      <3>1. /\ i - 1 \in 1..m /\ j - 1 \in 1..m /\ I[i - 1] = I[j - 1]
        BY <2>3, <1>7, <1>9
      <3>2. i - 1 = j - 1
        BY <3>1, <1>3
      <3>. QED BY <3>2
    <2>. QED BY <2>1, <2>2, <2>3
  <1>. QED BY <1>1, <1>5, <1>8, <1>9 DEF Lists

(* Some of what is listed *)
Picked(w, Q) == [k \in 1..Cardinality(Q) |-> w[Ids(Q)[k]]]

LEMMA ListsSome ==
  ASSUME NEW T, NEW w, Lists(w, T), NEW Q, Q \subseteq DOMAIN w,
         NEW j, j = Picked(w, Q)
  PROVE  \E S \in SUBSET T : Lists(j, S)
  <1>1. PICK m \in Nat : m = Len(w) /\ DOMAIN w = 1..m
    BY DEF Lists
  <1>2. /\ (\A k \in 1..m : w[k] \in T) /\ (\A k, l \in 1..m : w[k] = w[l] => k = l)
    <2>1. w \in Seq(T)
      BY DEF Lists
    <2>2. \A k \in 1..m : w[k] \in T
      BY <2>1, <1>1, ElementOfSeq
    <2>. QED BY <2>2, <1>1 DEF Lists
  <1>3. Q \in SUBSET Nat /\ IsFiniteSet(Q) /\ Q \subseteq 1..m
    <2>1. IsFiniteSet(1..m) /\ Q \subseteq 1..m
      BY <1>1, FS_Interval
    <2>2. IsFiniteSet(Q)
      BY <2>1, FS_Subset
    <2>3. 1..m \subseteq Nat
      OBVIOUS
    <2>. QED BY <2>1, <2>2, <2>3
  <1>4. PICK I : I = Ids(Q)
    OBVIOUS
  <1>5. PICK n \in Nat : n = Cardinality(Q) /\ Len(I) = n
    BY <1>3, <1>4, IdsFacts, FS_CardinalityType
  <1>6. /\ (\A k \in 1..n : I[k] \in Q) /\ (\A k, l \in 1..n : I[k] = I[l] => k = l)
    <2>1. Lists(I, Q)
      BY <1>3, <1>4, IdsLists
    <2>2. I \in Seq(Q)
      BY <2>1 DEF Lists
    <2>3. \A k \in 1..n : I[k] \in Q
      BY <2>2, <1>5, ElementOfSeq
    <2>. QED BY <2>1, <2>3, <1>5 DEF Lists
  <1>7. j = [k \in 1..n |-> w[I[k]]]
    BY <1>4, <1>5 DEF Picked
  <1>8. PICK S : S = {w[I[k]] : k \in 1..n}
    OBVIOUS
  <1>9. S \in SUBSET T
    BY <1>2, <1>3, <1>6, <1>8
  <1>10. j \in [1..n -> S]
    BY <1>7, <1>8
  <1>11. j \in Seq(S) /\ Len(j) = n
    BY ONLY n \in Nat, <1>10
  <1>12. ASSUME NEW z \in S PROVE \E k \in 1..n : j[k] = z
    <2>1. PICK k \in 1..n : z = w[I[k]]
      BY <1>8
    <2>. QED BY <2>1, <1>7
  <1>13. ASSUME NEW k \in 1..n, NEW l \in 1..n, j[k] = j[l] PROVE k = l
    <2>1. I[k] \in 1..m /\ I[l] \in 1..m /\ w[I[k]] = w[I[l]]
      BY <1>3, <1>6, <1>7, <1>13
    <2>2. I[k] = I[l]
      BY <2>1, <1>2
    <2>. QED BY <2>2, <1>6
  <1>14. Lists(j, S)
    BY <1>11, <1>12, <1>13 DEF Lists
  <1>. QED BY <1>9, <1>14

(* The executions that are joined *)
LEMMA JoinedLists ==
  ASSUME RowsOK, NEW x \in DOMAIN rows
  PROVE  \E S \in SUBSET (AtSameGateway(x) \cup {x}) : Lists(Joined(x), S)
  <1>1. rows \in Seq(Row) /\ Len(rows) \in Nat
    BY RowsFacts
  <1>2. PICK A : A = AtSameGateway(x) \ {x}
    OBVIOUS
  <1>3. A \in SUBSET Nat /\ IsFiniteSet(A)
    <2>1. A \subseteq 1..Len(rows)
      BY <1>1, <1>2 DEF AtSameGateway
    <2>2. IsFiniteSet(1..Len(rows))
      BY <1>1, FS_Interval
    <2>3. IsFiniteSet(A)
      BY <2>1, <2>2, FS_Subset
    <2>. QED BY <2>1, <2>3
  <1>4. PICK I : I = Ids(A)
    OBVIOUS
  <1>5. Lists(I, A)
    BY <1>3, <1>4, IdsLists
  <1>6. PICK w : w = <<x>> \o I
    OBVIOUS
  <1>7. Waiting(x) = w
    BY <1>2, <1>4, <1>6 DEF Waiting
  <1>8. PICK T : T = A \cup {x}
    OBVIOUS
  <1>9. Lists(w, T)
    <2>1. x \notin A
      BY <1>2
    <2>. QED BY <2>1, <1>5, <1>6, <1>8, ListsFirst
  <1>10. PICK Q : /\ Q \subseteq DOMAIN w
                  /\ Joined(x) = [k \in 1..Cardinality(Q) |-> w[Ids(Q)[k]]]
    <2>1. PICK Q : Q = {k \in DOMAIN w :
                          Cardinality({l \in 1..k : rows[w[l]].from = rows[w[k]].from})
                            <= Cardinality({f \in Incoming(rows[x].element) : f[1] = rows[w[k]].from})}
      OBVIOUS
    <2>2. Joined(x) = [k \in 1..Cardinality(Q) |-> w[Ids(Q)[k]]]
      BY <2>1, <1>7 DEF Joined
    <2>. QED BY <2>1, <2>2, ZenonT(40)
  <1>11. PICK S \in SUBSET T : Lists(Joined(x), S)
    <2>1. PICK j : j = Joined(x)
      OBVIOUS
    <2>2. j = Picked(w, Q) /\ Q \subseteq DOMAIN w
      BY <2>1, <1>10 DEF Picked
    <2>. QED BY ONLY <2>1, <2>2, <1>9, ListsSome
  <1>12. T \subseteq AtSameGateway(x) \cup {x}
    BY <1>2, <1>8
  <1>. QED BY <1>11, <1>12

RowsBegin(e, S, E) ==
  /\ e \in Seq(Row) /\ Len(e) = Len(rows)
  /\ \A y \in 1..Len(rows) : BegunRow(e[y], rows[y], y \in S, y \in E)

(* A transaction begins with the executions S, of which E have ended. *)
LEMMA ListedBegins ==
  ASSUME RowsOK, rows # <<>>, NEW S, S \subseteq 1..Len(rows), \A z \in S : IsActive(rows[z]),
         NEW E \in SUBSET S, EndedRows(E), \A y \in E : rows[y].parent \notin E,
         NEW e, RowsBegin(e, S, E), NEW L, Lists(L, S), NEW d, d = Context(e, L)
  PROVE  Begun(d, E) /\ d.entities = e /\ Pending(d) = S
  <1>1. e \in Seq(Row) /\ Len(e) = Len(rows)
    BY DEF RowsBegin
  <1>2. CtxType(Context(rows, <<>>)) /\ Context(rows, <<>>).entities = rows /\ instance \in InstanceState
    BY DEF RowsOK, Consistent, Context, CtxType, Contexts
  <1>3. Len(rows) # 0 /\ Len(rows) \in Nat
    BY <1>2, CtxFacts
  <1>4. e # <<>>
    BY <1>1, <1>3
  <1>5. PICK i \in InstanceState : i = instance
    BY <1>2
  <1>6. ContextIs(d, e, L, i) /\ S \subseteq 1..Len(e)
    BY <1>1, <1>5 DEF ContextIs, Context
  <1>7. Opening(d, e, S, i)
    BY ONLY <1>1, <1>4, <1>5, <1>6, Lists(L, S), ContextOf
  <1>8. /\ CtxType(d) /\ Pending(d) = S /\ Distinct(d) /\ d.entities = e /\ d.instance = instance
    BY <1>5, <1>7 DEF Opening
  <1>9. d.next = 1
    BY DEF Context
  <1>. QED BY <1>1, <1>8, <1>9 DEF Begun, RowsBegin

(* Row y when x joins: of what is joined E completes. *)
JoinedRow(y, x, E) ==
  IF y \in E THEN [rows[y] EXCEPT !.state = "COMPLETED"] ELSE IF y = x THEN WorkedRow(x) ELSE rows[y]

LEMMA JoinedRows ==
  ASSUME NEW y, rows[y] \in Row, NEW x, y = x => rows[x].work > 0, NEW E,
         y \in E => ~IsActivity(rows[y]), NEW q, q = JoinedRow(y, x, E),
         y = x => Idle(WorkedRow(x)),
         NEW pending, pending => y = x \/ Idle(rows[y]), NEW ended, ended = (y \in E)
  PROVE  BegunRow(q, rows[y], pending, ended)
  <1>1. CASE y \in E
    <2>1. q = [rows[y] EXCEPT !.state = "COMPLETED"] /\ "COMPLETED" \in InstanceState
      BY <1>1 DEF JoinedRow, InstanceState, Ended
    <2>2. /\ q \in Row /\ q.count = rows[y].count /\ q.work = rows[y].work /\ q.state = "COMPLETED"
          /\ rows[y].work \in Nat
      BY <2>1 DEF Row
    <2>3. SameRow(q, rows[y]) /\ q.work <= rows[y].work
      BY <2>1, <2>2 DEF Row, SameRow
    <2>4. ended
      BY <1>1, Zenon
    <2>5. ~IsActivity(rows[y])
      BY <1>1
    <2>. QED BY ONLY <2>2, <2>3, <2>4, <2>5 DEF BegunRow
  <1>2. CASE y \notin E /\ y = x
    <2>1. q = [rows[y] EXCEPT !.work = @ - 1]
      BY <1>2 DEF JoinedRow, WorkedRow
    <2>2. rows[y].work - 1 \in Nat /\ rows[y].work - 1 <= rows[y].work
      BY <1>2 DEF Row
    <2>3. /\ q \in Row /\ q.count = rows[y].count /\ q.work <= rows[y].work /\ q.state = rows[y].state
          /\ q.context = rows[y].context
      BY <2>1, <2>2 DEF Row
    <2>4. SameRow(q, rows[y])
      BY <2>1 DEF Row, SameRow
    <2>5. ~ended
      BY <1>2, Zenon
    <2>6. Idle(q)
      BY <1>2 DEF JoinedRow
    <2>. QED BY ONLY <2>3, <2>4, <2>5, <2>6 DEF BegunRow
  <1>3. CASE y \notin E /\ y # x
    <2>1. q = rows[y] /\ q.work <= rows[y].work
      BY <1>3 DEF JoinedRow, Row
    <2>2. ~ended
      BY <1>3, Zenon
    <2>3. pending => Idle(q)
      BY <1>3, <2>1
    <2>. QED BY ONLY <2>1, <2>2, <2>3, rows[y] \in Row DEF BegunRow, SameRow
  <1>. QED BY <1>1, <1>2, <1>3

(* What begins, and keeps what waits. *)
LEMMA BegunKeeps ==
  ASSUME Inv, NEW d, NEW E, Begun(d, E), Begin(d),
         \A y \in E : ~IsBoundaryEvent(rows[y]),
         \A y \in 1..Len(rows) : IsBoundaryEvent(rows[y]) => d.entities[y].state = rows[y].state,
         \A y \in Pending(d) : ~(IsMultiInstanceActivity(rows[y]) /\ rows[y].state = "CREATED")
  PROVE  Inv'
  <1>1. Consistent(d, 0, 0) /\ NewOnce(d, 0)
    BY BegunConsistent
  <1>2. Kept(d)
    BY BegunKept
  <1>3. UNCHANGED <<rows, instance>> /\ d = tx'
    BY DEF Begin
  <1>. QED BY <1>1, <1>2, <1>3, ContextKept

(* Executions that wait at a gateway *)
LEMMA AtGateway ==
  ASSUME RowsOK, NEW x \in DOMAIN rows, x # 1, IsActive(rows[x]), Type(rows[x]) = "parallel",
         NEW p, p = rows[x].parent, NEW y \in AtSameGateway(x) \cup {x}
  PROVE  /\ y \in DOMAIN rows /\ y \in 2..Len(rows) /\ rows[y] \in Row /\ IsActive(rows[y])
         /\ Type(rows[y]) = "parallel" /\ rows[y].parent = p /\ y # p
         /\ ~IsActivity(rows[y]) /\ ~IsBoundaryEvent(rows[y]) /\ ~IsMultiInstanceActivity(rows[y])
  <1>1. /\ y \in DOMAIN rows /\ rows[y].element = rows[x].element /\ rows[y].parent = p
        /\ rows[y].state = rows[x].state
    BY DEF AtSameGateway, Parent
  <1>2. /\ y \in 1..Len(rows) /\ rows[y] \in Row /\ ShapeOf(rows, y) /\ Len(rows) \in Nat
    BY <1>1, RowsFacts
  <1>3. Type(rows[y]) = "parallel" /\ IsActive(rows[y])
    BY <1>1 DEF Type, IsActive
  <1>4. y # 1
    BY <1>2, <1>3 DEF ShapeOf
  <1>5. y # p
    <2>1. p \in 0..y - 1
      BY <1>1, <1>2, Referred
    <2>. QED BY <2>1, <1>2
  <1>6. ~IsActivity(rows[y]) /\ ~IsBoundaryEvent(rows[y]) /\ ~IsMultiInstanceActivity(rows[y])
    BY <1>2, <1>3, ValidAssumption DEF IsActivity, IsBoundaryEvent, BoundaryEvents, Activities, IsMultiInstanceActivity, Type, Row
  <1>7. y \in 2..Len(rows)
    BY <1>2, <1>4
  <1>. QED BY <1>1, <1>2, <1>3, <1>5, <1>6, <1>7

LEMMA NothingListed ==
  ASSUME NEW S, S = {}
  PROVE  Lists(<<>>, S)
  <1>1. <<>> \in Seq(S) /\ Len(<<>>) = 0
    OBVIOUS
  <1>. QED BY <1>1 DEF Lists

LEMMA JoinParallelGatewayKeeps ==
  ASSUME Inv, NEW x, JoinParallelGateway(x)
  PROVE  Inv'
  <1>1. PICK T : T = {"parallel"}
    OBVIOUS
  <1>2. Work(x, T) /\ "process" \notin T
    BY <1>1 DEF JoinParallelGateway
  <1>3. /\ RowsOK /\ x \in DOMAIN rows /\ x # 1 /\ rows[x] \in Row /\ IsActive(rows[x]) /\ rows[x].work > 0
        /\ Type(rows[x]) = "parallel" /\ tx = Null
        /\ Worked(x) = [rows EXCEPT ![x] = WorkedRow(x)] /\ Parent(x) = rows[x].parent
    BY <1>1, <1>2, WorkIs
  <1>4. PICK n \in Nat : n = Len(rows)
    BY <1>3, RowsFacts
  <1>5. rows \in Seq(Row) /\ DOMAIN rows = 1..n /\ rows # <<>> /\ \A y \in 1..n : rows[y] \in Row
    <2>1. rows \in Seq(Row)
      BY <1>3, RowsFacts
    <2>2. DOMAIN rows = 1..n
      BY <2>1, <1>4
    <2>. QED BY <2>1, <2>2, <1>3, <1>4, ElementOfSeq
  <1>6. PICK p : p = rows[x].parent
    OBVIOUS
  <1>7. /\ p \in 1..n /\ IsActive(rows[p]) /\ rows[p].state \in {"STARTED", "QUEUED", "SUSPENDED"}
        /\ Idle(rows[p]) /\ Idle(WorkedRow(x))
    BY <1>1, <1>2, <1>3, <1>4, <1>6, ScopeCounts, WorkIs
  <1>8. PICK J : J = Joined(x)
    OBVIOUS
  <1>9. PICK S \in SUBSET (AtSameGateway(x) \cup {x}) : Lists(J, S)
    BY <1>3, <1>8, JoinedLists
  <1>10. ASSUME NEW y \in S \cup {x}
         PROVE  /\ y \in 2..n /\ IsActive(rows[y]) /\ Type(rows[y]) = "parallel"
                /\ rows[y].parent = p /\ y # p /\ ~IsActivity(rows[y]) /\ ~IsBoundaryEvent(rows[y])
                /\ ~IsMultiInstanceActivity(rows[y])
    <2>1. y \in AtSameGateway(x) \cup {x}
      BY <1>9
    <2>. QED BY <2>1, <1>3, <1>4, <1>6, AtGateway
  <1>11. PICK E : E = Range(J) \ {x}
    OBVIOUS
  <1>12. E = S \ {x}
    <2>1. J \in Seq(S) /\ \A z \in S : \E k \in 1..Len(J) : J[k] = z
      BY <1>9 DEF Lists
    <2>2. DOMAIN J = 1..Len(J) /\ \A k \in 1..Len(J) : J[k] \in S
      BY <2>1, ElementOfSeq
    <2>3. \A z : z \in Range(J) <=> z \in S
      BY <2>1, <2>2 DEF Range
    <2>. QED BY <2>3, <1>11
  <1>13. PICK L : L = <<p>> \o J
    OBVIOUS
  <1>14. PICK U : U = S \cup {p}
    OBVIOUS
  <1>15. Lists(L, U) /\ U \subseteq 1..n /\ \A z \in U : IsActive(rows[z])
    <2>1. p \notin S
      BY <1>10
    <2>2. Lists(L, U)
      BY <2>1, <1>9, <1>13, <1>14, ListsFirst
    <2>3. \A z \in S : z \in 1..n /\ IsActive(rows[z])
      BY <1>10
    <2>. QED BY <2>2, <2>3, <1>7, <1>14
  <1>16. EndedRows(E) /\ E \subseteq U /\ \A y \in E : rows[y].parent \notin E /\ ~IsBoundaryEvent(rows[y])
    <2>1. \A y \in E : /\ y \in 2..n /\ y \in DOMAIN rows /\ IsActive(rows[y]) /\ rows[y].parent = p
                       /\ ~IsBoundaryEvent(rows[y])
                       /\ Type(rows[y]) \notin {"process"} \cup Activities \cup BoundaryEvents
      BY <1>5, <1>10, <1>12 DEF Activities, BoundaryEvents
    <2>2. EndedRows(E)
      BY <2>1, <1>3, <1>4, EndAlone
    <2>3. p \notin E
      BY <1>10, <1>12
    <2>. QED BY <2>1, <2>2, <2>3, <1>12, <1>14
  <1>17. ASSUME NEW C, C = E \/ C = {}, NEW V \in SUBSET U, NEW e, e = [y \in DOMAIN rows |-> JoinedRow(y, x, C)]
         PROVE  RowsBegin(e, V, C) /\ \A y \in 1..n : e[y] = JoinedRow(y, x, C)
    <2>1. ASSUME NEW y \in 1..n PROVE e[y] \in Row /\ BegunRow(e[y], rows[y], y \in V, y \in C)
      <3>1. PICK pending, ended : pending = (y \in V) /\ ended = (y \in C)
        OBVIOUS
      <3>2. e[y] = JoinedRow(y, x, C)
        BY <1>5, <1>17
      <3>3. y \in C => ~IsActivity(rows[y])
        BY <1>10, <1>12, <1>17
      <3>4. pending => Idle(rows[y])
        <4>1. \A z \in S : ~IsActivity(rows[z])
          BY <1>10
        <4>. QED BY <4>1, <3>1, <1>7, <1>14 DEF Idle
      <3>5. BegunRow(e[y], rows[y], pending, ended)
        BY <3>1, <3>2, <3>3, <3>4, <1>3, <1>5, <1>7, JoinedRows
      <3>. QED BY <3>1, <3>5 DEF BegunRow
    <2>2. e \in [1..n -> Row]
      BY <2>1, <1>5, <1>17
    <2>3. e \in Seq(Row) /\ Len(e) = n
      BY ONLY <2>2, n \in Nat
    <2>. QED BY <2>1, <2>3, <1>4, <1>5, <1>17 DEF RowsBegin
  <1>18. ASSUME NEW e, e = [y \in DOMAIN rows |-> JoinedRow(y, x, E)], Begin(Context(e, L))
         PROVE  Inv'
    <2>1. PICK d : d = Context(e, L)
      OBVIOUS
    <2>2. RowsBegin(e, U, E) /\ \A y \in 1..n : e[y] = JoinedRow(y, x, E)
      BY <1>17, <1>18
    <2>3. Begun(d, E) /\ d.entities = e /\ Pending(d) = U
      <3>1. /\ RowsOK /\ rows # <<>> /\ U \subseteq 1..Len(rows) /\ \A z \in U : IsActive(rows[z])
            /\ E \in SUBSET U /\ EndedRows(E) /\ \A y \in E : rows[y].parent \notin E
        BY <1>3, <1>4, <1>5, <1>15, <1>16
      <3>2. RowsBegin(e, U, E)
        BY <2>2
      <3>3. Lists(L, U)
        BY <1>15
      <3>4. ASSUME NEW B \in SUBSET U, B = E PROVE Begun(d, B) /\ d.entities = e /\ Pending(d) = U
        <4>1. EndedRows(B) /\ RowsBegin(e, U, B) /\ \A y \in B : rows[y].parent \notin B
          BY <3>1, <3>2, <3>4
        <4>. QED BY ONLY <3>1, <3>3, <4>1, <2>1, B \in SUBSET U, ListedBegins
      <3>. QED BY <3>1, <3>4
    <2>4. ASSUME NEW y \in 1..n, IsBoundaryEvent(rows[y]) PROVE d.entities[y].state = rows[y].state
      <3>1. y \notin E /\ y # x
        BY <2>4, <1>10, <1>12
      <3>. QED BY <3>1, <2>2, <2>3 DEF JoinedRow
    <2>5. \A y \in Pending(d) : ~(IsMultiInstanceActivity(rows[y]) /\ rows[y].state = "CREATED")
      BY <2>3, <1>7, <1>10, <1>14
    <2>. QED BY <2>1, <2>3, <2>4, <2>5, <1>4, <1>16, <1>18, BegunKeeps
  <1>19. ASSUME rows' = Worked(x), UNCHANGED <<instance, tx>>
         PROVE  Inv'
    <2>1. PICK C : C = {}
      OBVIOUS
    <2>2. PICK e : e = [y \in DOMAIN rows |-> JoinedRow(y, x, C)]
      OBVIOUS
    <2>3. rows' = e
      BY <2>1, <2>2, <1>3, <1>19 DEF JoinedRow
    <2>4. PICK d : d = Context(e, <<>>)
      OBVIOUS
    <2>5. RowsBegin(e, C, C)
      BY <2>1, <2>2, <1>17
    <2>6. Lists(<<>>, C) /\ EndedRows(C)
      BY <2>1, NothingListed, NothingEnds
    <2>7. Begun(d, C)
      BY <2>1, <2>4, <2>5, <2>6, <1>3, <1>5, ListedBegins
    <2>8. Consistent(d, 0, 0)
      BY <2>7, BegunConsistent
    <2>9. RowsOK'
      <3>1. Context(rows, <<>>)' = d
        BY <2>3, <2>4, <1>19 DEF Context
      <3>. QED BY <3>1, <2>8 DEF RowsOK
    <2>10. rows' # <<>> /\ tx' = Null
      <3>1. x \in DOMAIN e
        BY <2>2, <1>3
      <3>. QED BY <3>1, <2>3, <1>3, <1>19
    <2>. QED BY <2>9, <2>10 DEF Inv, TxOK
  <1>20. PICK f : f = [y \in DOMAIN rows |-> IF y \in Range(Joined(x)) \ {x}
                                             THEN [rows[y] EXCEPT !.state = "COMPLETED"]
                                             ELSE Worked(x)[y]]
    OBVIOUS
  <1>21. f = [y \in DOMAIN rows |-> JoinedRow(y, x, E)]
    <2>1. \A y \in DOMAIN rows : Worked(x)[y] = IF y = x THEN WorkedRow(x) ELSE rows[y]
      BY <1>3, <1>5
    <2>. QED BY <2>1, <1>8, <1>11, <1>20 DEF JoinedRow
  <1>22. Begin(Context(f, L)) \/ (rows' = Worked(x) /\ UNCHANGED <<instance, tx>>)
    BY <1>3, <1>6, <1>8, <1>13, <1>20 DEF JoinParallelGateway
  <1>. QED BY <1>18, <1>19, <1>21, <1>22

(* The scope of a new process instance *)
ScopeRow(process, state) == [NewRow(process, 0, 0, Null) EXCEPT !.state = state]

CreatedContext(process, state) == [Context(<<ScopeRow(process, state)>>, <<1>>) EXCEPT !.instance = state]

LEMMA ScopeRowFacts ==
  ASSUME NEW process \in Processes, NEW state \in {"STARTED", "QUEUED"}, NEW r, r = ScopeRow(process, state)
  PROVE  /\ r \in Row /\ r.element = process /\ r.parent = 0 /\ r.prev = 0 /\ ~r.multi /\ r.state = state
         /\ r.count = 0 /\ r.work = 0 /\ Type(r) = "process" /\ IsActive(r) /\ IsScope(r)
         /\ ~IsBoundaryEvent(r) /\ ~IsActivity(r) /\ ~IsMultiInstanceActivity(r)
  <1>1. process \in Elements /\ Graph[process].type = "process"
    BY DEF Processes
  <1>2. Graph[process].multiple = FALSE
    <2>1. Graph[process].multiple \in BOOLEAN
      BY <1>1, GraphAssumption DEF Node
    <2>. QED BY <2>1, <1>1, ValidAssumption DEF Activities
  <1>3. PICK q \in Row : q = NewRow(process, 0, 0, Null)
    <2>1. NewRow(process, 0, 0, Null) \in Row
      BY <1>1, NewRowType
    <2>. QED BY <2>1
  <1>4. /\ q.element = process /\ q.parent = 0 /\ q.prev = 0 /\ q.multi = FALSE
        /\ q.count = 0 /\ q.work = 0
    BY <1>2, <1>3 DEF NewRow
  <1>5. r = [q EXCEPT !.state = state] /\ state \in InstanceState
    BY <1>3 DEF ScopeRow, InstanceState
  <1>6. /\ r \in Row /\ r.element = process /\ r.parent = 0 /\ r.prev = 0 /\ ~r.multi /\ r.state = state
        /\ r.count = 0 /\ r.work = 0
    BY <1>4, <1>5 DEF Row
  <1>7. Type(r) = "process" /\ IsActive(r)
    BY <1>1, <1>6 DEF Type, IsActive, Ended
  <1>. QED BY <1>1, <1>2, <1>6, <1>7
           DEF IsScope, IsBoundaryEvent, BoundaryEvents, IsActivity, Activities, IsMultiInstanceActivity

LEMMA CreatedConsistent ==
  ASSUME rows = <<>>, NEW process \in Processes, NEW state \in {"STARTED", "QUEUED"},
         NEW c, c = CreatedContext(process, state)
  PROVE  /\ Consistent(c, 0, 1) /\ NewOnce(c, 0)
         /\ Len(c.entities) = 1 /\ c.entities[1] = ScopeRow(process, state)
  <1>1. PICK r : r = ScopeRow(process, state)
    OBVIOUS
  <1>2. /\ r \in Row /\ r.element = process /\ r.parent = 0 /\ r.prev = 0 /\ ~r.multi /\ r.state = state
        /\ r.count = 0 /\ r.work = 0 /\ Type(r) = "process" /\ IsActive(r) /\ IsScope(r)
        /\ ~IsBoundaryEvent(r) /\ ~IsActivity(r) /\ ~IsMultiInstanceActivity(r)
    BY <1>1, ScopeRowFacts
  <1>3. PICK e : e = <<r>>
    OBVIOUS
  <1>4. e \in Seq(Row) /\ Len(e) = 1 /\ DOMAIN e = {1} /\ e[1] = r /\ e # <<>>
    <2>1. e \in Seq(Row) /\ Len(e) = 1 /\ DOMAIN e = 1..1 /\ e[1] = r
      BY <1>2, <1>3
    <2>2. 1..1 = {1}
      OBVIOUS
    <2>3. DOMAIN e = {1}
      BY <2>1, <2>2
    <2>4. e # <<>>
      BY <1>3
    <2>. QED BY <2>1, <2>3, <2>4
  <1>5. PICK S : S = {1}
    OBVIOUS
  <1>6. PICK L : L = <<1>>
    OBVIOUS
  <1>7. Lists(L, S)
    <2>1. L \in Seq(S) /\ Len(L) = 1 /\ L[1] = 1
      BY <1>5, <1>6
    <2>2. 1 \in 1..1
      OBVIOUS
    <2>. QED BY <2>1, <2>2, <1>5 DEF Lists
  <1>8. PICK i \in InstanceState : i = state
    BY DEF InstanceState
  <1>9. ContextIs(c, e, L, i) /\ S \subseteq 1..Len(e)
    <2>1. ContextIs(c, e, L, i)
      BY <1>1, <1>3, <1>6, <1>8 DEF CreatedContext, Context, ContextIs
    <2>. QED BY <2>1, <1>4, <1>5
  <1>10. Opening(c, e, S, i)
    BY ONLY <1>4, <1>7, <1>8, <1>9, ContextOf
  <1>11. /\ CtxType(c) /\ Pending(c) = {1} /\ Distinct(c) /\ Listed(c, 1)
         /\ c.entities = e /\ c.instance = state
    BY <1>5, <1>8, <1>10 DEF Opening
  <1>12. ShapeOf(c.entities, 1)
    <2>1. 0 \in 0..1 - 1
      OBVIOUS
    <2>. QED BY <2>1, <1>2, <1>4, <1>11 DEF ShapeOf
  <1>13. \A y : Kids(c, 0, y) \subseteq {1} /\ UnsetOf(c, y) = {}
    BY <1>2, <1>4, <1>11 DEF Kids, UnsetOf, IsUnset
  <1>14. Kids(c, 0, 1) = {}
    BY <1>2, <1>4, <1>11 DEF Kids
  <1>15. CountedRow(c, 0, 1)
    <2>1. Cardinality(Kids(c, 0, 1)) = 0 /\ Cardinality(UnsetOf(c, 1)) = 0
      BY <1>13, <1>14, FS_EmptySet
    <2>. QED BY <2>1, <1>2, <1>4, <1>11 DEF CountedRow
  <1>16. StateOf(c, 1, 0)
    <2>1. ~IsUnset(r)
      BY <1>2 DEF IsUnset
    <2>. QED BY <2>1, <1>2, <1>4, <1>11, <1>13, <1>14 DEF StateOf, RowState
  <1>17. ActiveWithin(c) /\ Order(c)
    BY <1>4, <1>11 DEF ActiveWithin, Order
  <1>18. ProcessOf(c, 1)
    BY <1>2, <1>4, <1>11 DEF ProcessOf
  <1>19. NewOnce(c, 0)
    BY <1>4, <1>11 DEF NewOnce
  <1>. QED BY <1>1, <1>4, <1>11, <1>12, <1>15, <1>16, <1>17, <1>18, <1>19 DEF Consistent

LEMMA CreateProcessInstanceKeeps ==
  ASSUME Inv, NEW process \in Processes, NEW state \in {"STARTED", "QUEUED"},
         CreateProcessInstance(process, state)
  PROVE  Inv'
  <1>1. instance = "NONE"
    BY DEF CreateProcessInstance
  <1>2. rows = <<>>
    <2>1. SUFFICES ASSUME rows # <<>> PROVE FALSE
      OBVIOUS
    <2>2. Consistent(Context(rows, <<>>), 0, 0)
      BY <2>1 DEF Inv, RowsOK
    <2>3. instance \in InstanceState
      BY <2>2 DEF Consistent, CtxType, Contexts, Context
    <2>. QED BY <2>3, <1>1 DEF InstanceState, Ended
  <1>3. PICK c : c = CreatedContext(process, state)
    OBVIOUS
  <1>4. /\ Consistent(c, 0, 1) /\ NewOnce(c, 0) /\ Len(c.entities) = 1 /\ CtxType(c) /\ Distinct(c)
        /\ c.entities[1] = ScopeRow(process, state)
    BY <1>2, <1>3, CreatedConsistent DEF Consistent
  <1>5. PICK r \in Row : r = ScopeRow(process, state)
    <2>1. ScopeRow(process, state) \in Row
      BY ScopeRowFacts
    <2>. QED BY <2>1
  <1>6. /\ r.state = state /\ r.count = 0 /\ IsScope(r) /\ ~r.multi
    BY <1>5, ScopeRowFacts
  <1>7. PICK e : e = StartEvent(process)
    OBVIOUS
  <1>8. e \in Elements /\ Graph[e].type = "startEvent"
    <2>1. \E s \in Elements : Graph[s].type = "startEvent" /\ Graph[s].scope = process
      BY ValidAssumption DEF Processes
    <2>. QED BY <2>1, <1>7 DEF StartEvent
  <1>9. PICK q \in Row : q = NewRow(e, 1, 0, Null)
    <2>1. NewRow(e, 1, 0, Null) \in Row
      BY <1>8, NewRowType
    <2>. QED BY <2>1
  <1>10. /\ q.parent = 1 /\ q.state = "NEW" /\ q.count = 0 /\ q.work = 0 /\ q.element = e
         /\ q.multi = Graph[e].multiple /\ q.prev = 0 /\ Type(q) = "startEvent"
    BY <1>8, <1>9 DEF NewRow, Type
  <1>11. PICK L \in Seq(Row) : L = <<q>>
    <2>1. <<q>> \in Seq(Row)
      OBVIOUS
    <2>. QED BY <2>1, Zenon
  <1>12. Len(L) = 1 /\ \A k \in 1..Len(L) : L[k] = q
    BY <1>11
  <1>13. PICK d : d = Branches(c, 1, L)
    OBVIOUS
  <1>14. PICK p, t : p = 1 /\ t = 0
    OBVIOUS
  <1>15. /\ Consistent(c, t, p) /\ NewOnce(c, t) /\ t \in 0..Len(c.entities)
         /\ p \in 1..Len(c.entities) /\ c.entities[p].state \in {"STARTED", "QUEUED", "SUSPENDED"}
         /\ Idle(c.entities[p])
         /\ (IsNew(p) /\ p # 1 => p \notin Pending(c))
         /\ IsScope(c.entities[p]) /\ ~c.entities[p].multi
    <2>1. 1 \in 1..1 /\ 0 \in 0..1
      OBVIOUS
    <2>. QED BY <2>1, <1>4, <1>5, <1>6, <1>14, ScopeRowFacts DEF Idle
  <1>16. \A k \in 1..Len(L) :
           /\ L[k].parent = p /\ L[k].state = "NEW" /\ L[k].count = 0 /\ L[k].work = 0
           /\ L[k].multi = Graph[L[k].element].multiple
           /\ Type(L[k]) \notin {"process"} \cup BoundaryEvents
           /\ L[k].prev \in 0..Len(c.entities)
           /\ L[k].prev # 0 => Type(L[k]) = "parallel"
    <2>1. 0 \in 0..1
      OBVIOUS
    <2>. QED BY <2>1, <1>4, <1>10, <1>12, <1>14 DEF BoundaryEvents
  <1>17. c.entities[1].state = "QUEUED" => \A k \in 1..Len(L) : Type(L[k]) = "startEvent"
    BY <1>10, <1>12
  <1>18. Consistent(Branches(c, p, L), t, p) /\ NewOnce(Branches(c, p, L), t)
    BY ONLY <1>15, <1>16, <1>17, L \in Seq(Row), Branched
  <1>19. Consistent(d, 0, 1) /\ NewOnce(d, 0)
    BY <1>13, <1>14, <1>18
  <1>20. BranchesAre(c, Branches(c, p, L), p, L)
    BY <1>4, <1>15, BranchesFacts
  <1>21. d.entities[1].count > 0
    <2>1. d.entities[1] = Counted(r, Len(L))
      BY <1>4, <1>5, <1>13, <1>14, <1>20 DEF BranchesAre
    <2>2. d.entities[1].count = 0 + 1
      BY <2>1, <1>6, <1>12 DEF Counted, Row
    <2>. QED BY <2>2
  <1>22. Consistent(d, 0, 0)
    <2>1. ProcessOf(d, 0)
      BY <1>19, <1>21 DEF Consistent, ProcessOf
    <2>. QED BY <2>1, <1>19 DEF Consistent
  <1>23. Kept(d)
    <2>1. Len(rows) = 0 /\ Len(rows) <= Len(d.entities)
      <3>1. Len(d.entities) \in Nat
        BY <1>22, CtxFacts DEF Consistent
      <3>. QED BY <3>1, <1>2
    <2>2. \A y \in 1..Len(rows) : FALSE
      BY <2>1
    <2>. QED BY <2>1, <2>2 DEF Kept
  <1>24. Begin(d)
    <2>1. Branch(c, 1, e) = d
      BY <1>9, <1>11, <1>13 DEF Branch
    <2>2. Begin(Branch(c, 1, e))
      BY <1>3, <1>7 DEF CreateProcessInstance, CreatedContext, ScopeRow
    <2>. QED BY <2>1, <2>2
  <1>25. UNCHANGED <<rows, instance>> /\ d = tx'
    BY <1>24 DEF Begin
  <1>. QED BY <1>19, <1>22, <1>23, <1>25, ContextKept

LEMMA SeqsList ==
  ASSUME NEW S, IsFiniteSet(S), NEW L \in SetToSeqs(S)
  PROVE  Lists(L, S)
  <1>1. PICK n \in Nat : n = Cardinality(S)
    BY FS_CardinalityType
  <1>2. L \in [1..n -> S] /\ \A i, j \in 1..n : i # j => L[i] # L[j]
    BY <1>1 DEF SetToSeqs
  <1>3. L \in Injection(1..n, S)
    BY <1>2 DEF Injection, IsInjective
  <1>4. L \in Surjection(1..n, S)
    <2>1. IsFiniteSet(1..n) /\ Cardinality(1..n) = n
      BY FS_Interval
    <2>. QED BY <2>1, <1>1, <1>3, FS_Injection
  <1>5. \A z \in S : \E k \in 1..n : L[k] = z
    BY <1>4 DEF Surjection
  <1>6. L \in Seq(S) /\ Len(L) = n
    BY ONLY <1>2, n \in Nat
  <1>. QED BY <1>2, <1>5, <1>6 DEF Lists

(* Row r is left as it is, or it is a scope that is started or held back. *)
RestatedRow(q, r, to) == q = r \/ (IsActive(r) /\ r.count > 0 /\ q = [r EXCEPT !.state = to])

(* What counts anything is a scope that has no open job and waits for nothing. *)
LEMMA CountingIs ==
  ASSUME NEW c, Consistent(c, 0, 0), NEW y \in 1..Len(c.entities), NEW r, r = c.entities[y],
         IsActive(r), r.count > 0
  PROVE  /\ r \in Row /\ (r.work = 0 \/ ~IsActivity(r))
         /\ ~IsBoundaryEvent(r) /\ r.state \in {"STARTED", "QUEUED", "SUSPENDED"}
         /\ UnsetOf(c, y) = {}
  <1>1. CtxType(c)
    BY DEF Consistent
  <1>2. PICK n \in Nat : n = Len(c.entities) /\ DOMAIN c.entities = 1..n /\ y \in 1..n /\ r \in Row
    BY <1>1, CtxFacts
  <1>3. StateOf(c, y, 0) /\ CountedRow(c, 0, y) /\ \A z \in 1..n : ShapeOf(c.entities, z)
    BY <1>2 DEF Consistent
  <1>4. PICK kids, unset : kids = Kids(c, 0, y) /\ unset = UnsetOf(c, y)
    OBVIOUS
  <1>5. PICK k \in Nat, u \in Nat : /\ k = Cardinality(kids) /\ u = Cardinality(unset)
                                     /\ (k = 0 <=> kids = {})
    BY <1>1, <1>4, SetsOf
  <1>6. r.count = k - u
    BY <1>3, <1>4, <1>5 DEF CountedRow
  <1>7. kids # {}
    BY <1>5, <1>6
  <1>8. PICK z \in 1..n : c.entities[z].parent = y
    BY <1>2, <1>4, <1>7 DEF Kids
  <1>9. IsScope(r)
    <2>1. ShapeOf(c.entities, z)
      BY <1>3, <1>8
    <2>2. z # 1
      BY <1>2, <1>8, <2>1 DEF ShapeOf
    <2>. QED BY <1>8, <2>1, <2>2 DEF ShapeOf
  <1>10. ~IsBoundaryEvent(r)
    <2>1. r.multi => Graph[r.element].multiple
      BY <1>2, <1>3 DEF ShapeOf
    <2>2. r.element \in Elements
      BY <1>2 DEF Row
    <2>3. r.multi => Type(r) \in Activities
      BY <2>1, <2>2, ValidAssumption DEF Type
    <2>. QED BY <2>3, <1>9 DEF IsScope, IsBoundaryEvent, BoundaryEvents, Activities
  <1>11. PICK pending, listed : RowState(r, y, kids, unset, pending, listed)
    BY <1>3, <1>4 DEF StateOf
  <1>12. r.state \in {"STARTED", "QUEUED", "SUSPENDED"} /\ unset = {}
    BY <1>7, <1>11 DEF RowState
  <1>13. r.work = 0 \/ ~IsActivity(r)
    <2>1. r.work \in Nat
      BY <1>2 DEF Row
    <2>. QED BY <2>1, <1>7, <1>11 DEF RowState
  <1>. QED BY <1>2, <1>4, <1>10, <1>12, <1>13

LEMMA RestatedIs ==
  ASSUME NEW r \in Row, IsActive(r), ~IsBoundaryEvent(r), NEW to \in {"STARTED", "SUSPENDED"},
         NEW q, q = [r EXCEPT !.state = to]
  PROVE  /\ q \in Row /\ SameRow(q, r) /\ q.state = to /\ q.count = r.count /\ q.work = r.work
         /\ IsActive(q) /\ ~IsUnset(q) /\ ~IsUnset(r) /\ ~IsBoundaryEvent(q)
         /\ IsActivity(q) <=> IsActivity(r)
  <1>1. q \in Row /\ q.state = to /\ q.count = r.count /\ q.work = r.work
    BY DEF Row, InstanceState
  <1>2. SameRow(q, r)
    BY DEF Row, SameRow
  <1>3. IsActive(q)
    BY <1>1 DEF IsActive, Ended
  <1>4. Type(q) = Type(r)
    BY <1>2 DEF SameRow, Type
  <1>. QED BY <1>1, <1>2, <1>3, <1>4 DEF IsUnset, IsBoundaryEvent, IsActivity

(* A process instance is started, held back or resumed, with its scopes. *)
LEMMA RestatedConsistent ==
  ASSUME NEW c, Consistent(c, 0, 0), NEW to \in {"STARTED", "SUSPENDED"}, NEW d, d \in Contexts,
         Len(d.entities) = Len(c.entities), d.list = c.list, d.next = c.next, d.instance = to,
         \A y \in 1..Len(c.entities) : RestatedRow(d.entities[y], c.entities[y], to),
         IsActive(c.entities[1]), d.entities[1].state = to
  PROVE  /\ Consistent(d, 0, 0) /\ Pending(d) = Pending(c)
         /\ \A y \in 1..Len(c.entities) : SameRow(d.entities[y], c.entities[y])
  <1>1. CtxType(c) /\ Distinct(c) /\ Order(c) /\ ProcessOf(c, 0)
    BY DEF Consistent
  <1>2. PICK n \in Nat : n = Len(c.entities)
    BY <1>1, CtxFacts
  <1>3. /\ DOMAIN c.entities = 1..n /\ n # 0 /\ Pending(c) \subseteq 1..n
        /\ \A y \in 1..n : c.entities[y] \in Row
    BY <1>1, <1>2, CtxFacts
  <1>4. /\ Pending(d) = Pending(c) /\ Distinct(d)
        /\ \A y : Listed(d, y) <=> Listed(c, y)
        /\ \A y, z : Before(d, y, z) <=> Before(c, y, z)
    BY <1>1, SameList
  <1>5. CtxType(d)
    <2>1. d.entities # <<>>
      <3>1. d.entities \in Seq(Row) /\ Len(d.entities) # 0
        BY <1>2, <1>3 DEF Contexts
      <3>. QED BY <3>1
    <2>. QED BY <2>1, <1>1, <1>2 DEF CtxType
  <1>6. ASSUME NEW y \in 1..n PROVE SameCount(c, 0, d, 0, y)
    <2>1. StateOf(c, y, 0)
      BY <1>3 DEF Consistent
    <2>2. PICK kids, unset : kids = Kids(c, 0, y) /\ unset = UnsetOf(c, y)
      OBVIOUS
    <2>3. PICK pending : pending = (y \in Pending(c) \/ y = 0)
      OBVIOUS
    <2>4. PICK listed : listed = Listed(c, y)
      OBVIOUS
    <2>5. pending = (y \in Pending(d) \/ y = 0) /\ listed = Listed(d, y)
      BY <2>3, <2>4, <1>4 DEF Listed
    <2>6. PICK q, r : q = d.entities[y] /\ r = c.entities[y]
      OBVIOUS
    <2>7. RowState(r, y, kids, unset, pending, listed) /\ r \in Row
      BY <1>3, <2>1, <2>2, <2>3, <2>4, <2>6 DEF StateOf
    <2>8. CASE q = r
      BY <2>2, <2>5, <2>6, <2>7, <2>8, <1>4 DEF SameCount, SameRow
    <2>9. CASE q # r
      <3>1. IsActive(r) /\ r.count > 0 /\ q = [r EXCEPT !.state = to]
        BY <1>2, <2>6, <2>9 DEF RestatedRow
      <3>2. /\ unset = {} /\ (r.work = 0 \/ ~IsActivity(r)) /\ ~IsBoundaryEvent(r)
        BY <1>2, <2>2, <2>6, <3>1, CountingIs
      <3>3. /\ SameRow(q, r) /\ q.state = to /\ q.count = r.count /\ q.work = r.work
            /\ IsActive(q) /\ ~IsUnset(q) /\ ~IsUnset(r) /\ ~IsBoundaryEvent(q)
            /\ (IsActivity(q) <=> IsActivity(r))
        BY <2>7, <3>1, <3>2, RestatedIs
      <3>4. RowState(q, y, kids, unset, pending, listed)
        BY <3>2, <3>3 DEF RowState
      <3>5. RowState(d.entities[y], y, Kids(c, 0, y), UnsetOf(c, y), y \in Pending(d) \/ y = 0, Listed(d, y))
        BY <3>4, <2>2, <2>5, <2>6
      <3>. QED BY <3>1, <3>3, <3>5, <2>6, <1>4 DEF SameCount
    <2>. QED BY <2>8, <2>9
  <1>7. Order(d)
    <2>1. \A y \in Pending(d) : y \in 1..Len(c.entities) /\ y \in Pending(c)
      BY <1>2, <1>3, <1>4
    <2>2. \A y \in 1..Len(c.entities) : SameRow(d.entities[y], c.entities[y]) /\ (IsActive(d.entities[y]) <=> IsActive(c.entities[y]))
      BY <1>2, <1>6 DEF SameCount
    <2>. QED BY <2>1, <2>2, <1>4, OrderKept
  <1>8. ProcessOf(d, 0)
    <2>1. 1 \in 1..n
      BY <1>3
    <2>2. c.entities[1].count > 0
      <3>1. 0 # 1
        OBVIOUS
      <3>. QED BY <3>1, <1>1 DEF ProcessOf
    <2>3. d.entities[1].count > 0 /\ IsActive(d.entities[1])
      BY <2>1, <2>2, <1>6 DEF SameCount
    <2>. QED BY <2>3 DEF ProcessOf
  <1>9. Consistent(d, 0, 0)
    BY <1>2, <1>5, <1>4, <1>6, <1>7, <1>8, SameCounts
  <1>. QED BY <1>2, <1>4, <1>6, <1>9 DEF SameCount

AwakeRows ==
  [x \in DOMAIN rows |->
     [rows[x] EXCEPT !.state = IF rows[x].state = instance /\ rows[x].count > 0 THEN "STARTED" ELSE @]]

(* An instance that is not started has a process that is not. *)
LEMMA ProcessIs ==
  ASSUME Inv, instance \in {"STARTED", "QUEUED", "SUSPENDED"}, NEW c, c = Context(rows, <<>>)
  PROVE  /\ RowsOK /\ rows # <<>> /\ rows \in Seq(Row) /\ 1 \in DOMAIN rows
         /\ Consistent(c, 0, 0) /\ c.entities = rows /\ c.instance = instance
         /\ rows[1].state = instance /\ rows[1].count > 0 /\ Type(rows[1]) = "process" /\ IsActive(rows[1])
  <1>1. RowsOK /\ rows # <<>>
    BY DEF Inv
  <1>2. Consistent(c, 0, 0) /\ c.entities = rows /\ c.instance = instance
    BY <1>1 DEF RowsOK, Context
  <1>3. CtxType(c) /\ ProcessOf(c, 0)
    BY <1>2 DEF Consistent
  <1>4. PICK n \in Nat : n = Len(rows)
    BY <1>2, <1>3, CtxFacts
  <1>5. rows \in Seq(Row) /\ DOMAIN rows = 1..n /\ n # 0
    BY <1>2, <1>3, <1>4, CtxFacts
  <1>6. 1 \in DOMAIN rows
    BY <1>5
  <1>7. ShapeOf(rows, 1)
    BY <1>1, <1>6, RowsFacts
  <1>8. IsActive(rows[1])
    <2>1. instance \notin Ended
      BY DEF Ended
    <2>. QED BY <2>1, <1>2, <1>3 DEF ProcessOf
  <1>9. rows[1].state = instance /\ rows[1].count > 0
    <2>1. 0 # 1
      OBVIOUS
    <2>. QED BY <2>1, <1>2, <1>3, <1>8 DEF ProcessOf
  <1>10. Type(rows[1]) = "process"
    BY <1>7 DEF ShapeOf
  <1>. QED BY <1>1, <1>2, <1>5, <1>6, <1>8, <1>9, <1>10

RestatedContext(d, e, L, to, n) ==
  /\ n \in Nat \ {0} /\ e \in [1..n -> Row] /\ L \in Seq(Nat) /\ to \in {"STARTED", "SUSPENDED"}
  /\ d = [Context(e, L) EXCEPT !.instance = to]

(* Rows that have all been restated *)
LEMMA RestatedRows ==
  ASSUME NEW d, NEW e, NEW L, NEW to, NEW n, RestatedContext(d, e, L, to, n)
  PROVE  /\ d \in Contexts /\ d.entities = e /\ Len(d.entities) = n /\ d.list = L /\ d.next = 1
         /\ d.instance = to
  <1>1. e \in Seq(Row) /\ Len(e) = n
    BY ONLY RestatedContext(d, e, L, to, n) DEF RestatedContext
  <1>2. /\ d = [entities |-> e, list |-> L, next |-> 1, instance |-> to]
        /\ L \in Seq(Nat)
    BY DEF Context, RestatedContext
  <1>3. to \in InstanceState /\ 1 \in Nat \ {0}
    BY DEF InstanceState, RestatedContext
  <1>4. d \in Contexts
    BY ONLY <1>1, <1>2, <1>3 DEF Contexts
  <1>. QED BY <1>1, <1>2, <1>4

(* What is queued or suspended is continued when the instance is awake, and   *)
(* it has no open job.                                                        *)
LEMMA HeldIdle ==
  ASSUME RowsOK, instance \in {"QUEUED", "SUSPENDED"}, NEW y \in DOMAIN rows, rows[y].state = instance
  PROVE  IsActive(rows[y]) /\ Idle(rows[y])
  <1>1. PICK c : c = Context(rows, <<>>)
    OBVIOUS
  <1>2. /\ rows[y] \in Row /\ ShapeOf(rows, y) /\ StateOf(c, y, 0) /\ c.entities = rows
    BY <1>1, RowsFacts
  <1>3. IsActive(rows[y])
    BY DEF IsActive, Ended
  <1>4. PICK kids, unset, pending, listed : RowState(rows[y], y, kids, unset, pending, listed)
    BY <1>2 DEF StateOf
  <1>5. ~(IsActivity(rows[y]) /\ rows[y].work > 0)
    <2>1. CASE instance = "SUSPENDED"
      BY <2>1, <1>3, <1>4 DEF RowState
    <2>2. CASE instance = "QUEUED"
      BY <2>2, <1>2, <1>4 DEF RowState, ShapeOf, IsActivity, Activities
    <2>. QED BY <2>1, <2>2
  <1>. QED BY <1>2, <1>3, <1>5 DEF Idle, Row

LEMMA AwakenKeeps ==
  ASSUME Inv, instance \in {"QUEUED", "SUSPENDED"}, Awaken
  PROVE  Inv'
  <1>1. PICK b : b = Context(rows, <<>>)
    OBVIOUS
  <1>2. /\ RowsOK /\ rows # <<>> /\ rows \in Seq(Row) /\ 1 \in DOMAIN rows
        /\ rows[1].state = instance /\ rows[1].count > 0 /\ Type(rows[1]) = "process" /\ IsActive(rows[1])
        /\ Consistent(b, 0, 0) /\ b.entities = rows
    BY <1>1, ProcessIs
  <1>3. PICK n \in Nat : n = Len(rows) /\ DOMAIN rows = 1..n /\ n # 0
    BY <1>2
  <1>4. 1 \in 1..n /\ \A y \in 1..n : rows[y] \in Row
    BY <1>2, <1>3
  <1>5. PICK S : S = {y \in DOMAIN rows : rows[y].state = instance}
    OBVIOUS
  <1>6. S \in SUBSET Nat /\ IsFiniteSet(S) /\ S \subseteq 1..n
    <2>1. S \subseteq 1..n
      BY <1>3, <1>5
    <2>2. 1..n \subseteq Nat
      OBVIOUS
    <2>3. IsFiniteSet(1..n)
      BY FS_Interval
    <2>4. IsFiniteSet(S)
      BY <2>1, <2>3, FS_Subset
    <2>. QED BY <2>1, <2>2, <2>4
  <1>7. PICK L \in (IF AnyOrder THEN SetToSeqs(S) ELSE {Ids(S)}) :
          Begin([Context(AwakeRows, L) EXCEPT !.instance = "STARTED"])
    BY <1>5 DEF Awaken, AwakeRows
  <1>8. Lists(L, S)
    <2>1. CASE AnyOrder
      BY <2>1, <1>6, <1>7, SeqsList
    <2>2. CASE ~AnyOrder
      <3>1. L = Ids(S)
        BY <2>2, <1>7
      <3>. QED BY <3>1, <1>6, IdsLists
    <2>. QED BY <2>1, <2>2
  <1>9. PICK c : c = Context(rows, L)
    OBVIOUS
  <1>10. PICK d : d = [Context(AwakeRows, L) EXCEPT !.instance = "STARTED"]
    OBVIOUS
  <1>11. /\ Begin(d) /\ c.entities = rows /\ c.list = L /\ c.next = 1
    BY <1>7, <1>9, <1>10 DEF Context
  <1>12. PICK E : E = {}
    OBVIOUS
  <1>13. RowsBegin(rows, S, E)
    <2>1. ASSUME NEW y \in 1..n, NEW pending, pending => Idle(rows[y]), NEW ended, ~ended
          PROVE  BegunRow(rows[y], rows[y], pending, ended)
      <3>1. rows[y].work <= rows[y].work
        BY <1>4 DEF Row
      <3>. QED BY <3>1, <2>1, <1>4 DEF BegunRow, SameRow
    <2>2. ASSUME NEW y \in 1..n PROVE BegunRow(rows[y], rows[y], y \in S, y \in E)
      <3>1. PICK pending : pending = (y \in S)
        OBVIOUS
      <3>2. PICK ended : ended = (y \in E)
        OBVIOUS
      <3>3. ~ended
        BY <3>2, <1>12, Zenon
      <3>4. pending => Idle(rows[y])
        BY <3>1, <1>2, <1>3, <1>5, HeldIdle
      <3>5. BegunRow(rows[y], rows[y], pending, ended)
        BY <3>3, <3>4, <2>1
      <3>. QED BY <3>1, <3>2, <3>5
    <2>. QED BY <2>2, <1>2, <1>3 DEF RowsBegin
  <1>14. Begun(c, E) /\ Pending(c) = S
    <2>1. \A z \in S : IsActive(rows[z])
      BY <1>2, <1>5, HeldIdle
    <2>2. EndedRows(E) /\ \A y \in E : rows[y].parent \notin E
      BY <1>12, NothingEnds
    <2>3. ASSUME NEW B \in SUBSET S, B = E PROVE Begun(c, B) /\ c.entities = rows /\ Pending(c) = S
      <3>1. EndedRows(B) /\ RowsBegin(rows, S, B) /\ \A y \in B : rows[y].parent \notin B
        BY <2>2, <2>3, <1>13
      <3>2. RowsOK /\ rows # <<>> /\ S \subseteq 1..Len(rows)
        BY <1>2, <1>3, <1>6
      <3>. QED BY ONLY <3>1, <3>2, <2>1, <1>8, <1>9, B \in SUBSET S, ListedBegins
    <2>. QED BY <2>3, <1>12
  <1>15. Consistent(c, 0, 0) /\ NewOnce(c, 0)
    BY <1>14, BegunConsistent
  <1>16. ASSUME NEW y \in 1..n
         PROVE  /\ RestatedRow(AwakeRows[y], rows[y], "STARTED") /\ AwakeRows[y] \in Row
    <2>1. AwakeRows[y] = [rows[y] EXCEPT !.state = IF rows[y].state = instance /\ rows[y].count > 0 THEN "STARTED" ELSE @]
      BY <1>3 DEF AwakeRows
    <2>2. CASE rows[y].state = instance /\ rows[y].count > 0
      <3>1. AwakeRows[y] = [rows[y] EXCEPT !.state = "STARTED"]
        BY <2>1, <2>2
      <3>2. IsActive(rows[y])
        BY <2>2 DEF IsActive, Ended
      <3>. QED BY <3>1, <3>2, <2>2, <1>4 DEF RestatedRow, Row, InstanceState
    <2>3. CASE ~(rows[y].state = instance /\ rows[y].count > 0)
      <3>1. AwakeRows[y] = [rows[y] EXCEPT !.state = rows[y].state]
        BY <2>1, <2>3
      <3>2. AwakeRows[y] = rows[y]
        BY <3>1, <1>4 DEF Row
      <3>. QED BY <3>2, <1>4 DEF RestatedRow
    <2>. QED BY <2>2, <2>3
  <1>17. AwakeRows \in [1..n -> Row]
    BY <1>3, <1>16 DEF AwakeRows
  <1>18. L \in Seq(Nat)
    <2>1. L \in Seq(S)
      BY <1>8 DEF Lists
    <2>2. PICK m \in Nat : m = Len(L)
      BY <2>1
    <2>3. \A k \in 1..m : L[k] \in Nat
      BY <2>1, <2>2, <1>6, ElementOfSeq
    <2>4. L \in [1..m -> S]
      BY <2>1, <2>2
    <2>5. L \in [1..m -> Nat]
      BY <2>3, <2>4
    <2>. QED BY ONLY <2>5, m \in Nat
  <1>19. /\ d \in Contexts /\ d.entities = AwakeRows /\ Len(d.entities) = n /\ d.list = L /\ d.next = 1
         /\ d.instance = "STARTED"
    <2>1. PICK to : to = "STARTED"
      OBVIOUS
    <2>2. RestatedContext(d, AwakeRows, L, to, n)
      BY <2>1, <1>3, <1>10, <1>17, <1>18 DEF RestatedContext
    <2>. QED BY <2>1, <2>2, RestatedRows
  <1>20. d.entities[1].state = "STARTED"
    <2>1. d.entities[1] = [rows[1] EXCEPT !.state = "STARTED"]
      BY <1>2, <1>19 DEF AwakeRows
    <2>2. rows[1] \in Row
      BY <1>4
    <2>. QED BY <2>1, <2>2 DEF Row
  <1>21. /\ Consistent(d, 0, 0) /\ Pending(d) = S /\ \A y \in 1..n : SameRow(d.entities[y], rows[y])
    BY <1>2, <1>3, <1>11, <1>14, <1>15, <1>16, <1>19, <1>20, RestatedConsistent
  <1>22. NewOnce(d, 0)
    <2>1. CtxType(d)
      BY <1>21 DEF Consistent
    <2>2. DOMAIN d.entities = 1..n
      BY <2>1, <1>19, CtxFacts
    <2>. QED BY <2>2, <1>3 DEF NewOnce, IsNew
  <1>23. Kept(d)
    <2>1. ASSUME NEW y \in 1..n PROVE KeptRow(d, y)
      <3>1. rows[y].state = "CREATED" => y \notin Pending(d) /\ d.entities[y] = rows[y]
        <4>1. ASSUME rows[y].state = "CREATED" PROVE y \notin S /\ AwakeRows[y] = rows[y]
          <5>1. AwakeRows[y] = [rows[y] EXCEPT !.state = rows[y].state]
            BY <4>1, <1>3 DEF AwakeRows
          <5>. QED BY <5>1, <4>1, <1>4, <1>5 DEF Row
        <4>. QED BY <4>1, <1>19, <1>21
      <3>. QED BY <3>1, <1>21 DEF KeptRow
    <2>. QED BY <2>1, <1>3, <1>19 DEF Kept
  <1>24. UNCHANGED <<rows, instance>> /\ d = tx'
    BY <1>11 DEF Begin
  <1>. QED BY <1>21, <1>22, <1>23, <1>24, ContextKept

LEMMA SuspendProcessInstanceKeeps ==
  ASSUME Inv, SuspendProcessInstance
  PROVE  Inv'
  <1>1. PICK c : c = Context(rows, <<>>)
    OBVIOUS
  <1>2. tx = Null /\ instance = "STARTED" /\ instance' = "SUSPENDED" /\ tx' = tx
    BY DEF SuspendProcessInstance
  <1>3. /\ RowsOK /\ rows # <<>> /\ rows \in Seq(Row) /\ 1 \in DOMAIN rows
        /\ rows[1].state = "STARTED" /\ rows[1].count > 0 /\ IsActive(rows[1])
        /\ Consistent(c, 0, 0) /\ c.entities = rows /\ c.list = <<>> /\ c.next = 1
    BY <1>1, <1>2, ProcessIs DEF Context
  <1>4. PICK n \in Nat : n = Len(rows) /\ DOMAIN rows = 1..n /\ n # 0
    BY <1>3
  <1>5. 1 \in 1..n /\ \A y \in 1..n : rows[y] \in Row
    BY <1>3, <1>4
  <1>6. PICK e : e = [x \in DOMAIN rows |-> IF rows[x].state = "STARTED" /\ rows[x].count > 0
                                            THEN [rows[x] EXCEPT !.state = "SUSPENDED"] ELSE rows[x]]
    OBVIOUS
  <1>7. rows' = e
    BY <1>6 DEF SuspendProcessInstance
  <1>8. ASSUME NEW y \in 1..n PROVE RestatedRow(e[y], rows[y], "SUSPENDED") /\ e[y] \in Row
    <2>1. CASE rows[y].state = "STARTED" /\ rows[y].count > 0
      <3>1. e[y] = [rows[y] EXCEPT !.state = "SUSPENDED"]
        BY <2>1, <1>4, <1>6
      <3>2. IsActive(rows[y])
        BY <2>1 DEF IsActive, Ended
      <3>. QED BY <3>1, <3>2, <2>1, <1>5 DEF RestatedRow, Row, InstanceState
    <2>2. CASE ~(rows[y].state = "STARTED" /\ rows[y].count > 0)
      <3>1. e[y] = rows[y]
        BY <2>2, <1>4, <1>6
      <3>. QED BY <3>1, <1>5 DEF RestatedRow
    <2>. QED BY <2>1, <2>2
  <1>9. e \in [1..n -> Row]
    BY <1>4, <1>6, <1>8
  <1>10. PICK d : d = [Context(e, <<>>) EXCEPT !.instance = "SUSPENDED"]
    OBVIOUS
  <1>11. <<>> \in Seq(Nat)
    OBVIOUS
  <1>12. /\ d \in Contexts /\ d.entities = e /\ Len(d.entities) = n /\ d.list = <<>> /\ d.next = 1
         /\ d.instance = "SUSPENDED"
    <2>1. PICK to, L : to = "SUSPENDED" /\ L = <<>>
      OBVIOUS
    <2>2. RestatedContext(d, e, L, to, n)
      BY <2>1, <1>4, <1>9, <1>10, <1>11 DEF RestatedContext
    <2>. QED BY <2>1, <2>2, RestatedRows
  <1>13. d.entities[1].state = "SUSPENDED"
    BY <1>3, <1>4, <1>5, <1>6, <1>12 DEF Row
  <1>14. Consistent(d, 0, 0)
    BY <1>3, <1>4, <1>8, <1>12, <1>13, RestatedConsistent
  <1>15. Context(rows, <<>>)' = d
    BY <1>2, <1>7, <1>10 DEF Context
  <1>16. rows' # <<>>
    BY <1>5, <1>7, <1>9
  <1>. QED BY <1>2, <1>14, <1>15, <1>16 DEF Inv, RowsOK, TxOK

LEMMA NextKeeps ==
  ASSUME Inv, AttachedToActive, [Next]_vars
  PROVE  Inv'
  <1>1. CASE UNCHANGED vars
    <2>1. UNCHANGED <<rows, instance>> /\ tx' = tx
      BY <1>1 DEF vars
    <2>2. CASE tx = Null
      BY <2>1, <2>2, NoContext
    <2>3. CASE tx # Null
      <3>1. PICK h : h = tx
        OBVIOUS
      <3>2. Consistent(h, 0, 0) /\ NewOnce(h, 0) /\ Kept(h)
        BY <2>3, <3>1 DEF Inv, TxOK
      <3>. QED BY <2>1, <3>1, <3>2, ContextKept
    <2>. QED BY <2>2, <2>3
  <1>2. ASSUME NEW process \in Processes, NEW state \in {"STARTED", "QUEUED"},
               CreateProcessInstance(process, state)
        PROVE  Inv'
    BY <1>2, CreateProcessInstanceKeeps
  <1>3. CASE StartProcessInstance
    BY <1>3, AwakenKeeps DEF StartProcessInstance
  <1>4. CASE SuspendProcessInstance
    BY <1>4, SuspendProcessInstanceKeeps
  <1>5. CASE ResumeProcessInstance
    BY <1>5, AwakenKeeps DEF ResumeProcessInstance
  <1>6. ASSUME NEW x \in DOMAIN rows, WorkOn(x)
        PROVE  Inv'
    <2>1. CASE CompleteTask(x)
      BY <2>1, CompleteTaskKeeps
    <2>2. CASE ThrowError(x)
      BY <2>2, ThrowErrorKeeps
    <2>3. CASE CompleteStartMultiInstance(x)
      BY <2>3, CompleteStartMultiInstanceKeeps
    <2>4. CASE ContinueSubProcess(x)
      BY <2>4, ContinueSubProcessKeeps
    <2>5. CASE EvaluateExclusiveGateway(x)
      BY <2>5, EvaluateExclusiveGatewayKeeps
    <2>6. CASE EvaluateInclusiveGateway(x)
      BY <2>6, EvaluateInclusiveGatewayKeeps
    <2>7. CASE SetBoundaryEvent(x)
      BY <2>7, SetBoundaryEventKeeps
    <2>8. CASE SetErrorEndEvent(x)
      BY <2>8, SetErrorEndEventKeeps
    <2>9. CASE TriggerErrorEndEvent(x)
      BY <2>9, TriggerErrorEndEventKeeps
    <2>10. CASE TriggerTimerBoundaryEvent(x)
      BY <2>10, TriggerTimerBoundaryEventKeeps
    <2>11. CASE JoinParallelGateway(x)
      BY <2>11, JoinParallelGatewayKeeps
    <2>. QED BY <1>6, <2>1, <2>2, <2>3, <2>4, <2>5, <2>6, <2>7, <2>8, <2>9, <2>10, <2>11 DEF WorkOn
  <1>7. CASE Continue
    BY <1>7, ContinueKeeps
  <1>8. CASE ContinueNil
    BY <1>8, ContinueNilKeeps
  <1>9. CASE ContinueProcess
    BY <1>9, ContinueProcessKeeps
  <1>10. CASE Commit
    BY <1>10, CommitKeeps
  <1>. QED BY <1>1, <1>2, <1>3, <1>4, <1>5, <1>6, <1>7, <1>8, <1>9, <1>10 DEF Next, Run

LEMMA InitInv == Init => Inv
  BY DEF Init, Inv, RowsOK, TxOK

(* What the invariant says of the committed rows *)
LEMMA InvCounts ==
  ASSUME Inv
  PROVE  CountIsChildren
  <1>. SUFFICES ASSUME NEW x \in DOMAIN rows, IsActive(rows[x])
                PROVE  rows[x].count = Cardinality(Children(x)) - Cardinality(Unset(x))
    BY DEF CountIsChildren
  <1>1. PICK c : c = Context(rows, <<>>)
    OBVIOUS
  <1>2. RowsOK
    BY DEF Inv
  <1>3. /\ CountedRow(c, 0, x) /\ c.entities = rows /\ Pending(c) = {}
        /\ x \in 1..Len(rows) /\ Len(rows) \in Nat /\ rows \in Seq(Row)
    BY <1>1, <1>2, RowsFacts
  <1>4. 0 \notin DOMAIN rows
    BY <1>3
  <1>5. Kids(c, 0, x) = Children(x)
    BY <1>3, <1>4 DEF Kids, Children
  <1>6. UnsetOf(c, x) = Unset(x)
    BY <1>3 DEF UnsetOf, Unset, IsUnset
  <1>. QED BY <1>3, <1>5, <1>6 DEF CountedRow

LEMMA InvNoOrphans ==
  ASSUME Inv
  PROVE  NoOrphans
  <1>1. PICK c : c = Context(rows, <<>>)
    OBVIOUS
  <1>2. RowsOK
    BY DEF Inv
  <1>3. ASSUME NEW x \in DOMAIN rows, IsActive(rows[x])
        PROVE  \/ rows[x].element \in Processes /\ rows[x].state = instance
               \/ rows[x].element \notin Processes /\ IsActive(rows[Parent(x)])
    <2>1. /\ rows[x] \in Row /\ ShapeOf(rows, x) /\ Consistent(c, 0, 0) /\ c.entities = rows
      BY <1>1, <1>2, RowsFacts
    <2>2. rows[x].element \in Processes <=> x = 1
      BY <2>1 DEF ShapeOf, Processes, Type, Row
    <2>3. CASE x = 1
      <3>1. c.instance = instance
        BY <1>1 DEF Context
      <3>. QED BY <1>3, <2>1, <2>2, <2>3, <3>1 DEF Consistent, ProcessOf
    <2>4. CASE x # 1
      BY <1>3, <2>1, <2>2, <2>4 DEF Consistent, ActiveWithin, Parent
    <2>. QED BY <2>3, <2>4
  <1>4. ASSUME instance \in Ended, NEW x \in DOMAIN rows
        PROVE  ~IsActive(rows[x])
    <2>1. /\ Consistent(c, 0, 0) /\ c.entities = rows /\ x \in 1..Len(rows)
      BY <1>1, <1>2, <1>4, RowsFacts
    <2>2. c.instance = instance
      BY <1>1 DEF Context
    <2>3. ~IsActive(rows[1])
      <3>1. IsActive(rows[1]) => instance = rows[1].state
        BY <2>1, <2>2 DEF Consistent, ProcessOf
      <3>. QED BY <3>1, <1>4 DEF IsActive
    <2>. QED BY <2>1, <2>3, AllEnded
  <1>. QED BY <1>3, <1>4 DEF NoOrphans

LEMMA InvTypes ==
  ASSUME Inv
  PROVE  /\ rows \in Seq(Row) /\ instance \in InstanceState \cup {"NONE"}
         /\ tx = Null \/ tx \in Contexts
  <1>1. tx # Null => tx \in Contexts
    BY DEF Inv, TxOK, Consistent, CtxType
  <1>2. CASE rows = <<>>
    <2>1. rows \in Seq(Row)
      BY <1>2
    <2>. QED BY <1>1, <1>2, <2>1 DEF Inv
  <1>3. CASE rows # <<>>
    <2>1. Context(rows, <<>>) \in Contexts
      BY <1>3 DEF Inv, RowsOK, Consistent, CtxType
    <2>. QED BY <1>1, <2>1 DEF Context, Contexts
  <1>. QED BY <1>2, <1>3

(* ExecutionCount is right: whatever is continued, interrupted, repeated or  *)
(* joined in parallel within a scope, and in whatever order rows are         *)
(* selected, an active scope counts the active executions within it, and an  *)
(* activity the boundary events it waits for.                                *)
THEOREM CountsAreRight ==
  Spec /\ []AttachedToActive => []CountIsChildren
  <1>1. Inv /\ AttachedToActive /\ [Next]_vars => Inv'
    BY NextKeeps
  <1>2. Inv => CountIsChildren
    BY InvCounts
  <1>. QED BY <1>1, <1>2, InitInv, PTL DEF Spec

(* What is active is within an active scope, and a process instance ends     *)
(* with its last execution.                                                  *)
THEOREM OrphansAreNone ==
  Spec /\ []AttachedToActive => []NoOrphans
  <1>1. Inv /\ AttachedToActive /\ [Next]_vars => Inv'
    BY NextKeeps
  <1>2. Inv => NoOrphans
    BY InvNoOrphans
  <1>. QED BY <1>1, <1>2, InitInv, PTL DEF Spec

(* Rows and transactions stay rows and transactions. *)
THEOREM TypeCorrect ==
  Spec /\ []AttachedToActive => []TypeOK
  <1>. DEFINE Types == Inv /\ failures \subseteq {"NIL", "SCOPE"}
  <1>1. Types /\ AttachedToActive /\ [Next]_vars => Types'
    <2>1. ASSUME Types, AttachedToActive, [Next]_vars
          PROVE  failures' \subseteq {"NIL", "SCOPE"}
      BY <2>1 DEF Next, vars, CreateProcessInstance, StartProcessInstance, SuspendProcessInstance,
         ResumeProcessInstance, Awaken, Begin, Rollback, WorkOn, CompleteTask, ThrowError, StartBoundaryEvent,
         CompleteStartMultiInstance, ContinueSubProcess, EvaluateExclusiveGateway, EvaluateInclusiveGateway,
         SetBoundaryEvent, SetErrorEndEvent, TriggerErrorEndEvent, TriggerTimerBoundaryEvent,
         JoinParallelGateway, Run, Continue, ContinueNil, ContinueProcess, Commit
    <2>. QED BY <2>1, NextKeeps
  <1>2. Types => TypeOK
    BY InvTypes DEF TypeOK
  <1>3. Init => Types
    BY InitInv DEF Init
  <1>. HIDE DEF Types
  <1>. QED BY <1>1, <1>2, <1>3, PTL DEF Spec
==============================================================================
