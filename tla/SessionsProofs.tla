---------------------------- MODULE SessionsProofs ----------------------------
(***************************************************************************)
(* Theorems about Sessions that hold however many passes overlap, for      *)
(* every value of its constants: the types, and that one placement leaves  *)
(* one order.  SessionsBooksProofs is about the books when passes do not   *)
(* overlap.                                                                *)
(***************************************************************************)
EXTENDS Sessions, FiniteSetTheorems, WellFoundedInduction, TLAPS

-----------------------------------------------------------------------------
(* Numbers: the least of a set, the highest of a finite one.               *)

\* A set of natural numbers that is not empty has a least one.
LEMMA LeastIsThere ==
  ASSUME NEW S \in SUBSET Nat, S # {}
  PROVE  \E x \in S : \A y \in S : x <= y
<1>. DEFINE R == OpToRel(<, Nat)
<1>1. IsWellFoundedOn(R, Nat)
  BY NatLessThanWellFounded
<1>. HIDE DEF R
<1>2. \A x, y \in Nat : x < y => <<x, y>> \in R
  BY DEF R, OpToRel
<1>3. PICK x \in S : \A y \in S : ~(<<y, x>> \in R)
  BY <1>1, WFMin
<1>4. \A y \in S : x <= y
  <2>. TAKE y \in S
  <2>1. x \in Nat /\ y \in Nat /\ ~(y < x)
    BY <1>2, <1>3
  <2>. QED  BY <2>1
<1>. QED  BY <1>4

\* The order a pass is at is one it has left to visit.
LEMMA TurnIsLeft ==
  ASSUME NEW m, mem[m].todo \subseteq Nat, mem[m].todo # {}
  PROVE  Turn(m) \in mem[m].todo /\ \A p \in mem[m].todo : Turn(m) <= p
BY LeastIsThere DEF Turn

\* A finite set of natural numbers that is not empty has a highest one: take the smallest set
\* that has none and leave out one of its elements.
LEMMA HighestIsThere ==
  ASSUME NEW S \in SUBSET Nat, IsFiniteSet(S), S # {}
  PROVE  \E x \in S : \A y \in S : y <= x
<1>. DEFINE Highest(T) == \E x \in T : \A y \in T : y <= x
            Bad == {n \in Nat : \E T \in SUBSET S : T # {} /\ Cardinality(T) = n /\ ~Highest(T)}
<1>. SUFFICES ASSUME ~Highest(S) PROVE FALSE
  OBVIOUS
<1>1. Cardinality(S) \in Bad
  BY FS_CardinalityType
<1>2. PICK n \in Bad : \A k \in Bad : n <= k
  BY <1>1, LeastIsThere
<1>3. PICK T \in SUBSET S : T # {} /\ Cardinality(T) = n /\ ~Highest(T)
  BY <1>2
<1>4. PICK x \in T : TRUE
  BY <1>3
<1>5. IsFiniteSet(T) /\ IsFiniteSet(T \ {x}) /\ Cardinality(T \ {x}) = n - 1 /\ n - 1 \in Nat
  <2>1. IsFiniteSet(T)
    BY FS_Subset
  <2>2. IsFiniteSet(T \ {x}) /\ Cardinality(T \ {x}) = n - 1
    BY <1>3, <1>4, <2>1, FS_RemoveElement
  <2>. QED  BY <2>1, <2>2, FS_CardinalityType
<1>6. T \ {x} # {}
  BY <1>3, <1>4
<1>7. Highest(T \ {x})
  <2>1. ~(n - 1 \in Bad)
    BY <1>2, <1>5
  <2>. QED  BY <1>5, <1>6, <2>1
<1>8. PICK y \in T \ {x} : \A z \in T \ {x} : z <= y
  BY <1>7
<1>9. x \in Nat /\ y \in Nat
  BY <1>3, <1>4, <1>8
<1>10. CASE x <= y
  BY <1>3, <1>8, <1>9, <1>10
<1>11. CASE y <= x
  <2>1. \A z \in T : z <= x
    <3>. TAKE z \in T
    <3>1. z \in Nat /\ (z = x \/ z <= y)
      BY <1>8
    <3>. QED  BY <1>9, <1>11, <3>1
  <2>. QED  BY <1>3, <1>4, <2>1
<1>. QED  BY <1>9, <1>10, <1>11

\* A new id is higher than those there are.
LEMMA NextIdIsNew ==
  ASSUME NEW S \in SUBSET Nat, IsFiniteSet(S)
  PROVE  /\ NextId(S) \in Nat \ {0}
         /\ \A k \in S : k < NextId(S)
<1>. DEFINE T == {0} \cup S
<1>1. T \in SUBSET Nat /\ IsFiniteSet(T) /\ T # {}
  <2>1. IsFiniteSet(S \cup {0}) /\ S \cup {0} = T
    BY FS_AddElement
  <2>. QED  BY <2>1
<1>2. \E x \in T : \A y \in T : y <= x
  BY <1>1, HighestIsThere
<1>. DEFINE top == CHOOSE n \in T : \A k \in S : k <= n
<1>3. top \in T /\ \A k \in S : k <= top
  BY <1>2
<1>4. NextId(S) = 1 + top
  BY DEF NextId
<1>. HIDE DEF top
<1>. QED  BY <1>1, <1>3, <1>4

-----------------------------------------------------------------------------
(* Tables.                                                                 *)

\* A table is one of values in V if all its keys have one.
Table(f, V) == f \in [DOMAIN f -> V]

\* One table over another is a table.
LEMMA OverTable ==
  ASSUME NEW V, NEW f, NEW g, Table(f, V), Table(g, V)
  PROVE  Table(Over(f, g), V)
BY DEF Over, Table

\* A table with one more row is a table.
LEMMA WithTable ==
  ASSUME NEW V, NEW f, NEW k, NEW v, Table(f, V), v \in V
  PROVE  Table(With(f, k, v), V)
BY DEF With, Table

\* What a session sees, table by table.
LEMMA ViewIs ==
  ASSUME NEW s
  PROVE  /\ DOMAIN View(s) = Tables
         /\ View(s).status = Over(own[s].status, db.status)
         /\ View(s).filled = Over(own[s].filled, db.filled)
         /\ View(s).reserved = Over(own[s].reserved, db.reserved)
         /\ View(s).fill = Over(own[s].fill, db.fill)
         /\ View(s).entry = Over(own[s].entry, db.entry)
         /\ View(s).lot = Over(own[s].lot, db.lot)
         /\ View(s).row = Over(own[s].row, db.row)
BY DEF View, Tables

-----------------------------------------------------------------------------
(* Sums.                                                                   *)

\* The units a sum counts.
LEMMA UnitsMembers ==
  ASSUME NEW f, NEW S, NEW x
  PROVE  x \in Units(f, S) <=> x = <<x[1], x[2]>> /\ x[1] \in S /\ x[2] \in 1 .. f[x[1]]
<1>1. ASSUME x \in Units(f, S)
      PROVE  x = <<x[1], x[2]>> /\ x[1] \in S /\ x[2] \in 1 .. f[x[1]]
  <2>1. PICK k \in S : x \in {k} \X (1 .. f[k])
    BY <1>1 DEF Units
  <2>2. x[1] = k /\ x[2] \in 1 .. f[k] /\ x = <<x[1], x[2]>>
    BY <2>1
  <2>. QED  BY <2>2
<1>2. ASSUME x = <<x[1], x[2]>>, x[1] \in S, x[2] \in 1 .. f[x[1]]
      PROVE  x \in Units(f, S)
  <2>1. x \in {x[1]} \X (1 .. f[x[1]])
    BY <1>2
  <2>. QED  BY <1>2, <2>1 DEF Units
<1>. QED  BY <1>1, <1>2

\* A sum over finitely many keys is a natural number.
LEMMA SumNat ==
  ASSUME NEW f, NEW S, IsFiniteSet(S), \A k \in S : f[k] \in Int
  PROVE  IsFiniteSet(Units(f, S)) /\ Sum(f, S) \in Nat
<1>. DEFINE parts == {{k} \X (1 .. f[k]) : k \in S}
            part == [k \in S |-> {k} \X (1 .. f[k])]
<1>1. part \in Surjection(S, parts)
  BY DEF Surjection
<1>2. IsFiniteSet(parts)
  BY <1>1, FS_Surjection
<1>3. \A T \in parts : IsFiniteSet(T)
  <2>1. ASSUME NEW k \in S PROVE IsFiniteSet({k} \X (1 .. f[k]))
    <3>1. 1 \in Int /\ f[k] \in Int
      OBVIOUS
    <3>2. IsFiniteSet(1 .. f[k])
      BY <3>1, FS_Interval
    <3>3. IsFiniteSet({k})
      BY FS_Singleton
    <3>. QED  BY <3>2, <3>3, FS_Product
  <2>. QED  BY <2>1
<1>4. IsFiniteSet(Units(f, S))
  BY <1>2, <1>3, FS_UNION DEF Units
<1>. QED  BY <1>4, FS_CardinalityType DEF Sum

\* Two functions that agree on the keys have the same sum.
LEMMA SumSame ==
  ASSUME NEW f, NEW g, NEW S, \A k \in S : f[k] = g[k]
  PROVE  Sum(f, S) = Sum(g, S)
<1>1. {{k} \X (1 .. f[k]) : k \in S} = {{k} \X (1 .. g[k]) : k \in S}
  OBVIOUS
<1>. QED  BY <1>1 DEF Sum, Units

\* The sum over no keys, and over one key more.
LEMMA SumNone ==
  ASSUME NEW f
  PROVE  Sum(f, {}) = 0
<1>1. Units(f, {}) = {}
  BY DEF Units
<1>. QED  BY <1>1, FS_EmptySet DEF Sum

\* A key more adds what it stands for, if that is positive.
LEMMA SumMore ==
  ASSUME NEW f, NEW S, IsFiniteSet(S), NEW k, k \notin S, \A x \in S \cup {k} : f[x] \in Int
  PROVE  /\ IsFiniteSet(S \cup {k})
         /\ Sum(f, S \cup {k}) = Sum(f, S) + (IF f[k] > 0 THEN f[k] ELSE 0)
<1>. DEFINE more == {k} \X (1 .. f[k])
<1>1. IsFiniteSet(more) /\ Cardinality(more) = IF f[k] > 0 THEN f[k] ELSE 0
  <2>1. f[k] \in Int
    OBVIOUS
  <2>2. IsFiniteSet(1 .. f[k]) /\ Cardinality(1 .. f[k]) = IF f[k] > 0 THEN f[k] ELSE 0
    BY <2>1, FS_Interval
  <2>3. IsFiniteSet({k}) /\ Cardinality({k}) = 1
    BY FS_Singleton
  <2>4. IsFiniteSet(more) /\ Cardinality(more) = 1 * Cardinality(1 .. f[k])
    BY <2>2, <2>3, FS_Product
  <2>. QED  BY <2>1, <2>2, <2>4
<1>2. Units(f, S \cup {k}) = Units(f, S) \cup more
  BY DEF Units
<1>3. Units(f, S) \cap more = {}
  BY DEF Units
<1>4. IsFiniteSet(Units(f, S)) /\ Cardinality(Units(f, S)) \in Nat
  BY SumNat DEF Sum
<1>. HIDE DEF more
<1>5. Cardinality(Units(f, S) \cup more) = Cardinality(Units(f, S)) + Cardinality(more) - 0
  BY <1>1, <1>3, <1>4, FS_Union, FS_EmptySet
<1>6. IsFiniteSet(S \cup {k})
  BY FS_AddElement
<1>7. Sum(f, S \cup {k}) = Cardinality(Units(f, S) \cup more)
  BY <1>2 DEF Sum
<1>8. Cardinality(more) \in Int
  BY <1>1
<1>. QED  BY <1>1, <1>4, <1>5, <1>6, <1>7, <1>8 DEF Sum

-----------------------------------------------------------------------------
(* The invariant: what each kind of session writes and remembers.          *)

\* The tables a session writes, or those that are committed.
TablesTyped(v) ==
  /\ DOMAIN v = Tables
  /\ Table(v.status, {"NEW"} \cup OpenStatuses \cup Terminal) /\ DOMAIN v.status \subseteq Orders
  /\ Table(v.filled, Nat) /\ \A o \in DOMAIN v.filled : o \in Orders /\ v.filled[o] <= Ask[o].qty
  /\ Table(v.reserved, Nat)
  /\ Table(v.fill, Nat) /\ IsFiniteSet(DOMAIN v.fill)
  /\ Table(v.entry, Int) /\ IsFiniteSet(DOMAIN v.entry)
  /\ Table(v.lot, Nat) /\ IsFiniteSet(DOMAIN v.lot) /\ DOMAIN v.lot \subseteq Nat \X Nat
  /\ Table(v.row, Nat) /\ IsFiniteSet(DOMAIN v.row) /\ DOMAIN v.row \subseteq Nat

\* A committed order row is whole, and it is no NEW one.
RowsWhole(d) ==
  /\ DOMAIN d.filled = DOMAIN d.status /\ DOMAIN d.reserved = DOMAIN d.status
  /\ \A o \in DOMAIN d.status : d.status[o] # "NEW"

NoTrades(w) == DOMAIN w.fill = {} /\ DOMAIN w.entry = {} /\ DOMAIN w.lot = {} /\ DOMAIN w.row = {}

\* A request writes its own order, which nobody sees before it commits.
PlacerOK(p, d, w, at) ==
  /\ at \in {"start", "insert", "read", "decide", "commit", "done"}
  /\ NoTrades(w)
  /\ DOMAIN w.status = (IF at \in {"read", "decide", "commit"} THEN {p} ELSE {})
  /\ DOMAIN w.filled = DOMAIN w.status /\ DOMAIN w.reserved = DOMAIN w.status
  /\ at \in {"read", "decide", "commit"} => w.filled[p] = 0
  /\ at = "commit" => w.status[p] \in {"ACCEPTED", "REJECTED"}
  /\ at # "done" => p \notin DOMAIN d.status

\* A cancellation writes status and reservation of an order that is committed.
CancellerOK(d, w, at, r) ==
  /\ at \in {"start", "write", "commit", "done"}
  /\ NoTrades(w) /\ DOMAIN w.filled = {}
  /\ DOMAIN w.status \subseteq DOMAIN d.status /\ DOMAIN w.reserved \subseteq DOMAIN d.status
  /\ \A o \in DOMAIN w.status : w.status[o] = "CANCELED"
  /\ at = "write" => r.order \in DOMAIN d.status

First(S) == CHOOSE o \in S : \A p \in S : o <= p
Filling == {"number", "insert", "settle", "project", "finish"}

\* A pass writes orders that are committed and were open when it loaded them; what it fills is
\* left to fill.
MatcherOK(d, w, at, r) ==
  /\ at \in {"idle", "turn"} \cup Filling
  /\ DOMAIN w.status \subseteq DOMAIN d.status /\ DOMAIN w.filled \subseteq DOMAIN d.status
  /\ DOMAIN w.reserved \subseteq DOMAIN d.status
  /\ \A o \in DOMAIN w.status : w.status[o] # "NEW"
  /\ r.todo \subseteq DOMAIN r.loaded /\ DOMAIN r.loaded \subseteq DOMAIN d.status
  /\ \A o \in DOMAIN r.loaded :
       /\ r.loaded[o].status \in OpenStatuses /\ r.loaded[o].reserved \in Nat
       /\ r.loaded[o].filled \in Nat /\ r.loaded[o].filled <= Ask[o].qty
  /\ r.qty \in Nat /\ r.row \in Nat
  /\ at \in Filling => r.todo # {} /\ r.loaded[First(r.todo)].filled + r.qty <= Ask[First(r.todo)].qty

Shape ==
  /\ DOMAIN own = Sessions /\ pc = [s \in Sessions |-> pc[s]] /\ DOMAIN mem = Sessions
  /\ TablesTyped(db) /\ RowsWhole(db)
  /\ \A s \in Sessions : TablesTyped(own[s]) /\ DOMAIN mem[s] = DOMAIN Blank
  /\ \A p \in Placing : PlacerOK(p, db, own[p], pc[p])
  /\ \A c \in Cancellers : CancellerOK(db, own[c], pc[c], mem[c])
  /\ \A m \in Matchers : MatcherOK(db, own[m], pc[m], mem[m])

\* The rest of the sessions stay where they are.
Alone(s) ==
  /\ DOMAIN own' = Sessions /\ pc' = [x \in Sessions |-> pc'[x]] /\ DOMAIN mem' = Sessions
  /\ \A x \in Sessions \ {s} : own'[x] = own[x] /\ pc'[x] = pc[x] /\ mem'[x] = mem[x]

\* What the step of a session has to show: it leaves its own part in order, and of the orders
\* committed it adds at most its own.
LEMMA StepOfOne ==
  ASSUME Shape, NEW s \in Sessions, Alone(s),
         TablesTyped(db'), RowsWhole(db'),
         DOMAIN db.status \subseteq DOMAIN db'.status,
         DOMAIN db'.status \subseteq DOMAIN db.status \cup {s},
         TablesTyped(own'[s]), DOMAIN mem'[s] = DOMAIN Blank,
         s \in Placing => PlacerOK(s, db', own'[s], pc'[s]),
         s \in Cancellers => CancellerOK(db', own'[s], pc'[s], mem'[s]),
         s \in Matchers => MatcherOK(db', own'[s], pc'[s], mem'[s])
  PROVE  Shape'
<1>1. \A x \in Sessions : TablesTyped(own'[x]) /\ DOMAIN mem'[x] = DOMAIN Blank
  BY DEF Shape, Alone
<1>2. \A p \in Placing : PlacerOK(p, db', own'[p], pc'[p])
  <2>. TAKE p \in Placing
  <2>1. CASE p # s
    <3>1. PlacerOK(p, db, own[p], pc[p]) /\ own'[p] = own[p] /\ pc'[p] = pc[p]
      BY <2>1 DEF Shape, Alone, Sessions
    <3>. QED  BY <2>1, <3>1 DEF PlacerOK
  <2>. QED  BY <2>1
<1>3. \A c \in Cancellers : CancellerOK(db', own'[c], pc'[c], mem'[c])
  <2>. TAKE c \in Cancellers
  <2>1. CASE c # s
    <3>1. /\ CancellerOK(db, own[c], pc[c], mem[c])
          /\ own'[c] = own[c] /\ pc'[c] = pc[c] /\ mem'[c] = mem[c]
      BY <2>1 DEF Shape, Alone, Sessions
    <3>. QED  BY <2>1, <3>1 DEF CancellerOK
  <2>. QED  BY <2>1
<1>4. \A m \in Matchers : MatcherOK(db', own'[m], pc'[m], mem'[m])
  <2>. TAKE m \in Matchers
  <2>1. CASE m # s
    <3>1. /\ MatcherOK(db, own[m], pc[m], mem[m])
          /\ own'[m] = own[m] /\ pc'[m] = pc[m] /\ mem'[m] = mem[m]
      BY <2>1 DEF Shape, Alone, Sessions
    <3>. QED  BY <2>1, <3>1 DEF MatcherOK
  <2>. QED  BY <2>1
<1>5. DOMAIN own' = Sessions /\ pc' = [x \in Sessions |-> pc'[x]] /\ DOMAIN mem' = Sessions
  BY DEF Alone
<1>. QED  BY <1>1, <1>2, <1>3, <1>4, <1>5 DEF Shape

-----------------------------------------------------------------------------
(* Sessions end. *)

\* A session that has written nothing.
LEMMA NothingTyped ==
  /\ TablesTyped(Nothing) /\ NoTrades(Nothing)
  /\ DOMAIN Nothing.status = {} /\ DOMAIN Nothing.filled = {} /\ DOMAIN Nothing.reserved = {}
<1>1. DOMAIN << >> = {} /\ IsFiniteSet({})
  BY FS_EmptySet
<1>2. DOMAIN Nothing = Tables /\ \A t \in Tables : Nothing[t] = << >>
  BY DEF Nothing
<1>3. /\ Nothing.status = << >> /\ Nothing.filled = << >> /\ Nothing.reserved = << >>
      /\ Nothing.fill = << >> /\ Nothing.entry = << >> /\ Nothing.lot = << >> /\ Nothing.row = << >>
  BY <1>2 DEF Tables
<1>4. \A V : << >> \in [{} -> V]
  OBVIOUS
<1>. QED  BY <1>1, <1>2, <1>3, <1>4 DEF TablesTyped, NoTrades, Table

\* What a session remembers before it has read anything.
LEMMA BlankIs ==
  /\ DOMAIN Blank = {"todo", "loaded", "order", "qty", "seq", "row", "held"}
  /\ Blank.todo = {} /\ DOMAIN Blank.loaded = {} /\ Blank.qty = 0 /\ Blank.row = 0
BY DEF Blank

\* A session that closes leaves nothing of its own behind.
LEMMA CloseAlone ==
  ASSUME Shape, NEW s \in Sessions, Close(s)
  PROVE  /\ Alone(s) /\ own'[s] = Nothing /\ mem'[s] = Blank
         /\ pc'[s] = IF s \in Matchers THEN "idle" ELSE "done"
BY DEF Close, Shape, Alone, Rest

\* Then its part of the invariant holds, whatever is committed.
LEMMA ClosedIsOK ==
  ASSUME NEW s \in Sessions, NEW d
  PROVE  /\ s \in Placing => PlacerOK(s, d, Nothing, "done")
         /\ s \in Cancellers => CancellerOK(d, Nothing, "done", Blank)
         /\ s \in Matchers => MatcherOK(d, Nothing, "idle", Blank)
<1>1. /\ NoTrades(Nothing) /\ DOMAIN Nothing.status = {} /\ DOMAIN Nothing.filled = {}
      /\ DOMAIN Nothing.reserved = {}
  BY NothingTyped
<1>2. PlacerOK(s, d, Nothing, "done")
  BY <1>1 DEF PlacerOK
<1>3. CancellerOK(d, Nothing, "done", Blank)
  BY <1>1 DEF CancellerOK
<1>4. MatcherOK(d, Nothing, "idle", Blank)
  BY <1>1, BlankIs DEF MatcherOK, Filling
<1>. QED  BY <1>2, <1>3, <1>4

\* A session closes over tables that are in order.
LEMMA CloseShape ==
  ASSUME Shape, NEW s \in Sessions, Close(s), TablesTyped(db'), RowsWhole(db'),
         DOMAIN db.status \subseteq DOMAIN db'.status,
         DOMAIN db'.status \subseteq DOMAIN db.status \cup {s}
  PROVE  Shape'
<1>1. /\ Alone(s) /\ own'[s] = Nothing /\ mem'[s] = Blank
      /\ pc'[s] = IF s \in Matchers THEN "idle" ELSE "done"
  BY CloseAlone
<1>2. s \in Matchers => s \notin Placing /\ s \notin Cancellers
  BY SessionsAreApart
<1>. QED  BY <1>1, <1>2, StepOfOne, ClosedIsOK, NothingTyped

\* A rollback, or a process that dies.
LEMMA RollbackShape ==
  ASSUME Shape, NEW s \in Sessions, Rollback(s)
  PROVE  Shape'
<1>1. db' = db /\ Close(s)
  BY DEF Rollback
<1>2. TablesTyped(db') /\ RowsWhole(db')
  BY <1>1 DEF Shape
<1>. QED  BY <1>1, <1>2, CloseShape

\* What a session sees is typed like what it writes and what is committed.
LEMMA ViewTyped ==
  ASSUME Shape, NEW s \in Sessions
  PROVE  TablesTyped(View(s))
<1>. DEFINE v == View(s)
            w == own[s]
<1>1. TablesTyped(w) /\ TablesTyped(db)
  BY DEF Shape
<1>2. /\ DOMAIN v = Tables
      /\ v.status = Over(w.status, db.status) /\ v.filled = Over(w.filled, db.filled)
      /\ v.reserved = Over(w.reserved, db.reserved) /\ v.fill = Over(w.fill, db.fill)
      /\ v.entry = Over(w.entry, db.entry) /\ v.lot = Over(w.lot, db.lot)
      /\ v.row = Over(w.row, db.row)
  BY ViewIs
<1>. HIDE DEF v, w
<1>3. ASSUME NEW f, NEW g, IsFiniteSet(DOMAIN f), IsFiniteSet(DOMAIN g)
      PROVE  IsFiniteSet(DOMAIN Over(f, g))
  BY <1>3, FS_Union DEF Over
<1>4. /\ IsFiniteSet(DOMAIN v.fill) /\ IsFiniteSet(DOMAIN v.entry)
      /\ IsFiniteSet(DOMAIN v.lot) /\ IsFiniteSet(DOMAIN v.row)
  BY <1>1, <1>2, <1>3 DEF TablesTyped
<1>5. /\ Table(v.status, {"NEW"} \cup OpenStatuses \cup Terminal) /\ DOMAIN v.status \subseteq Orders
      /\ Table(v.filled, Nat) /\ Table(v.reserved, Nat)
  <2>1. Table(v.status, {"NEW"} \cup OpenStatuses \cup Terminal)
    BY <1>1, <1>2, OverTable DEF TablesTyped
  <2>2. DOMAIN v.status \subseteq Orders
    BY <1>1, <1>2 DEF TablesTyped, Over
  <2>3. Table(v.filled, Nat) /\ Table(v.reserved, Nat)
    BY <1>1, <1>2, OverTable DEF TablesTyped
  <2>. QED  BY <2>1, <2>2, <2>3
<1>6. \A o \in DOMAIN v.filled : o \in Orders /\ v.filled[o] <= Ask[o].qty
  <2>. TAKE o \in DOMAIN v.filled
  <2>1. o \in DOMAIN w.filled \/ o \in DOMAIN db.filled \ DOMAIN w.filled
    BY <1>2 DEF Over
  <2>. QED  BY <1>1, <1>2, <2>1 DEF TablesTyped, Over
<1>7. Table(v.fill, Nat) /\ Table(v.entry, Int) /\ Table(v.lot, Nat) /\ Table(v.row, Nat)
  BY <1>1, <1>2, OverTable DEF TablesTyped
<1>8. DOMAIN v.lot \subseteq Nat \X Nat /\ DOMAIN v.row \subseteq Nat
  BY <1>1, <1>2 DEF TablesTyped, Over
<1>9. TablesTyped(v)
  BY <1>2, <1>4, <1>5, <1>6, <1>7, <1>8 DEF TablesTyped
<1>. QED  BY <1>9 DEF v

\* What a session may commit: rows of orders that are whole.
LEMMA CommitWhole ==
  ASSUME Shape, NEW s \in Sessions, Commit(s)
  PROVE  /\ RowsWhole(View(s))
         /\ DOMAIN db.status \subseteq DOMAIN View(s).status
         /\ DOMAIN View(s).status \subseteq DOMAIN db.status \cup {s}
<1>. DEFINE v == View(s)
            w == own[s]
<1>1. /\ v.status = Over(w.status, db.status) /\ v.filled = Over(w.filled, db.filled)
      /\ v.reserved = Over(w.reserved, db.reserved)
  BY ViewIs
<1>2. RowsWhole(db)
  BY DEF Shape
<1>. HIDE DEF v, w
<1>3. /\ DOMAIN v.status = DOMAIN w.status \cup DOMAIN db.status
      /\ DOMAIN v.filled = DOMAIN w.filled \cup DOMAIN db.filled
      /\ DOMAIN v.reserved = DOMAIN w.reserved \cup DOMAIN db.reserved
      /\ \A o \in DOMAIN w.status : v.status[o] = w.status[o]
      /\ \A o \in DOMAIN db.status \ DOMAIN w.status : v.status[o] = db.status[o]
  BY <1>1 DEF Over
<1>4. CASE s \in Placing
  <2>1. PlacerOK(s, db, w, pc[s]) /\ pc[s] \in {"commit", "turn"}
    BY <1>4 DEF Shape, Commit, w
  <2>. QED  BY <1>2, <1>3, <2>1 DEF PlacerOK, RowsWhole, v
<1>5. CASE s \in Cancellers
  <2>1. CancellerOK(db, w, pc[s], mem[s])
    BY <1>5 DEF Shape, w
  <2>. QED  BY <1>2, <1>3, <2>1 DEF CancellerOK, RowsWhole, v
<1>6. CASE s \in Matchers
  <2>1. MatcherOK(db, w, pc[s], mem[s])
    BY <1>6 DEF Shape, w
  <2>. QED  BY <1>2, <1>3, <2>1 DEF MatcherOK, RowsWhole, v
<1>. QED  BY <1>4, <1>5, <1>6 DEF Sessions

\* A commit.
LEMMA CommitShape ==
  ASSUME Shape, NEW s \in Sessions, Commit(s)
  PROVE  Shape'
<1>1. db' = View(s) /\ Close(s)
  BY DEF Commit
<1>. QED  BY <1>1, ViewTyped, CommitWhole, CloseShape

-----------------------------------------------------------------------------
(* Steps that only write the session's own tables. *)

\* Nothing is committed in such a step.
LEMMA OwnStep ==
  ASSUME Shape, NEW s \in Sessions, Alone(s), db' = db,
         TablesTyped(own'[s]), DOMAIN mem'[s] = DOMAIN Blank,
         s \in Placing => PlacerOK(s, db, own'[s], pc'[s]),
         s \in Cancellers => CancellerOK(db, own'[s], pc'[s], mem'[s]),
         s \in Matchers => MatcherOK(db, own'[s], pc'[s], mem'[s])
  PROVE  Shape'
<1>1. TablesTyped(db) /\ RowsWhole(db)
  BY DEF Shape
<1>. QED  BY <1>1, StepOfOne

\* Where a session goes on, and what it writes on the way.
LEMMA GoesOn ==
  ASSUME Shape, NEW s \in Sessions, NEW next, NEW r, Goes(s, next, r),
         NEW w, own' = [own EXCEPT ![s] = w]
  PROVE  /\ Alone(s) /\ db' = db
         /\ own'[s] = w /\ pc'[s] = next /\ mem'[s] = r
BY DEF Shape, Goes, Alone

\* Where it goes on without writing anything.
LEMMA GoesOnly ==
  ASSUME Shape, NEW s \in Sessions, NEW next, NEW r, Goes(s, next, r), UNCHANGED own
  PROVE  /\ Alone(s) /\ db' = db
         /\ own'[s] = own[s] /\ pc'[s] = next /\ mem'[s] = r /\ TablesTyped(own[s])
BY DEF Shape, Goes, Alone

\* A pass goes on.
LEMMA MatcherGoes ==
  ASSUME Shape, NEW m \in Matchers, Alone(m), db' = db,
         TablesTyped(own'[m]), DOMAIN mem'[m] = DOMAIN Blank,
         MatcherOK(db, own'[m], pc'[m], mem'[m])
  PROVE  Shape'
<1>1. m \in Sessions /\ m \notin Placing /\ m \notin Cancellers
  BY SessionsAreApart DEF Sessions
<1>. QED  BY <1>1, OwnStep

\* What a pass is about to do is to the order whose turn it is.
LEMMA MatcherIs ==
  ASSUME Shape, NEW m \in Matchers
  PROVE  /\ m \in Sessions /\ TablesTyped(own[m]) /\ DOMAIN mem[m] = DOMAIN Blank
         /\ MatcherOK(db, own[m], pc[m], mem[m])
         /\ Turn(m) = First(mem[m].todo)
         /\ mem[m].todo # {} =>
              /\ Turn(m) \in mem[m].todo /\ Turn(m) \in DOMAIN mem[m].loaded
              /\ Turn(m) \in DOMAIN db.status /\ Turn(m) \in Orders
              /\ Left(m) = Ask[Turn(m)].qty - mem[m].loaded[Turn(m)].filled
              /\ Left(m) \in Nat
<1>1. /\ m \in Sessions /\ TablesTyped(own[m]) /\ DOMAIN mem[m] = DOMAIN Blank
      /\ MatcherOK(db, own[m], pc[m], mem[m])
  BY DEF Shape, Sessions
<1>2. Turn(m) = First(mem[m].todo)
  BY DEF Turn, First
<1>3. ASSUME mem[m].todo # {}
      PROVE  /\ Turn(m) \in mem[m].todo /\ Turn(m) \in DOMAIN mem[m].loaded
             /\ Turn(m) \in DOMAIN db.status /\ Turn(m) \in Orders
             /\ Left(m) = Ask[Turn(m)].qty - mem[m].loaded[Turn(m)].filled
             /\ Left(m) \in Nat
  <2>1. /\ mem[m].todo \subseteq DOMAIN mem[m].loaded
        /\ DOMAIN mem[m].loaded \subseteq DOMAIN db.status
        /\ \A o \in DOMAIN mem[m].loaded :
             mem[m].loaded[o].filled \in Nat /\ mem[m].loaded[o].filled <= Ask[o].qty
    BY <1>1 DEF MatcherOK
  <2>2. DOMAIN db.status \subseteq Orders /\ Orders \subseteq Nat
    BY SessionsAssumption DEF Shape, TablesTyped
  <2>3. Turn(m) \in mem[m].todo
    BY <1>3, <2>1, <2>2, TurnIsLeft
  <2>4. Ask[Turn(m)].qty \in Nat
    BY <2>1, <2>2, <2>3, SessionsAssumption
  <2>. QED  BY <2>1, <2>2, <2>3, <2>4 DEF Left
<1>. QED  BY <1>1, <1>2, <1>3

\* A pass begins with the orders that are open.
LEMMA BeginPassShape ==
  ASSUME Shape, NEW m \in Matchers, BeginPass(m)
  PROVE  Shape'
<1>. DEFINE open == OpenOrders(db)
            loaded == [o \in open |-> [status |-> db.status[o], filled |-> db.filled[o],
                                       reserved |-> db.reserved[o]]]
            r == [mem[m] EXCEPT !.todo = open, !.loaded = loaded]
<1>1. /\ m \in Sessions /\ TablesTyped(own[m]) /\ DOMAIN mem[m] = DOMAIN Blank
      /\ MatcherOK(db, own[m], pc[m], mem[m])
  BY MatcherIs
<1>2. /\ open \subseteq DOMAIN db.status /\ \A o \in open : db.status[o] \in OpenStatuses
      /\ \A o \in open : db.filled[o] \in Nat /\ db.reserved[o] \in Nat /\ db.filled[o] <= Ask[o].qty
  BY DEF OpenOrders, Shape, TablesTyped, RowsWhole, Table
<1>3. /\ mem' = [mem EXCEPT ![m] = r] /\ pc' = [pc EXCEPT ![m] = "turn"] /\ UNCHANGED <<db, own>>
  BY DEF BeginPass
<1>4. /\ DOMAIN r = DOMAIN Blank /\ r.todo = open /\ r.loaded = loaded
      /\ r.qty = mem[m].qty /\ r.row = mem[m].row
  BY <1>1, BlankIs
<1>5. Alone(m) /\ own'[m] = own[m] /\ pc'[m] = "turn" /\ mem'[m] = r
  BY <1>1, <1>3 DEF Shape, Alone
<1>6. DOMAIN loaded = open /\ \A o \in open : /\ loaded[o].status = db.status[o]
                                             /\ loaded[o].filled = db.filled[o]
                                             /\ loaded[o].reserved = db.reserved[o]
  OBVIOUS
<1>. HIDE DEF open, loaded, r
<1>7. MatcherOK(db, own[m], "turn", r)
  BY <1>1, <1>2, <1>4, <1>6 DEF MatcherOK, Filling
<1>. QED  BY <1>1, <1>3, <1>4, <1>5, <1>7, MatcherGoes

\* An order the quote does not fill is left alone.
LEMMA RestOrderShape ==
  ASSUME Shape, NEW m \in Matchers, RestOrder(m)
  PROVE  Shape'
<1>. DEFINE r == [mem[m] EXCEPT !.todo = mem[m].todo \ {Turn(m)}]
<1>1. /\ m \in Sessions /\ TablesTyped(own[m]) /\ DOMAIN mem[m] = DOMAIN Blank
      /\ MatcherOK(db, own[m], pc[m], mem[m])
  BY MatcherIs
<1>2. Goes(m, "turn", r) /\ UNCHANGED own
  BY DEF RestOrder
<1>3. /\ DOMAIN r = DOMAIN Blank /\ r.todo \subseteq mem[m].todo /\ r.loaded = mem[m].loaded
      /\ r.qty = mem[m].qty /\ r.row = mem[m].row
  BY <1>1, BlankIs
<1>. HIDE DEF r
<1>4. MatcherOK(db, own[m], "turn", r)
  BY <1>1, <1>3 DEF MatcherOK, Filling
<1>. QED  BY <1>1, <1>2, <1>3, <1>4, GoesOnly, MatcherGoes

\* What cash and positions come to.
LEMMA BooksAreNumbers ==
  ASSUME NEW v, TablesTyped(v)
  PROVE  /\ Cash(v) \in Int
         /\ OpenRow(v) \in Nat /\ OpenQty(v) \in Nat
         /\ OpenRow(v) # 0 => OpenRow(v) \in DOMAIN v.row /\ OpenQty(v) = v.row[OpenRow(v)]
         /\ \A r : IsFiniteSet(Lots(v, r)) /\ LotsOpen(v, r) \in Nat
<1>1. Cash(v) \in Int
  <2>1. IsFiniteSet(DOMAIN v.entry) /\ \A k \in DOMAIN v.entry : v.entry[k] \in Int
    BY DEF TablesTyped, Table
  <2>2. DOMAIN Paid(v) = DOMAIN v.entry /\ \A k \in DOMAIN v.entry : Paid(v)[k] \in Int
    BY <2>1 DEF Paid
  <2>3. Sum(v.entry, DOMAIN v.entry) \in Nat /\ Sum(Paid(v), DOMAIN v.entry) \in Nat
    BY <2>1, <2>2, SumNat
  <2>. QED  BY <2>3, SessionsAssumption DEF Cash
<1>2. /\ OpenRow(v) \in Nat /\ OpenQty(v) \in Nat
      /\ OpenRow(v) # 0 => OpenRow(v) \in DOMAIN v.row /\ OpenQty(v) = v.row[OpenRow(v)]
  <2>1. DOMAIN v.row \subseteq Nat /\ \A r \in DOMAIN v.row : v.row[r] \in Nat
    BY DEF TablesTyped, Table
  <2>2. OpenRow(v) = 0 \/ OpenRow(v) \in DOMAIN v.row
    BY DEF OpenRow
  <2>. QED  BY <2>1, <2>2 DEF OpenQty
<1>3. ASSUME NEW r
      PROVE  IsFiniteSet(Lots(v, r)) /\ LotsOpen(v, r) \in Nat
  <2>1. /\ IsFiniteSet(DOMAIN v.lot) /\ Lots(v, r) \subseteq DOMAIN v.lot
        /\ \A l \in DOMAIN v.lot : v.lot[l] \in Int
    BY DEF TablesTyped, Table, Lots
  <2>2. IsFiniteSet(Lots(v, r))
    BY <2>1, FS_Subset
  <2>3. Sum(v.lot, Lots(v, r)) \in Nat
    BY <2>1, <2>2, SumNat
  <2>. QED  BY <2>2, <2>3 DEF LotsOpen
<1>. QED  BY <1>1, <1>2, <1>3

\* An order is filled with no more than it has left, and no more than there is.
LEMMA ExecutableFits ==
  ASSUME Shape, NEW m \in Matchers, mem[m].todo # {}
  PROVE  /\ Executable(m) \in Nat /\ Executable(m) <= Left(m)
         /\ Executable(m) > 0 /\ Ask[Turn(m)].side = "BUY" => Executable(m) <= Cash(View(m))
         /\ Executable(m) > 0 /\ Ask[Turn(m)].side # "BUY" => Executable(m) <= OpenQty(View(m))
<1>1. Left(m) \in Nat /\ m \in Sessions
  BY MatcherIs
<1>2. Cash(View(m)) \in Int /\ OpenQty(View(m)) \in Nat
  BY <1>1, ViewTyped, BooksAreNumbers
<1>. QED  BY <1>1, <1>2 DEF Executable, Minus, Smaller

\* A pass decides how much it fills.
LEMMA SizeOrderShape ==
  ASSUME Shape, NEW m \in Matchers, SizeOrder(m)
  PROVE  Shape'
<1>. DEFINE r == [mem[m] EXCEPT !.qty = Executable(m)]
            next == IF Executable(m) > 0 THEN "number" ELSE "finish"
<1>1. /\ m \in Sessions /\ TablesTyped(own[m]) /\ DOMAIN mem[m] = DOMAIN Blank
      /\ MatcherOK(db, own[m], pc[m], mem[m])
      /\ mem[m].todo # {} /\ Turn(m) = First(mem[m].todo)
      /\ Turn(m) \in DOMAIN mem[m].loaded /\ Turn(m) \in Orders
      /\ Left(m) = Ask[Turn(m)].qty - mem[m].loaded[Turn(m)].filled /\ Left(m) \in Nat
  BY MatcherIs DEF SizeOrder
<1>2. Goes(m, next, r) /\ UNCHANGED own /\ next \in Filling
  BY DEF SizeOrder, Filling
<1>3. /\ DOMAIN r = DOMAIN Blank /\ r.todo = mem[m].todo /\ r.loaded = mem[m].loaded
      /\ r.qty = Executable(m) /\ r.row = mem[m].row
  BY <1>1, BlankIs
<1>4. Executable(m) \in Nat /\ Executable(m) <= Left(m)
  BY <1>1, ExecutableFits
<1>. HIDE DEF r, next
<1>5. MatcherOK(db, own[m], next, r)
  <2>1. mem[m].loaded[Turn(m)].filled \in Nat /\ Ask[Turn(m)].qty \in Nat
    BY <1>1, SessionsAssumption DEF MatcherOK
  <2>2. mem[m].loaded[Turn(m)].filled + r.qty <= Ask[Turn(m)].qty
    BY <1>1, <1>3, <1>4, <2>1
  <2>3. r.loaded[First(r.todo)].filled + r.qty <= Ask[First(r.todo)].qty
    BY <1>1, <1>3, <2>2
  <2>. QED  BY <1>1, <1>2, <1>3, <1>4, <2>3 DEF MatcherOK
<1>. QED  BY <1>1, <1>2, <1>3, <1>5, GoesOnly, MatcherGoes

\* A pass numbers the fill.
LEMMA NumberFillShape ==
  ASSUME Shape, NEW m \in Matchers, NumberFill(m)
  PROVE  Shape'
<1>. DEFINE r == [mem[m] EXCEPT !.seq = Cardinality(Fills(View(m), Turn(m))) + 1]
<1>1. /\ m \in Sessions /\ TablesTyped(own[m]) /\ DOMAIN mem[m] = DOMAIN Blank
      /\ MatcherOK(db, own[m], pc[m], mem[m])
  BY MatcherIs
<1>2. Goes(m, "insert", r) /\ UNCHANGED own /\ pc[m] \in Filling
  BY DEF NumberFill, Filling
<1>3. /\ DOMAIN r = DOMAIN Blank /\ r.todo = mem[m].todo /\ r.loaded = mem[m].loaded
      /\ r.qty = mem[m].qty /\ r.row = mem[m].row
  BY <1>1, BlankIs
<1>. HIDE DEF r
<1>4. MatcherOK(db, own[m], "insert", r)
  BY <1>1, <1>2, <1>3 DEF MatcherOK, Filling
<1>. QED  BY <1>1, <1>2, <1>3, <1>4, GoesOnly, MatcherGoes

\* One more row leaves finitely many.
LEMMA WithFinite ==
  ASSUME NEW f, NEW k, NEW v, IsFiniteSet(DOMAIN f)
  PROVE  IsFiniteSet(DOMAIN With(f, k, v)) /\ DOMAIN With(f, k, v) = {k} \cup DOMAIN f
<1>1. DOMAIN With(f, k, v) = {k} \cup DOMAIN f /\ {k} \cup DOMAIN f = DOMAIN f \cup {k}
  BY DEF With
<1>. QED  BY <1>1, FS_AddElement

\* A pass rolls back.
LEMMA MatcherRolls ==
  ASSUME Shape, NEW m \in Matchers, Rollback(m)
  PROVE  Shape'
BY RollbackShape DEF Sessions

\* A fill is inserted, or its key is taken.
LEMMA InsertFillShape ==
  ASSUME Shape, NEW m \in Matchers, InsertFill(m)
  PROVE  Shape'
<1>. DEFINE key == <<Turn(m), mem[m].seq>>
            w == own[m]
            fill == With(w.fill, key, mem[m].qty)
            w2 == [w EXCEPT !.fill = fill]
<1>1. /\ m \in Sessions /\ TablesTyped(w) /\ DOMAIN mem[m] = DOMAIN Blank
      /\ MatcherOK(db, w, pc[m], mem[m])
  BY MatcherIs
<1>2. CASE key \in DOMAIN db.fill
  BY <1>2, MatcherRolls DEF InsertFill
<1>3. CASE key \notin DOMAIN db.fill
  <2>1. own' = [own EXCEPT ![m] = w2] /\ Goes(m, "settle", mem[m]) /\ pc[m] \in Filling
    BY <1>3 DEF InsertFill, Filling
  <2>2. Alone(m) /\ db' = db /\ own'[m] = w2 /\ pc'[m] = "settle" /\ mem'[m] = mem[m]
    <3>. HIDE DEF w, w2, fill, key
    <3>. QED  BY <1>1, <2>1, GoesOn
  <2>3. /\ DOMAIN w2 = DOMAIN w /\ w2.fill = fill
        /\ w2.status = w.status /\ w2.filled = w.filled /\ w2.reserved = w.reserved
        /\ w2.entry = w.entry /\ w2.lot = w.lot /\ w2.row = w.row
    BY <1>1 DEF TablesTyped, Tables
  <2>4. Table(fill, Nat) /\ IsFiniteSet(DOMAIN fill)
    BY <1>1, WithTable, WithFinite DEF TablesTyped, MatcherOK
  <2>. HIDE DEF w, w2, fill, key
  <2>5. TablesTyped(w2)
    BY <1>1, <2>3, <2>4 DEF TablesTyped
  <2>6. MatcherOK(db, w2, "settle", mem[m])
    BY <1>1, <2>1, <2>3 DEF MatcherOK, Filling
  <2>. QED  BY <1>1, <2>2, <2>5, <2>6, MatcherGoes
<1>. QED  BY <1>2, <1>3

\* A buy is paid for, or refused.
LEMMA SettleBuyShape ==
  ASSUME Shape, NEW m \in Matchers, SettleBuy(m)
  PROVE  Shape'
<1>. DEFINE w == own[m]
            entry == With(w.entry, <<Turn(m), mem[m].seq>>, 0 - mem[m].qty)
            w2 == [w EXCEPT !.entry = entry]
            r == [mem[m] EXCEPT !.row = OpenRow(View(m))]
<1>1. /\ m \in Sessions /\ TablesTyped(w) /\ DOMAIN mem[m] = DOMAIN Blank
      /\ MatcherOK(db, w, pc[m], mem[m])
  BY MatcherIs
<1>2. CASE Cash(View(m)) < mem[m].qty
  BY <1>2, MatcherRolls DEF SettleBuy
<1>3. CASE ~(Cash(View(m)) < mem[m].qty)
  <2>1. own' = [own EXCEPT ![m] = w2] /\ Goes(m, "project", r) /\ pc[m] \in Filling
    BY <1>3 DEF SettleBuy, Filling
  <2>2. Alone(m) /\ db' = db /\ own'[m] = w2 /\ pc'[m] = "project" /\ mem'[m] = r
    <3>. HIDE DEF w, w2, entry, r
    <3>. QED  BY <1>1, <2>1, GoesOn
  <2>3. /\ DOMAIN w2 = DOMAIN w /\ w2.entry = entry
        /\ w2.status = w.status /\ w2.filled = w.filled /\ w2.reserved = w.reserved
        /\ w2.fill = w.fill /\ w2.lot = w.lot /\ w2.row = w.row
    BY <1>1 DEF TablesTyped, Tables
  <2>4. /\ DOMAIN r = DOMAIN Blank /\ r.todo = mem[m].todo /\ r.loaded = mem[m].loaded
        /\ r.qty = mem[m].qty /\ r.row = OpenRow(View(m))
    BY <1>1, BlankIs
  <2>5. OpenRow(View(m)) \in Nat
    BY <1>1, ViewTyped, BooksAreNumbers
  <2>6. Table(entry, Int) /\ IsFiniteSet(DOMAIN entry)
    <3>1. 0 - mem[m].qty \in Int
      BY <1>1 DEF MatcherOK
    <3>. QED  BY <1>1, <3>1, WithTable, WithFinite DEF TablesTyped
  <2>. HIDE DEF w, w2, entry, r
  <2>7. TablesTyped(w2)
    BY <1>1, <2>3, <2>6 DEF TablesTyped
  <2>8. MatcherOK(db, w2, "project", r)
    BY <1>1, <2>1, <2>3, <2>4, <2>5 DEF MatcherOK, Filling
  <2>. QED  BY <1>1, <2>2, <2>4, <2>7, <2>8, MatcherGoes
<1>. QED  BY <1>2, <1>3

\* What a sale leaves of a lot.
LEMMA LeftOfIs ==
  ASSUME NEW m, mem[m].qty \in Nat, NEW v, TablesTyped(v), NEW l \in DOMAIN v.lot
  PROVE  LeftOf(m, v, l) \in Nat
<1>. DEFINE older == {k \in Lots(v, l[1]) : k[2] < l[2]}
<1>1. v.lot[l] \in Nat /\ older \subseteq DOMAIN v.lot /\ IsFiniteSet(DOMAIN v.lot)
  BY DEF TablesTyped, Table, Lots
<1>2. IsFiniteSet(older) /\ \A k \in older : v.lot[k] \in Int
  BY <1>1, FS_Subset DEF TablesTyped, Table
<1>3. Sum(v.lot, older) \in Nat
  BY <1>2, SumNat
<1>4. LeftOf(m, v, l) = Minus(v.lot[l], Minus(mem[m].qty, Sum(v.lot, older)))
  BY DEF LeftOf
<1>. QED  BY <1>1, <1>3, <1>4 DEF Minus

\* A sale takes from the lots of the open position, or is refused.
LEMMA SettleSellShape ==
  ASSUME Shape, NEW m \in Matchers, SettleSell(m)
  PROVE  Shape'
<1>. DEFINE v == View(m)
            w == own[m]
            touched == {l \in Lots(v, OpenRow(v)) : LeftOf(m, v, l) # v.lot[l]}
            left == [l \in touched |-> LeftOf(m, v, l)]
            lot == Over(left, w.lot)
            entry == With(w.entry, <<Turn(m), mem[m].seq>>, mem[m].qty)
            w2 == [w EXCEPT !.lot = lot, !.entry = entry]
            r == [mem[m] EXCEPT !.row = OpenRow(v)]
<1>1. /\ m \in Sessions /\ TablesTyped(w) /\ DOMAIN mem[m] = DOMAIN Blank
      /\ MatcherOK(db, w, pc[m], mem[m])
  BY MatcherIs
<1>2. CASE OpenRow(v) = 0 \/ LotsOpen(v, OpenRow(v)) < mem[m].qty
  BY <1>2, MatcherRolls DEF SettleSell
<1>3. CASE ~(OpenRow(v) = 0 \/ LotsOpen(v, OpenRow(v)) < mem[m].qty)
  <2>1. own' = [own EXCEPT ![m] = w2] /\ Goes(m, "project", r) /\ pc[m] \in Filling
    BY <1>3 DEF SettleSell, Filling
  <2>2. Alone(m) /\ db' = db /\ own'[m] = w2 /\ pc'[m] = "project" /\ mem'[m] = r
    <3>. HIDE DEF v, w, w2, entry, lot, r, touched, left
    <3>. QED  BY <1>1, <2>1, GoesOn
  <2>3. /\ DOMAIN w2 = DOMAIN w /\ w2.entry = entry /\ w2.lot = lot
        /\ w2.status = w.status /\ w2.filled = w.filled /\ w2.reserved = w.reserved
        /\ w2.fill = w.fill /\ w2.row = w.row
    BY <1>1 DEF TablesTyped, Tables
  <2>4. /\ DOMAIN r = DOMAIN Blank /\ r.todo = mem[m].todo /\ r.loaded = mem[m].loaded
        /\ r.qty = mem[m].qty /\ r.row = OpenRow(v)
    BY <1>1, BlankIs
  <2>5. TablesTyped(v)
    BY <1>1, ViewTyped
  <2>6. OpenRow(v) \in Nat
    BY <2>5, BooksAreNumbers
  <2>7. Table(entry, Int) /\ IsFiniteSet(DOMAIN entry)
    <3>1. mem[m].qty \in Int
      BY <1>1 DEF MatcherOK
    <3>. QED  BY <1>1, <3>1, WithTable, WithFinite DEF TablesTyped
  <2>8. Table(lot, Nat) /\ IsFiniteSet(DOMAIN lot) /\ DOMAIN lot \subseteq Nat \X Nat
    <3>1. /\ touched \subseteq DOMAIN v.lot /\ DOMAIN left = touched
          /\ \A l \in touched : left[l] = LeftOf(m, v, l)
      BY DEF Lots
    <3>2. \A l \in touched : left[l] \in Nat
      BY <1>1, <2>5, <3>1, LeftOfIs DEF MatcherOK
    <3>3. Table(left, Nat)
      BY <3>2 DEF Table
    <3>4. Table(lot, Nat)
      BY <1>1, <3>3, OverTable DEF TablesTyped
    <3>5. DOMAIN lot = touched \cup DOMAIN w.lot
      BY DEF Over
    <3>6. /\ IsFiniteSet(DOMAIN v.lot) /\ DOMAIN v.lot \subseteq Nat \X Nat
          /\ IsFiniteSet(DOMAIN w.lot) /\ DOMAIN w.lot \subseteq Nat \X Nat
      BY <1>1, <2>5 DEF TablesTyped
    <3>7. IsFiniteSet(touched)
      BY <3>1, <3>6, FS_Subset
    <3>. HIDE DEF touched, lot
    <3>8. IsFiniteSet(touched \cup DOMAIN w.lot)
      BY <3>6, <3>7, FS_Union
    <3>. QED  BY <3>1, <3>4, <3>5, <3>6, <3>8
  <2>. HIDE DEF v, w, w2, entry, lot, r
  <2>9. TablesTyped(w2)
    BY <1>1, <2>3, <2>7, <2>8 DEF TablesTyped
  <2>10. MatcherOK(db, w2, "project", r)
    BY <1>1, <2>1, <2>3, <2>4, <2>6 DEF MatcherOK, Filling
  <2>. QED  BY <1>1, <2>2, <2>4, <2>9, <2>10, MatcherGoes
<1>. QED  BY <1>2, <1>3

\* The ids of positions and lots there are, committed or not.
LEMMA KeysAre ==
  ASSUME Shape
  PROVE  /\ IsFiniteSet(Keys("row")) /\ Keys("row") \subseteq Nat
         /\ IsFiniteSet(Keys("lot")) /\ Keys("lot") \subseteq Nat \X Nat
         /\ \A s \in Sessions : /\ DOMAIN View(s).row \subseteq Keys("row")
                                /\ DOMAIN View(s).lot \subseteq Keys("lot")
<1>1. TablesTyped(db) /\ \A s \in Sessions : TablesTyped(own[s])
  BY DEF Shape
<1>2. ASSUME NEW t \in {"row", "lot"}
      PROVE  IsFiniteSet(Keys(t))
  <2>. DEFINE parts == {DOMAIN own[s][t] : s \in Sessions}
              part == [s \in Sessions |-> DOMAIN own[s][t]]
  <2>1. part \in Surjection(Sessions, parts)
    BY DEF Surjection
  <2>2. IsFiniteSet(parts)
    BY <2>1, SessionsAreApart, FS_Surjection
  <2>3. IsFiniteSet(DOMAIN db[t]) /\ \A T \in parts : IsFiniteSet(T)
    BY <1>1 DEF TablesTyped
  <2>4. IsFiniteSet(UNION parts)
    BY <2>2, <2>3, FS_UNION
  <2>5. Keys(t) = DOMAIN db[t] \cup UNION parts
    BY DEF Keys
  <2>. HIDE DEF parts
  <2>. QED  BY <2>3, <2>4, <2>5, FS_Union
<1>3. Keys("row") \subseteq Nat
  <2>1. \A s \in Sessions : DOMAIN own[s]["row"] \subseteq Nat
    BY <1>1 DEF TablesTyped
  <2>. QED  BY <1>1, <2>1 DEF Keys, TablesTyped
<1>4. Keys("lot") \subseteq Nat \X Nat
  <2>1. \A s \in Sessions : DOMAIN own[s]["lot"] \subseteq Nat \X Nat
    BY <1>1 DEF TablesTyped
  <2>2. DOMAIN db["lot"] \subseteq Nat \X Nat
    BY <1>1 DEF TablesTyped
  <2>3. \A k \in Keys("lot") : k \in DOMAIN db["lot"] \/ \E s \in Sessions : k \in DOMAIN own[s]["lot"]
    BY DEF Keys
  <2>. QED  BY <2>1, <2>2, <2>3
<1>5. ASSUME NEW s \in Sessions
      PROVE  DOMAIN View(s).row \subseteq Keys("row") /\ DOMAIN View(s).lot \subseteq Keys("lot")
  <2>1. DOMAIN View(s).row = DOMAIN own[s].row \cup DOMAIN db.row
    BY DEF View, Over, Tables
  <2>2. DOMAIN View(s).lot = DOMAIN own[s].lot \cup DOMAIN db.lot
    BY DEF View, Over, Tables
  <2>3. \A t : DOMAIN db[t] \subseteq Keys(t) /\ DOMAIN own[s][t] \subseteq Keys(t)
    BY DEF Keys
  <2>4. /\ DOMAIN db.row \subseteq Keys("row") /\ DOMAIN own[s].row \subseteq Keys("row")
        /\ DOMAIN db.lot \subseteq Keys("lot") /\ DOMAIN own[s].lot \subseteq Keys("lot")
    BY <2>3
  <2>. QED  BY <2>1, <2>2, <2>4
<1>. QED  BY <1>2, <1>3, <1>4, <1>5

\* The number of the next lot.
LEMMA NextLotIsNew ==
  ASSUME Shape
  PROVE  /\ NextId({l[2] : l \in Keys("lot")}) \in Nat \ {0}
         /\ \A l \in Keys("lot") : l[2] < NextId({k[2] : k \in Keys("lot")})
<1>. DEFINE S == Keys("lot")
            T == {l[2] : l \in S}
            f == [l \in S |-> l[2]]
<1>1. IsFiniteSet(S) /\ S \subseteq Nat \X Nat
  BY KeysAre
<1>. HIDE DEF S
<1>2. f \in Surjection(S, T)
  BY DEF Surjection
<1>3. IsFiniteSet(T) /\ T \subseteq Nat
  BY <1>1, <1>2, FS_Surjection
<1>4. NextId(T) \in Nat \ {0} /\ \A k \in T : k < NextId(T)
  BY <1>3, NextIdIsNew
<1>5. \A l \in S : l[2] \in T
  OBVIOUS
<1>. QED  BY <1>4, <1>5 DEF S

\* A pass brings a position in line with its lots.
LEMMA ProjectShape ==
  ASSUME Shape, NEW m \in Matchers, Project(m)
  PROVE  Shape'
<1>. DEFINE v == View(m)
            w == own[m]
            new == mem[m].row = 0
            id == IF new THEN NextId(Keys("row")) ELSE mem[m].row
            n == NextId({l[2] : l \in Keys("lot")})
            lots == IF Ask[Turn(m)].side = "BUY" THEN With(w.lot, <<id, n>>, mem[m].qty) ELSE w.lot
            seen == [v EXCEPT !.lot = LotsSeen(m, lots)]
            row == With(w.row, id, LotsOpen(seen, id))
            w2 == [w EXCEPT !.lot = lots, !.row = row]
<1>1. /\ m \in Sessions /\ TablesTyped(w) /\ DOMAIN mem[m] = DOMAIN Blank
      /\ MatcherOK(db, w, pc[m], mem[m])
  BY MatcherIs
<1>2. CASE new /\ OpenRow(v) # 0
  BY <1>2, MatcherRolls DEF Project
<1>3. CASE ~(new /\ OpenRow(v) # 0)
  <2>1. own' = [own EXCEPT ![m] = w2] /\ Goes(m, "finish", mem[m]) /\ pc[m] \in Filling
    BY <1>3 DEF Project, Filling
  <2>2. Alone(m) /\ db' = db /\ own'[m] = w2 /\ pc'[m] = "finish" /\ mem'[m] = mem[m]
    <3>. HIDE DEF w2
    <3>. QED  BY <1>1, <2>1, GoesOn
  <2>3. /\ DOMAIN w2 = DOMAIN w /\ w2.lot = lots /\ w2.row = row
        /\ w2.status = w.status /\ w2.filled = w.filled /\ w2.reserved = w.reserved
        /\ w2.fill = w.fill /\ w2.entry = w.entry
    BY <1>1 DEF TablesTyped, Tables
  <2>4. id \in Nat /\ n \in Nat
    <3>1. NextId(Keys("row")) \in Nat
      BY KeysAre, NextIdIsNew
    <3>2. n \in Nat
      BY NextLotIsNew
    <3>. QED  BY <1>1, <3>1, <3>2 DEF MatcherOK
  <2>. HIDE DEF id, n
  <2>5. mem[m].qty \in Nat /\ TablesTyped(v) /\ DOMAIN w.lot \subseteq Nat \X Nat
    BY <1>1, ViewTyped DEF MatcherOK, TablesTyped
  <2>6. Table(lots, Nat) /\ IsFiniteSet(DOMAIN lots) /\ DOMAIN lots \subseteq Nat \X Nat
    <3>1. CASE Ask[Turn(m)].side = "BUY"
      <4>1. lots = With(w.lot, <<id, n>>, mem[m].qty)
        BY <3>1
      <4>2. Table(w.lot, Nat) /\ IsFiniteSet(DOMAIN w.lot)
        BY <1>1 DEF TablesTyped
      <4>. HIDE DEF lots
      <4>3. Table(lots, Nat)
        BY <2>5, <4>1, <4>2, WithTable
      <4>4. IsFiniteSet(DOMAIN lots) /\ DOMAIN lots = {<<id, n>>} \cup DOMAIN w.lot
        BY <4>1, <4>2, WithFinite
      <4>. QED  BY <2>4, <2>5, <4>3, <4>4
    <3>2. CASE Ask[Turn(m)].side # "BUY"
      BY <1>1, <3>2 DEF TablesTyped
    <3>. QED  BY <3>1, <3>2
  <2>. HIDE DEF lots
  <2>7. TablesTyped(seen)
    <3>1. /\ DOMAIN seen = DOMAIN v /\ seen.lot = Over(lots, db.lot)
          /\ seen.status = v.status /\ seen.filled = v.filled /\ seen.reserved = v.reserved
          /\ seen.fill = v.fill /\ seen.entry = v.entry /\ seen.row = v.row
      BY <2>5 DEF LotsSeen, TablesTyped, Tables
    <3>2. TablesTyped(db)
      BY DEF Shape
    <3>3. Table(Over(lots, db.lot), Nat)
      BY <2>6, <3>2, OverTable DEF TablesTyped
    <3>4. IsFiniteSet(DOMAIN Over(lots, db.lot)) /\ DOMAIN Over(lots, db.lot) \subseteq Nat \X Nat
      BY <2>6, <3>2, FS_Union DEF TablesTyped, Over
    <3>. HIDE DEF v, seen
    <3>. QED  BY <2>5, <3>1, <3>3, <3>4 DEF TablesTyped
  <2>. HIDE DEF v, seen
  <2>8. LotsOpen(seen, id) \in Nat
    BY <2>7, BooksAreNumbers
  <2>9. Table(row, Nat) /\ IsFiniteSet(DOMAIN row) /\ DOMAIN row \subseteq Nat
    <3>1. Table(w.row, Nat) /\ IsFiniteSet(DOMAIN w.row) /\ DOMAIN w.row \subseteq Nat
      BY <1>1 DEF TablesTyped
    <3>2. Table(row, Nat)
      BY <2>8, <3>1, WithTable
    <3>3. IsFiniteSet(DOMAIN row) /\ DOMAIN row = {id} \cup DOMAIN w.row
      BY <3>1, WithFinite
    <3>. HIDE DEF row
    <3>. QED  BY <2>4, <3>1, <3>2, <3>3
  <2>. HIDE DEF w, w2, row
  <2>10. TablesTyped(w2)
    BY <1>1, <2>3, <2>6, <2>9 DEF TablesTyped
  <2>11. MatcherOK(db, w2, "finish", mem[m])
    BY <1>1, <2>1, <2>3 DEF MatcherOK, Filling
  <2>. QED  BY <1>1, <2>2, <2>10, <2>11, MatcherGoes
<1>. QED  BY <1>2, <1>3

\* A column that differs is written, another is not.
LEMMA PutTable ==
  ASSUME NEW V, NEW f, NEW k, NEW new, NEW old, Table(f, V), new \in V
  PROVE  /\ Table(Put(f, k, new, old), V)
         /\ DOMAIN Put(f, k, new, old) \subseteq DOMAIN f \cup {k}
         /\ \A x \in DOMAIN Put(f, k, new, old) :
              Put(f, k, new, old)[x] = IF x = k /\ new # old THEN new ELSE f[x]
<1>1. Put(f, k, new, old) = IF new = old THEN f ELSE With(f, k, new)
  BY DEF Put
<1>2. Table(With(f, k, new), V)
  BY WithTable
<1>. QED  BY <1>1, <1>2 DEF With

\* What a pass writes of the order it is done with.
Finished(m, status, filled, reserved) ==
  LET o == Turn(m)
      was == mem[m].loaded[o]
  IN  [own[m] EXCEPT !.status = Put(own[m].status, o, status, was.status),
                     !.filled = Put(own[m].filled, o, filled, was.filled),
                     !.reserved = Put(own[m].reserved, o, reserved, was.reserved)]

\* It fills no more than was asked, and all of it when it says so.
LEMMA FinishFits ==
  ASSUME Shape, NEW m \in Matchers, FinishOrder(m)
  PROVE  \E status \in {"EXPIRED", "FILLED", "PARTIALLY_FILLED"}, filled \in Nat, reserved \in Nat :
           /\ filled = mem[m].loaded[Turn(m)].filled + mem[m].qty /\ filled <= Ask[Turn(m)].qty
           /\ status = "FILLED" => filled = Ask[Turn(m)].qty
           /\ own' = [own EXCEPT ![m] = Finished(m, status, filled, reserved)]
<1>. DEFINE o == Turn(m)
            was == mem[m].loaded[o]
            filled == was.filled + mem[m].qty
            status == IF mem[m].qty = 0 THEN "EXPIRED"
                      ELSE IF filled >= Ask[o].qty THEN "FILLED" ELSE "PARTIALLY_FILLED"
            reserved == IF status \in Terminal THEN 0 ELSE Minus(was.reserved, mem[m].qty)
<1>1. /\ MatcherOK(db, own[m], pc[m], mem[m]) /\ o = First(mem[m].todo)
      /\ o \in DOMAIN mem[m].loaded /\ o \in Orders /\ pc[m] \in Filling
  BY MatcherIs DEF FinishOrder, Filling, MatcherOK
<1>2. /\ was.filled \in Nat /\ was.reserved \in Nat /\ mem[m].qty \in Nat /\ Ask[o].qty \in Nat
      /\ filled <= Ask[o].qty
  BY <1>1, SessionsAssumption DEF MatcherOK
<1>3. filled \in Nat /\ reserved \in Nat /\ status \in {"EXPIRED", "FILLED", "PARTIALLY_FILLED"}
  BY <1>2 DEF Minus
<1>4. status = "FILLED" => filled = Ask[o].qty
  BY <1>2
<1>5. own' = [own EXCEPT ![m] = Finished(m, status, filled, reserved)]
  BY DEF FinishOrder, Finished
<1>. HIDE DEF status, reserved
<1>. QED  BY <1>2, <1>3, <1>4, <1>5

\* A pass is done with an order.
LEMMA FinishOrderShape ==
  ASSUME Shape, NEW m \in Matchers, FinishOrder(m)
  PROVE  Shape'
<1>. DEFINE o == Turn(m)
            was == mem[m].loaded[o]
            w == own[m]
            r == [mem[m] EXCEPT !.todo = @ \ {o}, !.qty = 0, !.seq = 0, !.row = 0]
<1>1. PICK status \in {"EXPIRED", "FILLED", "PARTIALLY_FILLED"}, filled \in Nat, reserved \in Nat :
        filled <= Ask[o].qty /\ own' = [own EXCEPT ![m] = Finished(m, status, filled, reserved)]
  BY FinishFits
<1>. DEFINE S == Put(w.status, o, status, was.status)
            F == Put(w.filled, o, filled, was.filled)
            R == Put(w.reserved, o, reserved, was.reserved)
            w2 == [w EXCEPT !.status = S, !.filled = F, !.reserved = R]
<1>2. /\ m \in Sessions /\ TablesTyped(w) /\ DOMAIN mem[m] = DOMAIN Blank
      /\ MatcherOK(db, w, pc[m], mem[m])
      /\ o \in DOMAIN db.status /\ o \in Orders
  BY MatcherIs DEF FinishOrder, MatcherOK, Filling
<1>3. own' = [own EXCEPT ![m] = w2]
  BY <1>1 DEF Finished
<1>4. Goes(m, "turn", r)
  BY DEF FinishOrder
<1>5. Alone(m) /\ db' = db /\ own'[m] = w2 /\ pc'[m] = "turn" /\ mem'[m] = r
  <2>. HIDE DEF w2, r
  <2>. QED  BY <1>2, <1>3, <1>4, GoesOn
<1>6. /\ DOMAIN w2 = DOMAIN w /\ w2.status = S /\ w2.filled = F /\ w2.reserved = R
      /\ w2.fill = w.fill /\ w2.entry = w.entry /\ w2.lot = w.lot /\ w2.row = w.row
  BY <1>2 DEF TablesTyped, Tables
<1>7. /\ DOMAIN r = DOMAIN Blank /\ r.todo \subseteq mem[m].todo /\ r.loaded = mem[m].loaded
      /\ r.qty = 0 /\ r.row = 0
  BY <1>2, BlankIs
<1>. HIDE DEF r
<1>8. /\ Table(S, {"NEW"} \cup OpenStatuses \cup Terminal)
      /\ DOMAIN S \subseteq DOMAIN w.status \cup {o}
      /\ \A x \in DOMAIN S : S[x] = status \/ (x \in DOMAIN w.status /\ S[x] = w.status[x])
  <2>1. status \in {"NEW"} \cup OpenStatuses \cup Terminal
    BY DEF OpenStatuses, Terminal
  <2>2. Table(w.status, {"NEW"} \cup OpenStatuses \cup Terminal)
    BY <1>2 DEF TablesTyped
  <2>3. Table(S, {"NEW"} \cup OpenStatuses \cup Terminal)
    BY <2>1, <2>2, WithTable DEF Put
  <2>4. CASE S = w.status
    BY <2>3, <2>4
  <2>5. CASE S = With(w.status, o, status)
    <3>1. /\ DOMAIN S = {o} \cup DOMAIN w.status
          /\ \A x \in DOMAIN S : S[x] = IF x = o THEN status ELSE w.status[x]
      BY <2>5 DEF With
    <3>. QED  BY <2>3, <3>1
  <2>. QED  BY <2>4, <2>5 DEF Put
<1>9. /\ Table(F, Nat) /\ DOMAIN F \subseteq DOMAIN w.filled \cup {o}
      /\ \A x \in DOMAIN F : (x = o /\ F[x] = filled) \/ (x \in DOMAIN w.filled /\ F[x] = w.filled[x])
  <2>1. Table(w.filled, Nat)
    BY <1>2 DEF TablesTyped
  <2>2. Table(F, Nat)
    BY <2>1, WithTable DEF Put
  <2>3. CASE F = w.filled
    BY <2>2, <2>3
  <2>4. CASE F = With(w.filled, o, filled)
    <3>1. /\ DOMAIN F = {o} \cup DOMAIN w.filled
          /\ \A x \in DOMAIN F : F[x] = IF x = o THEN filled ELSE w.filled[x]
      BY <2>4 DEF With
    <3>. QED  BY <2>2, <3>1
  <2>. QED  BY <2>3, <2>4 DEF Put
<1>10. Table(R, Nat) /\ DOMAIN R \subseteq DOMAIN w.reserved \cup {o}
  <2>1. Table(w.reserved, Nat)
    BY <1>2 DEF TablesTyped
  <2>2. Table(R, Nat)
    BY <2>1, WithTable DEF Put
  <2>. QED  BY <2>2 DEF Put, With
<1>. HIDE DEF S, F, R, w, w2, o, was
<1>11. TablesTyped(w2)
  BY <1>1, <1>2, <1>6, <1>8, <1>9, <1>10 DEF TablesTyped
<1>12. MatcherOK(db, w2, "turn", r)
  <2>1. /\ DOMAIN w2.status \subseteq DOMAIN db.status /\ DOMAIN w2.filled \subseteq DOMAIN db.status
        /\ DOMAIN w2.reserved \subseteq DOMAIN db.status
    BY <1>2, <1>6, <1>8, <1>9, <1>10 DEF MatcherOK
  <2>2. \A x \in DOMAIN w2.status : w2.status[x] # "NEW"
    BY <1>2, <1>6, <1>8 DEF MatcherOK
  <2>. QED  BY <1>2, <1>7, <2>1, <2>2 DEF MatcherOK, Filling
<1>. QED  BY <1>2, <1>5, <1>7, <1>11, <1>12, MatcherGoes DEF w

-----------------------------------------------------------------------------
(* Requests. *)

\* A request that places an order goes on.
LEMMA PlacerGoes ==
  ASSUME Shape, NEW p \in Placing, Alone(p), db' = db,
         TablesTyped(own'[p]), DOMAIN mem'[p] = DOMAIN Blank,
         PlacerOK(p, db, own'[p], pc'[p])
  PROVE  Shape'
<1>1. p \in Sessions /\ p \notin Matchers /\ p \notin Cancellers
  BY SessionsAreApart DEF Sessions
<1>. QED  BY <1>1, OwnStep

\* What a request that places an order is about.
LEMMA PlacerIs ==
  ASSUME Shape, NEW p \in Placing
  PROVE  /\ p \in Sessions /\ p \in Orders /\ TablesTyped(own[p]) /\ DOMAIN mem[p] = DOMAIN Blank
         /\ PlacerOK(p, db, own[p], pc[p])
BY SessionsAssumption DEF Shape, Sessions

\* The steps of such a request.
LEMMA PlacerShape ==
  ASSUME Shape, NEW p \in Placing, PlacerStep(p)
  PROVE  Shape'
<1>. DEFINE w == own[p]
<1>1. /\ p \in Sessions /\ p \in Orders /\ TablesTyped(w) /\ DOMAIN mem[p] = DOMAIN Blank
      /\ PlacerOK(p, db, w, pc[p])
  BY PlacerIs
<1>2. CASE Deduplicate(p)
  <2>. DEFINE next == IF \E o \in DOMAIN db.status : SameClient(o, p) THEN "done" ELSE "insert"
  <2>1. Goes(p, next, mem[p]) /\ UNCHANGED own /\ next \in {"done", "insert"} /\ pc[p] = "start"
    BY <1>2 DEF Deduplicate
  <2>. HIDE DEF next
  <2>2. Alone(p) /\ db' = db /\ own'[p] = w /\ pc'[p] = next /\ mem'[p] = mem[p]
    BY <1>1, <2>1, GoesOnly
  <2>3. PlacerOK(p, db, w, next)
    BY <1>1, <2>1 DEF PlacerOK
  <2>. QED  BY <1>1, <2>2, <2>3, PlacerGoes
<1>3. CASE InsertOrder(p)
  <2>1. CASE Taken(p)
    BY <1>1, <1>3, <2>1, RollbackShape DEF InsertOrder
  <2>2. CASE ~Taken(p)
    <3>. DEFINE S == With(w.status, p, "NEW")
                F == With(w.filled, p, 0)
                R == With(w.reserved, p, 0)
                w2 == [w EXCEPT !.status = S, !.filled = F, !.reserved = R]
    <3>1. own' = [own EXCEPT ![p] = w2] /\ Goes(p, "read", mem[p]) /\ pc[p] = "insert"
      BY <1>3, <2>2 DEF InsertOrder
    <3>2. Alone(p) /\ db' = db /\ own'[p] = w2 /\ pc'[p] = "read" /\ mem'[p] = mem[p]
      <4>. HIDE DEF w2
      <4>. QED  BY <1>1, <3>1, GoesOn
    <3>3. /\ DOMAIN w2 = DOMAIN w /\ w2.status = S /\ w2.filled = F /\ w2.reserved = R
          /\ w2.fill = w.fill /\ w2.entry = w.entry /\ w2.lot = w.lot /\ w2.row = w.row
      BY <1>1 DEF TablesTyped, Tables
    <3>4. Table(S, {"NEW"} \cup OpenStatuses \cup Terminal) /\ Table(F, Nat) /\ Table(R, Nat)
      BY <1>1, WithTable DEF TablesTyped
    <3>5. /\ DOMAIN S = {p} /\ DOMAIN F = {p} /\ DOMAIN R = {p} /\ F[p] = 0
      BY <1>1, <3>1 DEF PlacerOK, With
    <3>6. 0 <= Ask[p].qty
      BY <1>1, SessionsAssumption
    <3>. HIDE DEF w, w2, S, F, R
    <3>7. TablesTyped(w2)
      BY <1>1, <3>3, <3>4, <3>5, <3>6 DEF TablesTyped
    <3>8. PlacerOK(p, db, w2, "read")
      BY <1>1, <3>1, <3>3, <3>5 DEF PlacerOK, NoTrades
    <3>. QED  BY <1>1, <3>2, <3>7, <3>8, PlacerGoes
  <2>. QED  BY <2>1, <2>2
<1>4. CASE ReadHeld(p)
  <2>. DEFINE r == [mem[p] EXCEPT !.held = IF Ask[p].side = "BUY" THEN Cash(View(p))
                                                                 ELSE OpenQty(View(p))]
  <2>1. Goes(p, "decide", r) /\ UNCHANGED own /\ pc[p] = "read" /\ DOMAIN r = DOMAIN Blank
    BY <1>1, <1>4 DEF ReadHeld
  <2>. HIDE DEF r
  <2>2. Alone(p) /\ db' = db /\ own'[p] = w /\ pc'[p] = "decide" /\ mem'[p] = r
    BY <1>1, <2>1, GoesOnly
  <2>3. PlacerOK(p, db, w, "decide")
    BY <1>1, <2>1 DEF PlacerOK
  <2>. QED  BY <1>1, <2>1, <2>2, <2>3, PlacerGoes
<1>5. CASE Decide(p)
  <2>1. PICK granted \in BOOLEAN :
          /\ own' = [own EXCEPT
               ![p].status = With(@, p, IF granted THEN "ACCEPTED" ELSE "REJECTED"),
               ![p].reserved = With(@, p, IF granted /\ Ask[p].side = "BUY" THEN Ask[p].qty ELSE 0)]
          /\ Goes(p, "commit", mem[p]) /\ pc[p] = "decide"
    <3>. DEFINE claimed == IF Ask[p].side = "BUY" THEN Reserved(View(p)) ELSE Committed(View(p))
                granted == Ask[p].qty + claimed <= mem[p].held
    <3>. SUFFICES ASSUME TRUE
                  PROVE  granted \in BOOLEAN
      BY <1>5 DEF Decide
    <3>. QED  OBVIOUS
  <2>. DEFINE s == IF granted THEN "ACCEPTED" ELSE "REJECTED"
              k == IF granted /\ Ask[p].side = "BUY" THEN Ask[p].qty ELSE 0
              S == With(w.status, p, s)
              R == With(w.reserved, p, k)
              w2 == [w EXCEPT !.status = S, !.reserved = R]
  <2>2. own' = [own EXCEPT ![p] = w2]
    BY <2>1
  <2>3. Alone(p) /\ db' = db /\ own'[p] = w2 /\ pc'[p] = "commit" /\ mem'[p] = mem[p]
    <3>. HIDE DEF w2
    <3>. QED  BY <1>1, <2>1, <2>2, GoesOn
  <2>4. /\ DOMAIN w2 = DOMAIN w /\ w2.status = S /\ w2.reserved = R /\ w2.filled = w.filled
        /\ w2.fill = w.fill /\ w2.entry = w.entry /\ w2.lot = w.lot /\ w2.row = w.row
    BY <1>1 DEF TablesTyped, Tables
  <2>5. s \in {"ACCEPTED", "REJECTED"} /\ k \in Nat
    BY <1>1, SessionsAssumption
  <2>. HIDE DEF s, k
  <2>6. Table(S, {"NEW"} \cup OpenStatuses \cup Terminal) /\ Table(R, Nat)
    <3>1. s \in {"NEW"} \cup OpenStatuses \cup Terminal
      BY <2>5 DEF OpenStatuses, Terminal
    <3>. QED  BY <1>1, <2>5, <3>1, WithTable DEF TablesTyped
  <2>7. DOMAIN S = {p} /\ DOMAIN R = {p} /\ S[p] = s
    BY <1>1, <2>1 DEF PlacerOK, With
  <2>. HIDE DEF w, w2, S, R
  <2>8. TablesTyped(w2)
    BY <1>1, <2>4, <2>6, <2>7 DEF TablesTyped
  <2>9. PlacerOK(p, db, w2, "commit")
    BY <1>1, <2>1, <2>4, <2>5, <2>7 DEF PlacerOK, NoTrades
  <2>. QED  BY <1>1, <2>1, <2>3, <2>8, <2>9, PlacerGoes
<1>. QED  BY <1>2, <1>3, <1>4, <1>5 DEF PlacerStep

\* The steps of a request that cancels one.
LEMMA CancellerShape ==
  ASSUME Shape, NEW c \in Cancellers, ReadOrder(c) \/ WriteCancel(c)
  PROVE  Shape'
<1>. DEFINE w == own[c]
<1>1. /\ c \in Sessions /\ TablesTyped(w) /\ DOMAIN mem[c] = DOMAIN Blank
      /\ CancellerOK(db, w, pc[c], mem[c]) /\ c \notin Matchers /\ c \notin Placing
  BY SessionsAreApart DEF Shape, Sessions
<1>2. CASE ReadOrder(c)
  <2>1. PICK o \in DOMAIN db.status :
          Goes(c, IF db.status[o] \in OpenStatuses THEN "write" ELSE "done",
            [mem[c] EXCEPT !.order = o, !.loaded = With(<< >>, o,
               [status |-> db.status[o], filled |-> db.filled[o], reserved |-> db.reserved[o]])])
    BY <1>2 DEF ReadOrder
  <2>. DEFINE next == IF db.status[o] \in OpenStatuses THEN "write" ELSE "done"
              r == [mem[c] EXCEPT !.order = o, !.loaded = With(<< >>, o,
                 [status |-> db.status[o], filled |-> db.filled[o], reserved |-> db.reserved[o]])]
  <2>2. Goes(c, next, r) /\ UNCHANGED own /\ next \in {"write", "done"} /\ pc[c] = "start"
    BY <1>2, <2>1 DEF ReadOrder
  <2>3. DOMAIN r = DOMAIN Blank /\ r.order = o
    BY <1>1, BlankIs
  <2>. HIDE DEF next, r
  <2>4. Alone(c) /\ db' = db /\ own'[c] = w /\ pc'[c] = next /\ mem'[c] = r
    BY <1>1, <2>2, GoesOnly
  <2>5. CancellerOK(db, w, next, r)
    BY <1>1, <2>2, <2>3 DEF CancellerOK
  <2>. QED  BY <1>1, <2>3, <2>4, <2>5, OwnStep
<1>3. CASE WriteCancel(c)
  <2>. DEFINE o == mem[c].order
              S == With(w.status, o, "CANCELED")
              R == Put(w.reserved, o, 0, mem[c].loaded[o].reserved)
              w2 == [w EXCEPT !.status = S, !.reserved = R]
  <2>1. own' = [own EXCEPT ![c] = w2] /\ Goes(c, "commit", mem[c]) /\ pc[c] = "write"
    BY <1>3 DEF WriteCancel
  <2>2. Alone(c) /\ db' = db /\ own'[c] = w2 /\ pc'[c] = "commit" /\ mem'[c] = mem[c]
    <3>. HIDE DEF w2
    <3>. QED  BY <1>1, <2>1, GoesOn
  <2>3. /\ DOMAIN w2 = DOMAIN w /\ w2.status = S /\ w2.reserved = R /\ w2.filled = w.filled
        /\ w2.fill = w.fill /\ w2.entry = w.entry /\ w2.lot = w.lot /\ w2.row = w.row
    BY <1>1 DEF TablesTyped, Tables
  <2>4. o \in DOMAIN db.status /\ DOMAIN db.status \subseteq Orders
    BY <1>1, <2>1 DEF CancellerOK, Shape, TablesTyped
  <2>5. /\ Table(S, {"NEW"} \cup OpenStatuses \cup Terminal)
        /\ DOMAIN S = {o} \cup DOMAIN w.status
        /\ \A x \in DOMAIN S : S[x] = "CANCELED"
    <3>1. "CANCELED" \in {"NEW"} \cup OpenStatuses \cup Terminal
      BY DEF Terminal
    <3>2. Table(S, {"NEW"} \cup OpenStatuses \cup Terminal)
      BY <1>1, <3>1, WithTable DEF TablesTyped
    <3>3. /\ DOMAIN S = {o} \cup DOMAIN w.status
          /\ \A x \in DOMAIN S : S[x] = IF x = o THEN "CANCELED" ELSE w.status[x]
      BY DEF With
    <3>. QED  BY <1>1, <3>2, <3>3 DEF CancellerOK
  <2>6. Table(R, Nat) /\ DOMAIN R \subseteq DOMAIN w.reserved \cup {o}
    <3>1. Table(w.reserved, Nat)
      BY <1>1 DEF TablesTyped
    <3>2. Table(R, Nat)
      BY <3>1, WithTable DEF Put
    <3>. QED  BY <3>2 DEF Put, With
  <2>. HIDE DEF w, w2, o, S, R
  <2>7. TablesTyped(w2)
    BY <1>1, <2>3, <2>4, <2>5, <2>6 DEF TablesTyped, CancellerOK
  <2>8. CancellerOK(db, w2, "commit", mem[c])
    BY <1>1, <2>3, <2>4, <2>5, <2>6 DEF CancellerOK, NoTrades
  <2>. QED  BY <1>1, <2>1, <2>2, <2>7, <2>8, OwnStep
<1>. QED  BY <1>2, <1>3

-----------------------------------------------------------------------------
(* The types. *)

\* The initial tables.
LEMMA InitTyped ==
  ASSUME Init
  PROVE  TablesTyped(db) /\ RowsWhole(db)
<1>. DEFINE S == Orders \ Placing
            lot == IF Held > 0 THEN With(<< >>, <<1, 1>>, Held) ELSE << >>
            row == IF Held > 0 THEN With(<< >>, 1, Held) ELSE << >>
<1>1. /\ db.status = [o \in S |-> "ACCEPTED"] /\ db.filled = [o \in S |-> 0]
      /\ db.reserved = [o \in S |-> IF Ask[o].side = "BUY" THEN Ask[o].qty ELSE 0]
      /\ db.lot = lot /\ db.row = row /\ db.fill = << >> /\ db.entry = << >> /\ DOMAIN db = Tables
  BY DEF Init, Nothing, Tables
<1>2. DOMAIN << >> = {} /\ IsFiniteSet({}) /\ \A V : Table(<< >>, V)
  BY FS_EmptySet DEF Table
<1>3. /\ Table(db.status, {"NEW"} \cup OpenStatuses \cup Terminal)
      /\ Table(db.filled, Nat) /\ Table(db.reserved, Nat)
  <2>1. "ACCEPTED" \in {"NEW"} \cup OpenStatuses \cup Terminal /\ \A o \in S : Ask[o].qty \in Nat
    BY SessionsAssumption DEF OpenStatuses
  <2>. QED  BY <1>1, <2>1 DEF Table
<1>4. \A o \in S : o \in Orders /\ 0 <= Ask[o].qty
  <2>1. \A o \in Orders : Ask[o].qty \in Nat
    BY SessionsAssumption
  <2>2. S \subseteq Orders
    OBVIOUS
  <2>. HIDE DEF S
  <2>. QED  BY <2>1, <2>2
<1>5. /\ Table(lot, Nat) /\ IsFiniteSet(DOMAIN lot) /\ DOMAIN lot \subseteq Nat \X Nat
      /\ Table(row, Nat) /\ IsFiniteSet(DOMAIN row) /\ DOMAIN row \subseteq Nat
  <2>1. CASE Held > 0
    <3>1. lot = With(<< >>, <<1, 1>>, Held) /\ row = With(<< >>, 1, Held)
      BY <2>1
    <3>2. /\ DOMAIN lot = {<<1, 1>>} \cup {} /\ IsFiniteSet(DOMAIN lot)
          /\ DOMAIN row = {1} \cup {} /\ IsFiniteSet(DOMAIN row)
      <4>1. /\ DOMAIN With(<< >>, <<1, 1>>, Held) = {<<1, 1>>} \cup {}
            /\ IsFiniteSet(DOMAIN With(<< >>, <<1, 1>>, Held))
        BY <1>2, WithFinite
      <4>2. DOMAIN With(<< >>, 1, Held) = {1} \cup {} /\ IsFiniteSet(DOMAIN With(<< >>, 1, Held))
        BY <1>2, WithFinite
      <4>. QED  BY <3>1, <4>1, <4>2
    <3>3. Held \in Nat
      BY SessionsAssumption
    <3>4. Table(lot, Nat) /\ Table(row, Nat)
      BY <1>2, <3>1, <3>3, WithTable
    <3>. QED  BY <3>2, <3>4
  <2>2. CASE ~(Held > 0)
    BY <1>2, <2>2
  <2>. QED  BY <2>1, <2>2
<1>. HIDE DEF lot, row
<1>6. TablesTyped(db)
  BY <1>1, <1>2, <1>3, <1>4, <1>5 DEF TablesTyped
<1>7. RowsWhole(db)
  BY <1>1 DEF RowsWhole
<1>. QED  BY <1>6, <1>7

\* In the initial states.
LEMMA InitShape == Init => Shape
<1>. SUFFICES ASSUME Init PROVE Shape
  OBVIOUS
<1>1. TablesTyped(db) /\ RowsWhole(db)
  BY InitTyped
<1>2. /\ TablesTyped(Nothing) /\ NoTrades(Nothing) /\ DOMAIN Nothing.status = {}
      /\ DOMAIN Nothing.filled = {} /\ DOMAIN Nothing.reserved = {}
  BY NothingTyped
<1>3. /\ own = [s \in Sessions |-> Nothing] /\ mem = [s \in Sessions |-> Blank]
      /\ pc = [s \in Sessions |-> IF s \in Matchers THEN "idle" ELSE "start"]
  BY DEF Init
<1>4. DOMAIN db.status = Orders \ Placing
  BY DEF Init, Nothing, Tables
<1>5. \A p \in Placing : own[p] = Nothing /\ pc[p] = "start"
  BY <1>3, SessionsAreApart DEF Sessions
<1>6. \A c \in Cancellers : own[c] = Nothing /\ pc[c] = "start" /\ mem[c] = Blank
  BY <1>3, SessionsAreApart DEF Sessions
<1>7. \A m \in Matchers : own[m] = Nothing /\ pc[m] = "idle" /\ mem[m] = Blank
  BY <1>3 DEF Sessions
<1>8. \A p \in Placing : PlacerOK(p, db, own[p], pc[p])
  BY <1>2, <1>4, <1>5 DEF PlacerOK
<1>9. \A c \in Cancellers : CancellerOK(db, own[c], pc[c], mem[c])
  BY <1>2, <1>6 DEF CancellerOK
<1>10. \A m \in Matchers : MatcherOK(db, own[m], pc[m], mem[m])
  BY <1>2, <1>7, BlankIs DEF MatcherOK, Filling
<1>11. \A s \in Sessions : own[s] = Nothing /\ mem[s] = Blank
  BY <1>3
<1>12. DOMAIN own = Sessions /\ pc = [x \in Sessions |-> pc[x]] /\ DOMAIN mem = Sessions
  BY <1>3
<1>. HIDE DEF Init
<1>. QED  BY <1>1, <1>2, <1>8, <1>9, <1>10, <1>11, <1>12 DEF Shape

\* Every step keeps it.
LEMMA StepShape == Shape /\ [Next]_vars => Shape'
<1>. SUFFICES ASSUME Shape, [Next]_vars PROVE Shape'
  OBVIOUS
<1>1. CASE UNCHANGED vars
  BY <1>1 DEF vars, Shape
<1>2. ASSUME NEW m \in Matchers, BeginPass(m) PROVE Shape'
  BY <1>2, BeginPassShape
<1>3. ASSUME NEW s \in Sessions, Step(s) PROVE Shape'
  <2>1. CASE s \in Matchers /\ MatcherStep(s)
    BY <2>1, RestOrderShape, SizeOrderShape, NumberFillShape, InsertFillShape, SettleBuyShape,
       SettleSellShape, ProjectShape, FinishOrderShape DEF MatcherStep
  <2>2. CASE s \in Placing /\ PlacerStep(s)
    BY <2>2, PlacerShape
  <2>3. CASE s \in Cancellers /\ (ReadOrder(s) \/ WriteCancel(s))
    BY <2>3, CancellerShape
  <2>4. CASE Commit(s)
    BY <2>4, CommitShape
  <2>. QED  BY <1>3, <2>1, <2>2, <2>3, <2>4 DEF Step
<1>4. ASSUME NEW s \in Sessions, Crash(s) PROVE Shape'
  BY <1>4, RollbackShape DEF Crash
<1>. QED  BY <1>1, <1>2, <1>3, <1>4 DEF Next

\* The layer all else rests on.
THEOREM SessionsShape == Spec => []Shape
<1>. QED  BY InitShape, StepShape, PTL DEF Spec

\* The invariant gives the types.
LEMMA ShapeTypes == Shape => TypeOK
<1>. SUFFICES ASSUME Shape PROVE TypeOK
  OBVIOUS
<1>1. TablesTyped(db) /\ RowsWhole(db) /\ pc = [s \in Sessions |-> pc[s]]
  BY DEF Shape
<1>2. \A o \in DOMAIN db.status : db.status[o] \in Terminal \cup OpenStatuses
  BY <1>1 DEF TablesTyped, RowsWhole, Table
<1>3. ASSUME NEW t \in Tables \ {"status", "entry"}, NEW k \in DOMAIN db[t]
      PROVE  db[t][k] \in Nat
  <2>1. /\ \A j \in DOMAIN db.filled : db.filled[j] \in Nat
        /\ \A j \in DOMAIN db.reserved : db.reserved[j] \in Nat
        /\ \A j \in DOMAIN db.fill : db.fill[j] \in Nat
        /\ \A j \in DOMAIN db.lot : db.lot[j] \in Nat
        /\ \A j \in DOMAIN db.row : db.row[j] \in Nat
    BY <1>1 DEF TablesTyped, Table
  <2>2. t \in {"filled", "reserved", "fill", "lot", "row"}
    BY DEF Tables
  <2>. QED  BY <2>1, <2>2
<1>4. pc \in [Sessions -> {"idle", "turn", "number", "insert", "settle", "project", "finish",
                           "start", "read", "decide", "write", "commit", "done"}]
  <2>1. ASSUME NEW s \in Sessions
        PROVE  pc[s] \in {"idle", "turn", "number", "insert", "settle", "project", "finish",
                          "start", "read", "decide", "write", "commit", "done"}
    BY DEF Shape, PlacerOK, CancellerOK, MatcherOK, Filling, Sessions
  <2>. QED  BY <1>1, <2>1
<1>. QED  BY <1>1, <1>2, <1>3, <1>4 DEF TypeOK, TablesTyped, RowsWhole

\* What is committed is typed, order rows are whole, and nothing on the books is negative,
\* however many passes, placements and cancellations overlap and wherever they crash.
THEOREM SessionsTypes == Spec => []TypeOK
<1>. QED  BY SessionsShape, ShapeTypes, PTL

-----------------------------------------------------------------------------
(* One placement leaves one order. *)

\* Every session moves alone, and only a commit changes what is committed.
LEMMA StepsAlone ==
  ASSUME Shape, NEW s \in Sessions,
         Step(s) \/ Crash(s) \/ (s \in Matchers /\ BeginPass(s))
  PROVE  Alone(s) /\ (Commit(s) \/ db' = db)
<1>1. ASSUME Rollback(s) PROVE Alone(s) /\ db' = db
  BY <1>1, CloseAlone DEF Rollback
<1>2. ASSUME NEW next, NEW r, Goes(s, next, r), UNCHANGED own PROVE Alone(s) /\ db' = db
  BY <1>2 DEF Shape, Goes, Alone
<1>3. ASSUME NEW next, NEW r, Goes(s, next, r), NEW w, own' = [own EXCEPT ![s] = w]
      PROVE  Alone(s) /\ db' = db
  BY <1>3 DEF Shape, Goes, Alone
<1>4. CASE s \in Matchers /\ MatcherStep(s)
  <2>1. CASE RestOrder(s)
    BY <1>2, <2>1 DEF RestOrder
  <2>2. CASE SizeOrder(s)
    BY <1>2, <2>2 DEF SizeOrder
  <2>3. CASE NumberFill(s)
    BY <1>2, <2>3 DEF NumberFill
  <2>4. CASE InsertFill(s)
    BY <1>1, <1>3, <2>4 DEF InsertFill
  <2>5. CASE SettleBuy(s)
    BY <1>1, <1>3, <2>5 DEF SettleBuy
  <2>6. CASE SettleSell(s)
    BY <1>1, <1>3, <2>6 DEF SettleSell
  <2>7. CASE Project(s)
    BY <1>1, <1>3, <2>7 DEF Project
  <2>8. CASE FinishOrder(s)
    BY <1>3, <2>8 DEF FinishOrder
  <2>. QED  BY <1>4, <2>1, <2>2, <2>3, <2>4, <2>5, <2>6, <2>7, <2>8 DEF MatcherStep
<1>5. CASE s \in Placing /\ PlacerStep(s)
  <2>1. CASE Deduplicate(s)
    BY <1>2, <2>1 DEF Deduplicate
  <2>2. CASE InsertOrder(s)
    BY <1>1, <1>3, <2>2 DEF InsertOrder
  <2>3. CASE ReadHeld(s)
    BY <1>2, <2>3 DEF ReadHeld
  <2>4. CASE Decide(s)
    BY <1>3, <2>4 DEF Decide
  <2>. QED  BY <1>5, <2>1, <2>2, <2>3, <2>4 DEF PlacerStep
<1>6. CASE s \in Cancellers /\ (ReadOrder(s) \/ WriteCancel(s))
  <2>1. CASE ReadOrder(s)
    BY <1>2, <2>1 DEF ReadOrder
  <2>2. CASE WriteCancel(s)
    BY <1>3, <2>2 DEF WriteCancel
  <2>. QED  BY <1>6, <2>1, <2>2
<1>7. CASE Commit(s)
  BY <1>7, CloseAlone DEF Commit
<1>8. CASE Crash(s)
  BY <1>1, <1>8 DEF Crash
<1>9. CASE s \in Matchers /\ BeginPass(s)
  BY <1>9 DEF BeginPass, Shape, Alone
<1>. QED  BY <1>4, <1>5, <1>6, <1>7, <1>8, <1>9 DEF Step

\* The requests that have inserted an order and not committed it.
Inserted == {p \in Placing : pc[p] \in {"read", "decide", "commit"}}

\* An order inserted shares its client id with none committed and none inserted.
Unique ==
  /\ RetriesAreOnce
  /\ \A p \in Inserted : \A o \in DOMAIN db.status : ~SameClient(o, p)
  /\ \A p, q \in Inserted : SameClient(p, q) => p = q

\* It is kept by a session that commits no order and inserts none.
LEMMA UniqueKept ==
  ASSUME Unique, DOMAIN db'.status = DOMAIN db.status, Inserted' \subseteq Inserted
  PROVE  Unique'
<1>1. RetriesAreOnce'
  BY DEF Unique, RetriesAreOnce, SameClient
<1>. QED  BY <1>1 DEF Unique, SameClient

\* An order is committed.
LEMMA UniqueCommitted ==
  ASSUME Shape, Shape', Unique, NEW s \in Sessions, Commit(s)
  PROVE  Unique'
<1>1. Alone(s) /\ db' = View(s) /\ pc'[s] \in {"idle", "done"}
  BY CloseAlone DEF Commit
<1>2. /\ DOMAIN db.status \subseteq DOMAIN db'.status
      /\ DOMAIN db'.status \subseteq DOMAIN db.status \cup {s}
  BY <1>1, CommitWhole
<1>3. Inserted' \subseteq Inserted \ {s}
  BY <1>1 DEF Inserted, Alone, Sessions
<1>4. CASE s \in Placing
  <2>1. s \in Inserted
    BY <1>4 DEF Commit, Shape, PlacerOK, Inserted
  <2>2. RetriesAreOnce'
    BY <1>2, <2>1 DEF Unique, RetriesAreOnce, SameClient
  <2>3. \A p \in Inserted' : \A o \in DOMAIN db'.status : ~SameClient(o, p)
    BY <1>2, <1>3, <2>1 DEF Unique, SameClient
  <2>. QED  BY <1>3, <2>2, <2>3 DEF Unique, SameClient
<1>5. CASE s \notin Placing
  <2>1. DOMAIN own[s].status \subseteq DOMAIN db.status
    BY <1>5 DEF Shape, CancellerOK, MatcherOK, Sessions
  <2>2. DOMAIN db'.status = DOMAIN db.status
    <3>1. DOMAIN View(s).status = DOMAIN own[s].status \cup DOMAIN db.status
      BY DEF View, Over, Tables
    <3>. QED  BY <1>1, <2>1, <3>1
  <2>. QED  BY <1>3, <2>2, UniqueKept
<1>. QED  BY <1>4, <1>5

\* An order is inserted.
LEMMA UniqueInserted ==
  ASSUME Shape, Unique, NEW p \in Placing, InsertOrder(p)
  PROVE  Unique'
<1>1. Alone(p) /\ db' = db
  BY StepsAlone DEF Sessions, Step, PlacerStep, InsertOrder, Commit, Crash
<1>2. Inserted' \subseteq Inserted \cup {p}
  BY <1>1 DEF Inserted, Alone, Sessions
<1>3. CASE Taken(p)
  <2>1. pc'[p] = "done"
    BY <1>3, CloseAlone, SessionsAreApart DEF InsertOrder, Rollback, Sessions
  <2>2. Inserted' \subseteq Inserted
    BY <1>2, <2>1 DEF Inserted
  <2>. QED  BY <1>1, <2>2, UniqueKept
<1>4. CASE ~Taken(p)
  <2>1. \A o \in DOMAIN db.status : ~SameClient(o, p)
    BY <1>4 DEF Taken
  <2>2. ASSUME NEW q \in Inserted PROVE ~SameClient(q, p) /\ ~SameClient(p, q)
    <3>1. /\ q \in DOMAIN own[q].status /\ q \notin DOMAIN db.status /\ q \in Sessions
          /\ q # p
      BY DEF Inserted, Shape, PlacerOK, Sessions, InsertOrder
    <3>2. ~SameClient(q, p)
      BY <3>1 DEF InsertOrder, Others
    <3>. QED  BY <3>2 DEF SameClient
  <2>3. RetriesAreOnce'
    BY <1>1 DEF Unique, RetriesAreOnce, SameClient
  <2>4. \A q \in Inserted' : \A o \in DOMAIN db'.status : ~SameClient(o, q)
    BY <1>1, <1>2, <2>1 DEF Unique
  <2>5. \A q, r \in Inserted' : SameClient(q, r) => q = r
    BY <1>2, <2>2 DEF Unique
  <2>. QED  BY <2>3, <2>4, <2>5 DEF Unique, SameClient
<1>. QED  BY <1>3, <1>4

\* Every step keeps it.
LEMMA StepUnique == Shape /\ Shape' /\ Unique /\ [Next]_vars => Unique'
<1>. SUFFICES ASSUME Shape, Shape', Unique, [Next]_vars PROVE Unique'
  OBVIOUS
<1>1. CASE UNCHANGED vars
  <2>1. db' = db /\ Inserted' = Inserted
    BY <1>1 DEF vars, Inserted
  <2>. QED  BY <2>1, UniqueKept
<1>2. ASSUME NEW s \in Sessions, Step(s) \/ Crash(s) \/ (s \in Matchers /\ BeginPass(s))
      PROVE  Unique'
  <2>1. Alone(s) /\ (Commit(s) \/ db' = db)
    BY <1>2, StepsAlone
  <2>2. CASE Commit(s)
    BY <2>2, UniqueCommitted
  <2>3. CASE s \in Placing /\ InsertOrder(s)
    BY <2>3, UniqueInserted
  <2>4. CASE db' = db /\ ~(s \in Placing /\ InsertOrder(s)) /\ ~Commit(s)
    <3>1. s \in Placing => s \notin Matchers /\ s \notin Cancellers
      BY SessionsAreApart
    <3>2. CASE s \in Placing /\ pc'[s] \in {"read", "decide", "commit"}
      <4>1. ~Crash(s)
        BY <3>1, <3>2, CloseAlone DEF Crash, Rollback
      <4>2. PlacerStep(s) /\ ~InsertOrder(s)
        BY <1>2, <2>4, <3>1, <3>2, <4>1 DEF Step
      <4>3. pc[s] \in {"start", "read", "decide"}
        BY <4>2 DEF PlacerStep, Deduplicate, ReadHeld, Decide
      <4>4. pc[s] # "start"
        <5>1. ASSUME pc[s] = "start" PROVE FALSE
          <6>1. Deduplicate(s)
            BY <4>2, <5>1 DEF PlacerStep, ReadHeld, Decide
          <6>2. pc'[s] \in {"done", "insert"}
            BY <6>1 DEF Deduplicate, Goes, Shape
          <6>. QED  BY <3>2, <6>2
        <5>. QED  BY <5>1
      <4>5. s \in Inserted
        BY <3>2, <4>3, <4>4 DEF Inserted
      <4>6. Inserted' \subseteq Inserted
        BY <2>1, <4>5 DEF Inserted, Alone, Sessions
      <4>. QED  BY <2>4, <4>6, UniqueKept
    <3>3. CASE ~(s \in Placing /\ pc'[s] \in {"read", "decide", "commit"})
      <4>1. Inserted' \subseteq Inserted
        BY <2>1, <3>3 DEF Inserted, Alone, Sessions
      <4>. QED  BY <2>4, <4>1, UniqueKept
    <3>. QED  BY <3>2, <3>3
  <2>. QED  BY <2>1, <2>2, <2>3, <2>4
<1>3. CASE Next
  BY <1>2, <1>3 DEF Next, Sessions
<1>. QED  BY <1>1, <1>3

\* At the beginning no two orders share a client id.
LEMMA InitUnique == Init => Unique
<1>. SUFFICES ASSUME Init PROVE Unique
  OBVIOUS
<1>1. DOMAIN db.status = Orders \ Placing /\ Inserted = {}
  <2>1. DOMAIN db.status = Orders \ Placing
    BY DEF Init, Nothing, Tables
  <2>2. Inserted = {}
    BY SessionsAreApart DEF Init, Inserted, Sessions
  <2>. QED  BY <2>1, <2>2
<1>2. RetriesAreOnce
  BY <1>1, SessionsAssumption DEF RetriesAreOnce, SameClient
<1>. QED  BY <1>1, <1>2 DEF Unique

\* However many requests carry one client id, and whenever each looks it up, inserts, crashes
\* or commits, one order is left: the lookup alone would let two through, the unique index
\* makes the second wait and raise.
THEOREM OncePerClient == Spec => []RetriesAreOnce
<1>1. Unique => RetriesAreOnce
  BY DEF Unique
<1>. QED  BY <1>1, InitUnique, StepUnique, SessionsShape, PTL DEF Spec

===============================================================================
