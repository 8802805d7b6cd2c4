-------------------------- MODULE BrokerBooksProofs --------------------------
(***************************************************************************)
(* What the books promise, for every value of the constants: that what     *)
(* open sells owe is held, that whole-unit portfolios trade whole shares,  *)
(* and that cash, lots and realized profit agree.                          *)
(***************************************************************************)
EXTENDS BrokerProofs

Covered(d) == \A i \in Instruments : Cardinality(Committed(d, i)) <= Held(d, i)

\* The shares r has yet to deliver of instrument i, if it is an open sell of it.
Owes(r, i) ==
  IF IsOpenOrder(r) /\ r.inst = i /\ r.side = "SELL" THEN r.filled + 1 .. r.qty ELSE {}

-----------------------------------------------------------------------------
(* Committed, seen row by row.                                             *)

\* What is committed is what each row owes.
LEMMA CommittedByRow ==
  ASSUME NEW d, NEW i
  PROVE  Committed(d, i) = Claims(DOMAIN d.orders, [o \in DOMAIN d.orders |-> Owes(d.orders[o], i)])
<1>. DEFINE sells == {o \in DOMAIN d.orders :
                        IsOpenOrder(d.orders[o]) /\ d.orders[o].inst = i /\ d.orders[o].side = "SELL"}
            owed == [o \in DOMAIN d.orders |-> Owes(d.orders[o], i)]
<1>1. sells = {p \in Working(d, i) : d.orders[p].side = "SELL"}
  BY DEF Working
<1>2. Committed(d, i) = UNION {{o} \X (d.orders[o].filled + 1 .. d.orders[o].qty) : o \in sells}
  BY <1>1 DEF Committed
<1>3. \A o \in sells : owed[o] = d.orders[o].filled + 1 .. d.orders[o].qty
  BY DEF Owes
<1>4. \A o \in DOMAIN d.orders \ sells : owed[o] = {}
  BY DEF Owes
<1>5. sells \subseteq DOMAIN d.orders
  OBVIOUS
<1>6. Committed(d, i) = UNION {{o} \X owed[o] : o \in sells}
  BY <1>2, <1>3
<1>. HIDE DEF sells, owed
<1>7. \A o \in DOMAIN d.orders \ sells : {o} \X owed[o] = {}
  BY <1>4
<1>8. UNION {{o} \X owed[o] : o \in sells} = UNION {{o} \X owed[o] : o \in DOMAIN d.orders}
  BY <1>5, <1>7
<1>. QED  BY <1>6, <1>8 DEF Claims, owed

\* What a row owes is a finite set of units.
LEMMA OwesFinite ==
  ASSUME NEW r \in OrderRow, NEW i
  PROVE  IsFiniteSet(Owes(r, i))
<1>1. r.filled + 1 \in Int /\ r.qty \in Int
  BY DEF OrderRow
<1>. QED  BY <1>1, FS_Interval, FS_EmptySet DEF Owes

\* Books commit finitely many shares and hold a number of them.
LEMMA CommittedFinite ==
  ASSUME NEW d \in Books, NEW i \in Instruments
  PROVE  /\ IsFiniteSet(Committed(d, i)) /\ Cardinality(Committed(d, i)) \in Nat
         /\ Held(d, i) \in Nat
<1>. DEFINE g == [o \in DOMAIN d.orders |-> Owes(d.orders[o], i)]
<1>1. DOMAIN d.orders = 1 .. Len(d.orders) /\ Len(d.orders) \in Nat
  BY LenProperties DEF Books
<1>2. IsFiniteSet(DOMAIN d.orders)
  BY <1>1, FS_Interval
<1>3. \A o \in DOMAIN d.orders : IsFiniteSet(g[o])
  BY RowOf, OwesFinite
<1>. HIDE DEF g
<1>4. IsFiniteSet(Claims(DOMAIN d.orders, g))
  BY <1>2, <1>3, ClaimsFinite
<1>5. IsFiniteSet(Committed(d, i))
  BY <1>4, CommittedByRow DEF g
<1>6. Held(d, i) \in Nat
  BY LenProperties DEF Held, Books, Holding
<1>. QED  BY <1>5, <1>6, FS_CardinalityType

\* Membership in a set of claims.
LEMMA ClaimsMembers ==
  ASSUME NEW D, NEW g, NEW x
  PROVE  x \in Claims(D, g) <=> \E u \in D : \E v \in g[u] : x = <<u, v>>
BY DEF Claims

\* One row owes as many shares as it has left.
LEMMA OwedByOne ==
  ASSUME NEW o, NEW a \in Nat, NEW b \in Nat, a <= b
  PROVE  IsFiniteSet({o} \X (a + 1 .. b)) /\ Cardinality({o} \X (a + 1 .. b)) = b - a
<1>. DEFINE first == a + 1
<1>1. IsFiniteSet(first .. b) /\ Cardinality(first .. b) = b - a
  <2>1. first \in Int /\ first = a + 1
    OBVIOUS
  <2>. HIDE DEF first
  <2>2. IsFiniteSet(first .. b) /\ Cardinality(first .. b) = IF first > b THEN 0 ELSE b - first + 1
    BY <2>1, FS_Interval
  <2>. QED  BY <2>1, <2>2
<1>2. IsFiniteSet({o}) /\ Cardinality({o}) = 1
  BY FS_Singleton
<1>3. /\ IsFiniteSet({o} \X (first .. b))
      /\ Cardinality({o} \X (first .. b)) = Cardinality({o}) * Cardinality(first .. b)
  BY <1>1, <1>2, FS_Product
<1>. QED  BY <1>1, <1>2, <1>3

\* Books that owe no more and hold no less are as well covered.
LEMMA StillCovered ==
  ASSUME NEW d \in Books, NEW e \in Books, NEW i \in Instruments,
         Cardinality(Committed(d, i)) <= Held(d, i),
         Committed(e, i) \subseteq Committed(d, i), Held(d, i) <= Held(e, i)
  PROVE  Cardinality(Committed(e, i)) <= Held(e, i)
<1>1. /\ IsFiniteSet(Committed(d, i)) /\ Cardinality(Committed(d, i)) \in Nat
      /\ Cardinality(Committed(e, i)) \in Nat /\ Held(d, i) \in Nat /\ Held(e, i) \in Nat
  BY CommittedFinite
<1>2. Cardinality(Committed(e, i)) <= Cardinality(Committed(d, i))
  BY <1>1, FS_Subset
<1>. QED  BY <1>1, <1>2

\* A row that changes into one that owes a part of what it owed takes nothing new.
LEMMA RowOwesLess ==
  ASSUME NEW d, NEW e, NEW i, NEW o \in DOMAIN d.orders,
         DOMAIN e.orders = DOMAIN d.orders,
         \A p \in DOMAIN d.orders \ {o} : e.orders[p] = d.orders[p],
         Owes(e.orders[o], i) \subseteq Owes(d.orders[o], i)
  PROVE  Committed(e, i) \subseteq Committed(d, i)
<1>. DEFINE g == [p \in DOMAIN d.orders |-> Owes(d.orders[p], i)]
            h == [p \in DOMAIN e.orders |-> Owes(e.orders[p], i)]
<1>1. \A p \in DOMAIN d.orders : h[p] \subseteq g[p]
  OBVIOUS
<1>2. Committed(d, i) = Claims(DOMAIN d.orders, g) /\ Committed(e, i) = Claims(DOMAIN d.orders, h)
  BY CommittedByRow
<1>. HIDE DEF g, h
<1>3. Claims(DOMAIN d.orders, h) \subseteq Claims(DOMAIN d.orders, g)
  BY <1>1, ClaimsMembers
<1>. QED  BY <1>2, <1>3

-----------------------------------------------------------------------------
(* Every operation on covered books leaves them covered.                   *)

\* Fields of a row that closing and electing leave alone.
LEMMA RowKept ==
  ASSUME NEW r \in OrderRow, NEW status \in Statuses \ OpenStatuses, NEW q, NEW i
  PROVE  /\ Owes(ClosedRow(r, status), i) = {}
         /\ Owes(Elected(r, q), i) = Owes(r, i)
<1>1. ClosedRow(r, status).status = status
  BY DEF ClosedRow, OrderRow
<1>2. /\ Elected(r, q).status = r.status /\ Elected(r, q).inst = r.inst
      /\ Elected(r, q).side = r.side /\ Elected(r, q).filled = r.filled
      /\ Elected(r, q).qty = r.qty
  BY DEF Elected, OrderRow
<1>. QED  BY <1>1, <1>2 DEF Owes, IsOpenOrder

\* Closing an order claims nothing.
LEMMA ClosedCovered ==
  ASSUME NEW d \in Books, Covered(d), NEW o \in DOMAIN d.orders,
         NEW status \in Statuses \ OpenStatuses
  PROVE  Covered(Closed(d, o, status))
<1>. DEFINE e == Closed(d, o, status)
            row == ClosedRow(d.orders[o], status)
<1>1. /\ e \in Books /\ DOMAIN e.orders = DOMAIN d.orders /\ e = [d EXCEPT !.orders[o] = row]
  BY ClosedBooks
<1>2. d.orders[o] \in OrderRow
  BY RowOf
<1>3. \A i : Owes(row, i) = {}
  BY <1>2, RowKept
<1>. HIDE DEF e, row
<1>4. /\ e.orders[o] = row /\ e.holding = d.holding
      /\ \A p \in DOMAIN d.orders \ {o} : e.orders[p] = d.orders[p]
  BY <1>1 DEF Books
<1>. SUFFICES ASSUME NEW i \in Instruments  PROVE Cardinality(Committed(e, i)) <= Held(e, i)
  BY DEF Covered, e
<1>5. Committed(e, i) \subseteq Committed(d, i)
  <2>1. Owes(e.orders[o], i) \subseteq Owes(d.orders[o], i)
    BY <1>3, <1>4
  <2>. QED  BY <1>1, <1>4, <2>1, RowOwesLess
<1>6. Held(e, i) = Held(d, i) /\ Held(d, i) \in Nat
  BY <1>4, CommittedFinite DEF Held
<1>. QED  BY <1>1, <1>5, <1>6, StillCovered DEF Covered

\* Electing a stop claims nothing.
LEMMA KeptCovered ==
  ASSUME TypeOK, Covered(db), NEW o \in pass.todo
  PROVE  Covered(Kept(o))
<1>1. /\ o \in DOMAIN db.orders /\ Kept(o) \in Books /\ Kept(o).orders[o] = Row(o)
      /\ Kept(o).holding = db.holding /\ DOMAIN Kept(o).orders = DOMAIN db.orders
  BY KeptBooks
<1>2. db \in Books /\ db.orders[o] \in OrderRow
  BY <1>1, RowOf DEF TypeOK
<1>3. \A p \in DOMAIN db.orders \ {o} : Kept(o).orders[p] = db.orders[p]
  BY <1>2 DEF Kept, Books
<1>. SUFFICES ASSUME NEW i \in Instruments
              PROVE  Cardinality(Committed(Kept(o), i)) <= Held(Kept(o), i)
  BY DEF Covered
<1>4. Committed(Kept(o), i) \subseteq Committed(db, i)
  <2>1. "FILLED" \in Statuses \ OpenStatuses
    BY DEF Statuses, OpenStatuses
  <2>2. Owes(Row(o), i) = Owes(db.orders[o], i)
    BY <1>2, <2>1, RowKept DEF Row
  <2>. QED  BY <1>1, <1>3, <2>2, RowOwesLess
<1>5. Held(Kept(o), i) = Held(db, i) /\ Held(db, i) \in Nat
  BY <1>1, <1>2, CommittedFinite DEF Held
<1>. QED  BY <1>1, <1>2, <1>4, <1>5, StillCovered DEF Covered

\* Units bought are held; units sold no longer are.
LEMMA HoldingAfter ==
  ASSUME NEW h \in Holding, NEW qty \in Nat, NEW price \in Nat, NEW fee \in Nat
  PROVE  /\ Len(Bought(h, qty, price, fee).lots) = Len(h.lots) + qty
         /\ qty <= Len(h.lots) => Len(Sold(h, qty, price, fee).lots) = Len(h.lots) - qty
<1>1. h.lots \in Seq(Nat) /\ Len(h.lots) \in Nat
  BY LenProperties DEF Holding
<1>2. Bought(h, qty, price, fee).lots = h.lots \o [u \in 1 .. qty |-> price]
  BY DEF Bought, Holding
<1>3. [u \in 1 .. qty |-> price] \in Seq(Nat) /\ Len([u \in 1 .. qty |-> price]) = qty
  OBVIOUS
<1>4. Len(Bought(h, qty, price, fee).lots) = Len(h.lots) + qty
  BY <1>1, <1>2, <1>3, ConcatProperties
<1>5. Sold(h, qty, price, fee).lots = SubSeq(h.lots, qty + 1, Len(h.lots))
  BY DEF Sold, Holding
<1>6. ASSUME qty <= Len(h.lots)  PROVE Len(SubSeq(h.lots, qty + 1, Len(h.lots))) = Len(h.lots) - qty
  BY <1>1, <1>6
<1>. QED  BY <1>4, <1>5, <1>6

\* A fill delivers of an order just what it takes from the holding, and claims nothing.
LEMMA ExecutedCovered ==
  ASSUME NEW d \in Books, Covered(d), NEW o \in DOMAIN d.orders, IsOpenOrder(d.orders[o]),
         NEW qty \in Nat, NEW reference \in Nat,
         ~FillRaises(d, d.orders[o], qty, reference),
         d.orders[o].side = "SELL" => qty <= Held(d, d.orders[o].inst)
  PROVE  Covered(Executed(d, o, qty, reference))
<1>. DEFINE r == d.orders[o]
            price == FillPrice(reference, r.side, qty)
            fee == Commission(qty * price)
            row == FilledRow(r, qty, price, fee)
            e == Executed(d, o, qty, reference)
<1>1. e \in Books /\ DOMAIN e.orders = DOMAIN d.orders
  BY ExecutedBooks
<1>2. r \in OrderRow /\ r.inst \in Instruments /\ r.side \in {"BUY", "SELL"}
      /\ r.filled \in Nat /\ r.qty \in Nat
  BY RowOf DEF OrderRow
<1>3. price \in Nat /\ fee \in Nat
  <2>1. price \in Nat
    BY FillPriceNat
  <2>2. qty * price \in Nat
    BY <2>1
  <2>. QED  BY <2>1, <2>2, CommissionNat
<1>4. qty <= r.qty - r.filled
  BY <1>2 DEF FillRaises
<1>5. /\ e.orders = [d.orders EXCEPT ![o] = row]
      /\ e.holding = [d.holding EXCEPT ![r.inst] =
           IF r.side = "BUY" THEN Bought(@, qty, price, fee) ELSE Sold(@, qty, price, fee)]
  BY DEF Executed
<1>. HIDE DEF price, fee, e
<1>6. row.inst = r.inst /\ row.side = r.side /\ row.qty = r.qty /\ row.filled = r.filled + qty
  BY <1>2 DEF FilledRow, OrderRow
<1>. HIDE DEF row
<1>7. /\ e.orders[o] = row
      /\ \A p \in DOMAIN d.orders \ {o} : e.orders[p] = d.orders[p]
  BY <1>5 DEF Books
<1>8. /\ \A i \in Instruments \ {r.inst} : e.holding[i] = d.holding[i]
      /\ e.holding[r.inst] = IF r.side = "BUY" THEN Bought(d.holding[r.inst], qty, price, fee)
                                               ELSE Sold(d.holding[r.inst], qty, price, fee)
  BY <1>2, <1>5 DEF Books
<1>. SUFFICES ASSUME NEW i \in Instruments  PROVE Cardinality(Committed(e, i)) <= Held(e, i)
  BY DEF Covered, e
<1>9. Owes(row, i) \subseteq Owes(r, i)
  BY <1>2, <1>6 DEF Owes
<1>10. Committed(e, i) \subseteq Committed(d, i)
  BY <1>1, <1>7, <1>9, RowOwesLess
<1>11. Held(d, i) \in Nat /\ Held(e, i) \in Nat
       /\ IsFiniteSet(Committed(d, i)) /\ Cardinality(Committed(d, i)) \in Nat
       /\ Cardinality(Committed(e, i)) \in Nat /\ Cardinality(Committed(d, i)) <= Held(d, i)
  BY <1>1, CommittedFinite DEF Covered
<1>12. d.holding[r.inst] \in Holding
  BY <1>2 DEF Books
<1>13. CASE r.side = "BUY" \/ i # r.inst
  <2>1. Held(d, i) <= Held(e, i)
    <3>1. CASE i # r.inst
      BY <1>8, <1>11, <3>1 DEF Held
    <3>2. CASE i = r.inst
      <4>1. e.holding[i] = Bought(d.holding[i], qty, price, fee)
        BY <1>8, <1>13, <3>2
      <4>2. Held(e, i) = Held(d, i) + qty
        BY <1>3, <1>12, <3>2, <4>1, HoldingAfter DEF Held
      <4>. QED  BY <1>11, <4>2
    <3>. QED  BY <3>1, <3>2
  <2>. QED  BY <1>1, <1>10, <1>11, <2>1, StillCovered
<1>14. CASE r.side = "SELL" /\ i = r.inst
  <2>. DEFINE last == r.filled + qty
              delivered == {o} \X (r.filled + 1 .. last)
  <2>1. last \in Nat /\ r.filled <= last /\ last <= r.qty /\ last - r.filled = qty
    BY <1>2, <1>4
  <2>2. Held(e, i) = Held(d, i) - qty
    <3>1. e.holding[i] = Sold(d.holding[i], qty, price, fee) /\ qty <= Len(d.holding[i].lots)
      BY <1>2, <1>8, <1>14 DEF Held
    <3>2. d.holding[i] \in Holding
      BY <1>12, <1>14
    <3>3. Len(Sold(d.holding[i], qty, price, fee).lots) = Len(d.holding[i].lots) - qty
      BY <1>3, <3>1, <3>2, HoldingAfter
    <3>. QED  BY <3>1, <3>3 DEF Held
  <2>3. IsFiniteSet(delivered) /\ Cardinality(delivered) = qty
    <3>. HIDE DEF last
    <3>1. /\ IsFiniteSet({o} \X (r.filled + 1 .. last))
          /\ Cardinality({o} \X (r.filled + 1 .. last)) = last - r.filled
      BY <1>2, <2>1, OwedByOne
    <3>. QED  BY <2>1, <3>1
  <2>4. Owes(r, i) = r.filled + 1 .. r.qty
    BY <1>14 DEF Owes
  <2>5. Owes(row, i) \subseteq last + 1 .. r.qty
    BY <1>6 DEF Owes
  <2>. DEFINE g == [p \in DOMAIN d.orders |-> Owes(d.orders[p], i)]
              h == [p \in DOMAIN e.orders |-> Owes(e.orders[p], i)]
  <2>6. Committed(d, i) = Claims(DOMAIN d.orders, g) /\ Committed(e, i) = Claims(DOMAIN d.orders, h)
    BY <1>1, CommittedByRow
  <2>7. g[o] = r.filled + 1 .. r.qty /\ h[o] \subseteq last + 1 .. r.qty
    BY <1>1, <1>7, <2>4, <2>5
  <2>. HIDE DEF g, h
  <2>8. delivered \subseteq Committed(d, i)
    <3>1. \A v \in r.filled + 1 .. last : v \in g[o]
      BY <1>2, <2>1, <2>7
    <3>. HIDE DEF last
    <3>. QED  BY <2>6, <3>1, ClaimsMembers
  <2>9. delivered \cap Committed(e, i) = {}
    <3>1. \A v \in r.filled + 1 .. last : v \notin h[o]
      BY <1>2, <2>1, <2>7
    <3>. HIDE DEF last
    <3>. QED  BY <2>6, <3>1, ClaimsMembers
  <2>. HIDE DEF delivered
  <2>10. Committed(e, i) \subseteq Committed(d, i) \ delivered
    BY <1>10, <2>9
  <2>11. Committed(d, i) \cap delivered = delivered
    BY <2>8
  <2>12. /\ IsFiniteSet(Committed(d, i) \ delivered)
         /\ Cardinality(Committed(d, i) \ delivered) = Cardinality(Committed(d, i)) - qty
    BY <1>11, <2>3, <2>11, FS_Difference
  <2>13. Cardinality(Committed(e, i)) <= Cardinality(Committed(d, i) \ delivered)
    BY <2>10, <2>12, FS_Subset
  <2>. QED  BY <1>11, <2>2, <2>12, <2>13
<1>. QED  BY <1>2, <1>13, <1>14

\* A new row owes what it owes and changes nothing else.
LEMMA AppendedCommitted ==
  ASSUME NEW d \in Books, NEW e \in Books, NEW row \in OrderRow,
         e.orders = Append(d.orders, row), NEW i
  PROVE  Committed(e, i) = Committed(d, i) \cup ({Len(d.orders) + 1} \X Owes(row, i))
<1>. DEFINE n == Len(d.orders) + 1
            g == [p \in DOMAIN d.orders |-> Owes(d.orders[p], i)]
            h == [p \in DOMAIN e.orders |-> Owes(e.orders[p], i)]
<1>1. d.orders \in Seq(OrderRow)
  BY DEF Books
<1>2. /\ Len(e.orders) = n /\ e.orders[n] = row
      /\ \A o \in 1 .. Len(d.orders) : e.orders[o] = d.orders[o]
      /\ e.orders \in Seq(OrderRow)
  BY <1>1, AppendProperties
<1>3. /\ DOMAIN e.orders = DOMAIN d.orders \cup {n} /\ n \notin DOMAIN d.orders
      /\ DOMAIN d.orders = 1 .. Len(d.orders)
  BY <1>1, <1>2, LenProperties
<1>4. h[n] = Owes(row, i) /\ \A p \in DOMAIN d.orders : h[p] = g[p]
  BY <1>2, <1>3
<1>5. Committed(d, i) = Claims(DOMAIN d.orders, g) /\ Committed(e, i) = Claims(DOMAIN e.orders, h)
  BY CommittedByRow
<1>. HIDE DEF g, h, n
<1>6. Claims(DOMAIN d.orders \cup {n}, h) = Claims(DOMAIN d.orders, h) \cup ({n} \X h[n])
  BY DEF Claims
<1>7. Claims(DOMAIN d.orders, h) = Claims(DOMAIN d.orders, g)
  BY <1>4 DEF Claims
<1>. QED  BY <1>3, <1>4, <1>5, <1>6, <1>7 DEF n

\* A sell is granted only shares that nobody else has been promised.
LEMMA PlacedCovered ==
  ASSUME NEW d \in Books, Covered(d), NEW r \in Requests, ValidRequest(r), NEW live, NEW t \in Nat
  PROVE  Covered(Placed(d, r, live, t))
<1>. DEFINE row == IF Rejects(d, r, live, t) THEN Refused(NewOrder(r, t)) ELSE NewOrder(r, t)
            e == Placed(d, r, live, t)
            n == Len(d.orders) + 1
<1>1. CASE IsDuplicate(d, r)
  BY <1>1 DEF Placed
<1>2. CASE ~IsDuplicate(d, r)
  <2>1. e = [d EXCEPT !.orders = Append(d.orders, row)]
    BY <1>2 DEF Placed
  <2>2. e \in Books
    BY PlacedBooks
  <2>3. NewOrder(r, t) \in OrderRow /\ Refused(NewOrder(r, t)) \in OrderRow /\ row \in OrderRow
    BY NewRow
  <2>4. \A i : Rejects(d, r, live, t) => Owes(row, i) = {}
    <3>1. Refused(NewOrder(r, t)).status = "REJECTED"
      BY <2>3 DEF Refused, NewOrder
    <3>. QED  BY <3>1 DEF Owes, IsOpenOrder, OpenStatuses
  <2>5. /\ NewOrder(r, t).inst = r.inst /\ NewOrder(r, t).side = r.side
        /\ NewOrder(r, t).filled = 0 /\ NewOrder(r, t).qty = WholeUnits(r.qty)
    BY DEF NewOrder
  <2>6. WholeUnits(r.qty) \in Nat
    BY WholeUnitsNat, BrokerAssumption
  <2>7. ~Rejects(d, r, live, t) /\ r.side = "SELL" => WholeUnits(r.qty) <= Sellable(d, r.inst)
    <3>1. Sellable(d, r.inst) \in Nat
      <4>1. r.inst \in Instruments
        BY BrokerAssumption
      <4>. QED  BY <4>1, CommittedFinite DEF Sellable, Larger
    <3>. QED  BY <2>6, <3>1 DEF Rejects
  <2>8. ~Rejects(d, r, live, t) => row = NewOrder(r, t)
    OBVIOUS
  <2>. HIDE DEF row, e
  <2>9. e.orders = Append(d.orders, row) /\ e.holding = d.holding
    BY <2>1 DEF Books
  <2>. SUFFICES ASSUME NEW i \in Instruments  PROVE Cardinality(Committed(e, i)) <= Held(e, i)
    BY DEF Covered, e
  <2>10. Held(e, i) = Held(d, i)
    BY <2>9 DEF Held
  <2>11. Committed(e, i) = Committed(d, i) \cup ({n} \X Owes(row, i))
    BY <2>2, <2>3, <2>9, AppendedCommitted
  <2>12. /\ IsFiniteSet(Committed(d, i)) /\ Cardinality(Committed(d, i)) \in Nat
         /\ Held(d, i) \in Nat /\ Cardinality(Committed(d, i)) <= Held(d, i)
    BY CommittedFinite DEF Covered
  <2>13. CASE Owes(row, i) = {}
    <3>1. Committed(e, i) = Committed(d, i)
      BY <2>11, <2>13
    <3>. QED  BY <2>10, <2>12, <3>1
  <2>14. CASE Owes(row, i) # {}
    <3>1. ~Rejects(d, r, live, t)
      BY <2>4, <2>14
    <3>2. r.inst = i /\ r.side = "SELL" /\ Owes(row, i) = 0 + 1 .. WholeUnits(r.qty)
      BY <2>5, <2>8, <2>14, <3>1 DEF Owes
    <3>. DEFINE new == {n} \X (0 + 1 .. WholeUnits(r.qty))
    <3>3. IsFiniteSet(new) /\ Cardinality(new) = WholeUnits(r.qty)
      <4>. DEFINE qty == WholeUnits(r.qty)
      <4>1. qty \in Nat /\ 0 <= qty /\ qty - 0 = qty
        BY <2>6
      <4>. HIDE DEF qty
      <4>2. IsFiniteSet({n} \X (0 + 1 .. qty)) /\ Cardinality({n} \X (0 + 1 .. qty)) = qty - 0
        BY <4>1, OwedByOne
      <4>. QED  BY <4>1, <4>2 DEF qty
    <3>4. Committed(e, i) = Committed(d, i) \cup new
      BY <2>11, <3>2
    <3>. HIDE DEF new
    <3>5. /\ IsFiniteSet(Committed(d, i) \cup new)
          /\ Cardinality(Committed(d, i) \cup new) =
               Cardinality(Committed(d, i)) + Cardinality(new) - Cardinality(Committed(d, i) \cap new)
      BY <2>12, <3>3, FS_Union
    <3>6. Cardinality(Committed(d, i) \cap new) \in Nat
      BY <2>12, FS_Intersection, FS_CardinalityType
    <3>7. Cardinality(Committed(d, i)) + WholeUnits(r.qty) <= Held(d, i)
      <4>1. WholeUnits(r.qty) <= Sellable(d, i)
        BY <2>7, <3>1, <3>2
      <4>. QED  BY <2>6, <2>12, <4>1 DEF Sellable, Larger
    <3>. QED  BY <2>6, <2>10, <2>12, <3>3, <3>4, <3>5, <3>6, <3>7
  <2>. QED  BY <2>13, <2>14
<1>. QED  BY <1>1, <1>2

\* A seeded holding adds shares and promises none.
LEMMA SeededCovered ==
  ASSUME NEW d \in Books, Covered(d), NEW s \in Seeds, CanSeed(d, s)
  PROVE  Covered(Seeded(d, s))
<1>. DEFINE e == Seeded(d, s)
            h == d.holding[s.inst]
<1>1. s.inst \in Instruments /\ s.qty \in Nat \ {0} /\ s.basis \in Nat
  BY BrokerAssumption DEF CanSeed
<1>2. e \in Books
  BY SeededBooks
<1>3. h \in Holding
  BY <1>1 DEF Books
<1>4. /\ e.orders = Append(d.orders, SeedRow(s))
      /\ e.holding[s.inst] = Bought(h, s.qty, s.basis, 0)
      /\ \A i \in Instruments \ {s.inst} : e.holding[i] = d.holding[i]
  BY <1>1 DEF Seeded, Books
<1>5. SeedRow(s) \in OrderRow /\ \A i : Owes(SeedRow(s), i) = {}
  <2>1. s.qty * s.basis \in Nat
    BY <1>1
  <2>. QED  BY <1>1, <2>1 DEF SeedRow, OrderRow, Statuses, OpenStatuses, None, Owes, IsOpenOrder
<1>. HIDE DEF e
<1>. SUFFICES ASSUME NEW i \in Instruments  PROVE Cardinality(Committed(e, i)) <= Held(e, i)
  BY DEF Covered, e
<1>6. Committed(e, i) \subseteq Committed(d, i)
  <2>1. Committed(e, i) = Committed(d, i) \cup ({Len(d.orders) + 1} \X Owes(SeedRow(s), i))
    BY <1>2, <1>4, <1>5, AppendedCommitted
  <2>. QED  BY <1>5, <2>1
<1>7. Held(d, i) <= Held(e, i)
  <2>1. Held(d, i) \in Nat
    BY CommittedFinite
  <2>2. CASE i = s.inst
    <3>. HIDE DEF h
    <3>. DEFINE bought(q, p, f) == Bought(h, q, p, f)
    <3>1. Len(Bought(h, s.qty, s.basis, 0).lots) = Len(h.lots) + s.qty
      <4>1. \A q, p, f \in Nat : Len(bought(q, p, f).lots) = Len(h.lots) + q
        BY <1>3, HoldingAfter
      <4>2. s.qty \in Nat /\ s.basis \in Nat /\ 0 \in Nat
        BY <1>1
      <4>. HIDE DEF bought
      <4>3. Len(bought(s.qty, s.basis, 0).lots) = Len(h.lots) + s.qty
        BY <4>1, <4>2
      <4>. QED  BY <4>3 DEF bought
    <3>2. Held(e, i) = Held(d, i) + s.qty
      BY <1>4, <2>2, <3>1 DEF Held, h
    <3>. QED  BY <1>1, <2>1, <3>2
  <2>3. CASE i # s.inst
    BY <1>4, <2>1, <2>3 DEF Held
  <2>. QED  BY <2>2, <2>3
<1>. QED  BY <1>2, <1>6, <1>7, StillCovered DEF Covered

\* A portfolio that holds nothing has promised nothing.
LEMMA EmptyCovered == Covered(EmptyBooks(InitialCapital))
<1>. DEFINE d == EmptyBooks(InitialCapital)
<1>1. d \in Books /\ d.orders = << >>
  BY EmptyBooksTyped DEF EmptyBooks
<1>2. \A i : Committed(d, i) = {}
  BY <1>1 DEF Committed, Working
<1>3. \A i \in Instruments : Held(d, i) \in Nat
  BY <1>1, CommittedFinite
<1>. HIDE DEF d
<1>4. \A i \in Instruments : Cardinality(Committed(d, i)) <= Held(d, i)
  BY <1>2, <1>3, FS_EmptySet
<1>. QED  BY <1>4 DEF Covered, d

-----------------------------------------------------------------------------
(* So every step keeps both the running and the committed books covered.   *)

BothCovered == Covered(db) /\ Covered(saved)

\* Every action keeps the books covered.
LEMMA StepCovered ==
  ASSUME IInv, BothCovered, [Next]_vars
  PROVE  BothCovered'
<1>1. /\ db \in Books /\ saved \in Books /\ now \in Nat
      /\ TypeOK /\ OrdersReconcile /\ Covered(db) /\ Covered(saved)
  BY DEF IInv, TypeOK, BothCovered
<1>2. {"CANCELED", "EXPIRED"} \subseteq Statuses \ OpenStatuses
  BY DEF Statuses, OpenStatuses
<1>3. ASSUME NEW books, Covered(books), Commit(books)  PROVE BothCovered'
  BY <1>3 DEF Commit, BothCovered, Covered
<1>4. ASSUME NEW books, Covered(books), NEW o, Leaving(o, books)  PROVE BothCovered'
  BY <1>1, <1>4 DEF Leaving, BothCovered, Covered
<1>5. CASE UNCHANGED <<db, saved>>
  BY <1>1, <1>5 DEF BothCovered, Covered
<1>6. CASE Tick \/ PauseOrResume \/ UNCHANGED vars
  BY <1>5, <1>6 DEF Tick, PauseOrResume, vars
<1>7. ASSUME NEW r \in Requests, PlaceOrder(r)  PROVE BothCovered'
  <2>1. ValidRequest(r) /\ Commit(Placed(db, r, active, now))
    BY <1>7 DEF PlaceOrder
  <2>2. Covered(Placed(db, r, active, now))
    BY <1>1, <2>1, PlacedCovered
  <2>. QED  BY <1>3, <2>1, <2>2
<1>8. ASSUME NEW o \in DOMAIN db.orders, CancelOrder(o)  PROVE BothCovered'
  <2>1. Covered(Closed(db, o, "CANCELED"))
    BY <1>1, <1>2, ClosedCovered
  <2>. QED  BY <1>3, <1>8, <2>1 DEF CancelOrder
<1>9. ASSUME NEW s \in Seeds, SeedHolding(s)  PROVE BothCovered'
  <2>1. CanSeed(db, s) /\ Commit(Seeded(db, s))
    BY <1>9 DEF SeedHolding
  <2>2. Covered(Seeded(db, s))
    BY <1>1, <2>1, SeededCovered
  <2>. QED  BY <1>3, <2>1, <2>2
<1>10. ASSUME NEW i \in Instruments, NEW q \in Quotes, BeginPass(i, q)  PROVE BothCovered'
  BY <1>5, <1>10 DEF BeginPass
<1>11. ASSUME NEW o \in pass.todo,
              ExpireOrder(o) \/ RestOrder(o) \/ StarveOrder(o) \/ FillOrder(o) \/ AbortPass(o)
       PROVE  BothCovered'
  <2>1. /\ o \in DOMAIN db.orders /\ Kept(o) \in Books /\ o \in DOMAIN Kept(o).orders
        /\ Kept(o).orders[o] = Row(o) /\ Kept(o).holding = db.holding /\ Kept(o).cash = db.cash
        /\ Covered(Kept(o))
    BY <1>1, KeptBooks, KeptCovered
  <2>2. Covered(Closed(Kept(o), o, "EXPIRED")) /\ Covered(Closed(db, o, "EXPIRED"))
    BY <1>1, <1>2, <2>1, ClosedCovered
  <2>3. CASE ExpireOrder(o)
    BY <1>4, <2>2, <2>3 DEF ExpireOrder
  <2>4. CASE RestOrder(o)
    <3>1. Leaving(o, IF Row(o).tif = "IOC" THEN Closed(Kept(o), o, "EXPIRED") ELSE Kept(o))
      BY <2>4 DEF RestOrder
    <3>. QED  BY <1>4, <2>1, <2>2, <3>1
  <2>5. CASE StarveOrder(o)
    BY <1>4, <2>2, <2>5 DEF StarveOrder
  <2>6. CASE FillOrder(o)
    <3>1. PICK qty \in Executable(db, Row(o), Price(o)) \ {0} :
            ~FillRaises(db, Row(o), qty, Price(o)) /\ Leaving(o, Executed(Kept(o), o, qty, Price(o)))
      BY <2>6 DEF FillOrder
    <3>2. qty \in Nat /\ (Row(o).side = "SELL" => qty <= Held(db, Row(o).inst))
      BY <1>1, <3>1, ExecutableQty
    <3>3. Price(o) \in Nat /\ IsOpenOrder(Row(o))
      BY <1>1, ReferenceNat, PassRow
    <3>4. ~FillRaises(Kept(o), Kept(o).orders[o], qty, Price(o))
      BY <2>1, <3>1 DEF FillRaises
    <3>5. Kept(o).orders[o].side = "SELL" => qty <= Held(Kept(o), Kept(o).orders[o].inst)
      BY <2>1, <3>2 DEF Held
    <3>6. Covered(Executed(Kept(o), o, qty, Price(o)))
      BY <2>1, <3>2, <3>3, <3>4, <3>5, ExecutedCovered
    <3>. QED  BY <1>4, <3>1, <3>6
  <2>7. CASE AbortPass(o)
    BY <1>1, <2>7 DEF AbortPass, BothCovered, Covered
  <2>. QED  BY <1>11, <2>3, <2>4, <2>5, <2>6, <2>7
<1>12. CASE EndPass
  BY <1>1, <1>3, <1>12 DEF EndPass
<1>. QED  BY <1>6, <1>7, <1>8, <1>9, <1>10, <1>11, <1>12 DEF Next, PassStep

\* No share is ever promised to two open sells, in what is committed and at every point
\* of every pass, whatever is placed, canceled, seeded and filled in which order.
THEOREM SellsAlwaysCovered == Spec => []SellsCovered
<1>1. Init => BothCovered
  BY EmptyCovered DEF Init, BothCovered
<1>2. IInv /\ BothCovered /\ [Next]_vars => BothCovered'
  BY StepCovered
<1>3. BothCovered => SellsCovered
  BY DEF BothCovered, Covered, SellsCovered
<1>. QED  BY <1>1, <1>2, <1>3, Inductive, PTL DEF Spec

-----------------------------------------------------------------------------
(* Whole shares.                                                           *)

\* Sums and differences of whole shares are whole, and so is what is rounded to them.
LEMMA WholeMultiples ==
  ASSUME NEW a \in Int, NEW b \in Int
  PROVE  /\ a % Lot = 0 /\ b % Lot = 0 => (a + b) % Lot = 0 /\ (a - b) % Lot = 0
         /\ (a - (a % Lot)) % Lot = 0
         /\ 0 % Lot = 0
<1>1. Lot \in Nat \ {0}
  BY RulesAssumption
<1>2. \A x \in Int : x % Lot = 0 => \E k \in Int : x = k * Lot
  BY <1>1, SMTT(30)
<1>3. \A k \in Int : (k * Lot) % Lot = 0
  BY <1>1
<1>4. ASSUME a % Lot = 0, b % Lot = 0  PROVE (a + b) % Lot = 0 /\ (a - b) % Lot = 0
  <2>1. PICK j \in Int : a = j * Lot
    BY <1>2, <1>4
  <2>2. PICK k \in Int : b = k * Lot
    BY <1>2, <1>4
  <2>3. a + b = (j + k) * Lot /\ a - b = (j - k) * Lot
    BY <1>1, <2>1, <2>2
  <2>. QED  BY <1>3, <2>3
<1>5. (a - (a % Lot)) % Lot = 0
  BY <1>1, SMTT(30)
<1>6. 0 % Lot = 0
  BY <1>1
<1>. QED  BY <1>4, <1>5, <1>6

WholeRow(r) == IsSeed(r) \/ (r.qty % Lot = 0 /\ r.filled % Lot = 0)

WholeRows(d) == \A o \in DOMAIN d.orders : WholeRow(d.orders[o])

\* Without fractions, what is rounded to whole shares, and what rounding leaves alone,
\* is whole.
LEMMA RoundedIsWhole ==
  ASSUME ~AllowFractional, NEW qty \in Nat
  PROVE  WholeUnits(qty) % Lot = 0 /\ (WholeUnits(qty) = qty => qty % Lot = 0)
<1>1. WholeUnits(qty) = qty - (qty % Lot)
  BY DEF WholeUnits
<1>2. (qty - (qty % Lot)) % Lot = 0
  BY WholeMultiples
<1>. QED  BY <1>1, <1>2

\* What is held covers what an open sell has left.
LEMMA SellIsHeld ==
  ASSUME NEW d \in Books, Covered(d), NEW o \in DOMAIN d.orders,
         RowReconciles(d.orders[o]), IsOpenOrder(d.orders[o]), d.orders[o].side = "SELL"
  PROVE  d.orders[o].qty - d.orders[o].filled <= Held(d, d.orders[o].inst)
<1>. DEFINE r == d.orders[o]
            i == r.inst
            left == {o} \X (r.filled + 1 .. r.qty)
            g == [p \in DOMAIN d.orders |-> Owes(d.orders[p], i)]
<1>1. r \in OrderRow /\ i \in Instruments /\ r.filled \in Nat /\ r.qty \in Nat /\ r.filled <= r.qty
  BY RowOf DEF OrderRow, RowReconciles
<1>2. /\ IsFiniteSet(Committed(d, i)) /\ Cardinality(Committed(d, i)) \in Nat
      /\ Held(d, i) \in Nat /\ Cardinality(Committed(d, i)) <= Held(d, i)
  BY <1>1, CommittedFinite DEF Covered
<1>3. IsFiniteSet(left) /\ Cardinality(left) = r.qty - r.filled
  BY <1>1, OwedByOne
<1>4. left \subseteq Committed(d, i)
  <2>1. g[o] = r.filled + 1 .. r.qty
    BY DEF Owes
  <2>2. Committed(d, i) = Claims(DOMAIN d.orders, g)
    BY CommittedByRow
  <2>. HIDE DEF g
  <2>3. {o} \X g[o] \subseteq Claims(DOMAIN d.orders, g)
    BY DEF Claims
  <2>. QED  BY <2>1, <2>2, <2>3
<1>. HIDE DEF left
<1>5. Cardinality(left) <= Cardinality(Committed(d, i))
  BY <1>2, <1>4, FS_Subset
<1>. QED  BY <1>1, <1>2, <1>3, <1>5

\* Without fractions, every fill is of whole shares: a buy is rounded after it is cut
\* down, and a sell is never cut down, because what it has left is held.
LEMMA FillsAreWhole ==
  ASSUME ~AllowFractional, IInv, BothCovered, NEW o \in pass.todo,
         NEW qty \in Executable(db, Row(o), Price(o))
  PROVE  qty % Lot = 0
<1>. DEFINE left == Row(o).qty - Row(o).filled
            whole == WholeUnits(left)
<1>1. /\ db \in Books /\ TypeOK /\ OrdersReconcile /\ Covered(db)
      /\ o \in DOMAIN db.orders /\ RowReconciles(db.orders[o]) /\ IsOpenOrder(db.orders[o])
      /\ db.orders[o] \in OrderRow
  BY PassRow DEF IInv, TypeOK, BothCovered
<1>2. left \in Nat /\ whole \in Nat /\ whole <= left /\ whole % Lot = 0
  BY <1>1, OpenRemainder, WholeUnitsNat, RoundedIsWhole
<1>3. /\ Row(o).side = db.orders[o].side /\ Row(o).inst = db.orders[o].inst
      /\ left = db.orders[o].qty - db.orders[o].filled
      /\ Row(o).side \in {"BUY", "SELL"} /\ Row(o).inst \in Instruments
  BY <1>1 DEF Row, Elected, OrderRow
<1>. HIDE DEF left, whole
<1>4. CASE Row(o).side = "BUY"
  <2>1. qty \in Affordable(db, whole, Price(o))
    BY <1>4 DEF Executable, whole, left
  <2>2. qty \in Nat
    BY <1>1, ExecutableQty
  <2>3. qty = whole \/ WholeUnits(qty) = qty
    BY <2>1 DEF Affordable
  <2>. QED  BY <1>2, <2>2, <2>3, RoundedIsWhole
<1>5. CASE Row(o).side = "SELL"
  <2>1. left <= Held(db, Row(o).inst)
    BY <1>1, <1>3, <1>5, SellIsHeld
  <2>2. Held(db, Row(o).inst) \in Nat
    BY <1>1, <1>3, CommittedFinite
  <2>3. qty = Smaller(whole, Held(db, Row(o).inst))
    BY <1>5 DEF Executable, whole, left
  <2>4. qty = whole
    BY <1>2, <2>1, <2>2, <2>3 DEF Smaller
  <2>. QED  BY <1>2, <2>4
<1>. QED  BY <1>3, <1>4, <1>5

\* Rows that are closed, elected or filled with whole shares stay whole.
LEMMA RowStaysWhole ==
  ASSUME NEW r \in OrderRow, WholeRow(r), NEW status, NEW q,
         NEW qty \in Nat, qty % Lot = 0, NEW price, NEW fee
  PROVE  /\ WholeRow(ClosedRow(r, status)) /\ WholeRow(Elected(r, q))
         /\ WholeRow(FilledRow(r, qty, price, fee))
<1>1. /\ ClosedRow(r, status).expires = r.expires /\ ClosedRow(r, status).tif = r.tif
      /\ ClosedRow(r, status).qty = r.qty /\ ClosedRow(r, status).filled = r.filled
  BY DEF ClosedRow, OrderRow
<1>2. /\ Elected(r, q).expires = r.expires /\ Elected(r, q).tif = r.tif
      /\ Elected(r, q).qty = r.qty /\ Elected(r, q).filled = r.filled
  BY DEF Elected, OrderRow
<1>3. /\ FilledRow(r, qty, price, fee).expires = r.expires
      /\ FilledRow(r, qty, price, fee).tif = r.tif
      /\ FilledRow(r, qty, price, fee).qty = r.qty
      /\ FilledRow(r, qty, price, fee).filled = r.filled + qty
  BY DEF FilledRow, OrderRow
<1>4. r.filled % Lot = 0 => (r.filled + qty) % Lot = 0
  BY WholeMultiples DEF OrderRow
<1>. QED  BY <1>1, <1>2, <1>3, <1>4 DEF WholeRow, IsSeed

\* Placed orders are for whole shares, and a seeded holding is told apart by its expiry.
LEMMA NewRowsWhole ==
  ASSUME ~AllowFractional, NEW r \in Requests, ValidRequest(r), NEW t \in Nat, NEW s
  PROVE  WholeRow(NewOrder(r, t)) /\ WholeRow(Refused(NewOrder(r, t))) /\ WholeRow(SeedRow(s))
<1>1. r.qty \in Nat
  BY BrokerAssumption
<1>2. WholeUnits(r.qty) % Lot = 0 /\ 0 % Lot = 0
  BY <1>1, RoundedIsWhole, WholeMultiples
<1>3. NewOrder(r, t).qty = WholeUnits(r.qty) /\ NewOrder(r, t).filled = 0
  BY DEF NewOrder
<1>4. /\ Refused(NewOrder(r, t)).qty = NewOrder(r, t).qty
      /\ Refused(NewOrder(r, t)).filled = NewOrder(r, t).filled
  BY DEF Refused, NewOrder
<1>5. IsSeed(SeedRow(s))
  BY DEF IsSeed, SeedRow
<1>. QED  BY <1>2, <1>3, <1>4, <1>5 DEF WholeRow

\* A new whole row leaves the rows whole, and so does one put in the place of another.
LEMMA RowsStayWhole ==
  ASSUME NEW d \in Books, WholeRows(d), NEW row, WholeRow(row), NEW e,
         \/ row \in OrderRow /\ e.orders = Append(d.orders, row)
         \/ \E o \in DOMAIN d.orders : e.orders = [d.orders EXCEPT ![o] = row]
  PROVE  WholeRows(e)
<1>1. CASE row \in OrderRow /\ e.orders = Append(d.orders, row)
  <2>1. d.orders \in Seq(OrderRow)
    BY DEF Books
  <2>2. /\ Len(e.orders) = Len(d.orders) + 1 /\ e.orders[Len(d.orders) + 1] = row
        /\ \A o \in 1 .. Len(d.orders) : e.orders[o] = d.orders[o]
        /\ e.orders \in Seq(OrderRow)
    BY <1>1, <2>1, AppendProperties
  <2>3. /\ DOMAIN e.orders = DOMAIN d.orders \cup {Len(d.orders) + 1}
        /\ DOMAIN d.orders = 1 .. Len(d.orders)
    BY <2>1, <2>2, LenProperties
  <2>. QED  BY <2>2, <2>3 DEF WholeRows
<1>2. ASSUME NEW o \in DOMAIN d.orders, e.orders = [d.orders EXCEPT ![o] = row]  PROVE WholeRows(e)
  BY <1>2 DEF WholeRows, Books
<1>. QED  BY <1>1, <1>2

BothWhole == WholeRows(db) /\ WholeRows(saved)

\* Every action keeps the rows whole.
LEMMA StepWhole ==
  ASSUME ~AllowFractional, IInv, BothCovered, BothWhole, [Next]_vars
  PROVE  BothWhole'
<1>1. /\ db \in Books /\ saved \in Books /\ now \in Nat
      /\ TypeOK /\ OrdersReconcile /\ WholeRows(db) /\ WholeRows(saved)
  BY DEF IInv, TypeOK, BothWhole
<1>2. {"CANCELED", "EXPIRED"} \subseteq Statuses
  BY DEF Statuses
<1>3. ASSUME NEW books, WholeRows(books), Commit(books)  PROVE BothWhole'
  BY <1>3 DEF Commit, BothWhole, WholeRows
<1>4. ASSUME NEW books, WholeRows(books), NEW o, Leaving(o, books)  PROVE BothWhole'
  BY <1>1, <1>4 DEF Leaving, BothWhole, WholeRows
<1>5. ASSUME NEW d \in Books, WholeRows(d), NEW o \in DOMAIN d.orders, NEW status \in Statuses
      PROVE  WholeRows(Closed(d, o, status))
  <2>. DEFINE row == ClosedRow(d.orders[o], status)
  <2>1. d.orders[o] \in OrderRow /\ WholeRow(d.orders[o])
    BY <1>5, RowOf DEF WholeRows
  <2>2. WholeRow(row)
    <3>1. 0 \in Nat /\ 0 % Lot = 0
      BY WholeMultiples
    <3>. QED  BY <2>1, <3>1, RowStaysWhole
  <2>3. Closed(d, o, status) = [d EXCEPT !.orders[o] = row]
    BY <1>5, ClosedBooks
  <2>. HIDE DEF row
  <2>4. Closed(d, o, status).orders = [d.orders EXCEPT ![o] = row]
    BY <2>3 DEF Books
  <2>. QED  BY <1>5, <2>2, <2>4, RowsStayWhole
<1>6. CASE UNCHANGED <<db, saved>>
  BY <1>1, <1>6 DEF BothWhole, WholeRows
<1>7. CASE Tick \/ PauseOrResume \/ UNCHANGED vars
  BY <1>6, <1>7 DEF Tick, PauseOrResume, vars
<1>8. ASSUME NEW r \in Requests, PlaceOrder(r)  PROVE BothWhole'
  <2>. DEFINE row == IF Rejects(db, r, active, now) THEN Refused(NewOrder(r, now)) ELSE NewOrder(r, now)
  <2>1. ValidRequest(r) /\ Commit(Placed(db, r, active, now))
    BY <1>8 DEF PlaceOrder
  <2>2. WholeRow(row) /\ row \in OrderRow
    BY <1>1, <2>1, NewRowsWhole, NewRow
  <2>3. \/ Placed(db, r, active, now) = db
        \/ Placed(db, r, active, now).orders = Append(db.orders, row)
    <3>1. CASE IsDuplicate(db, r)
      BY <3>1 DEF Placed
    <3>2. CASE ~IsDuplicate(db, r)
      <4>1. Placed(db, r, active, now) = [db EXCEPT !.orders = Append(db.orders, row)]
        BY <3>2 DEF Placed
      <4>. HIDE DEF row
      <4>. QED  BY <1>1, <4>1 DEF Books
    <3>. QED  BY <3>1, <3>2
  <2>. HIDE DEF row
  <2>4. WholeRows(Placed(db, r, active, now))
    BY <1>1, <2>2, <2>3, RowsStayWhole
  <2>. QED  BY <1>3, <2>1, <2>4
<1>9. ASSUME NEW o \in DOMAIN db.orders, CancelOrder(o)  PROVE BothWhole'
  BY <1>1, <1>2, <1>3, <1>5, <1>9 DEF CancelOrder
<1>10. ASSUME NEW s \in Seeds, SeedHolding(s)  PROVE BothWhole'
  <2>1. CanSeed(db, s) /\ Commit(Seeded(db, s))
    BY <1>10 DEF SeedHolding
  <2>2. SeedRow(s) \in OrderRow
    <3>1. s.inst \in Instruments /\ s.qty \in Nat \ {0} /\ s.basis \in Nat
      BY <2>1, BrokerAssumption DEF CanSeed
    <3>2. s.qty * s.basis \in Nat
      BY <3>1
    <3>. QED  BY <3>1, <3>2 DEF SeedRow, OrderRow, Statuses, OpenStatuses, None
  <2>3. WholeRow(SeedRow(s))
    BY DEF WholeRow, IsSeed, SeedRow
  <2>4. Seeded(db, s).orders = Append(db.orders, SeedRow(s))
    BY DEF Seeded
  <2>5. WholeRows(Seeded(db, s))
    BY <1>1, <2>2, <2>3, <2>4, RowsStayWhole
  <2>. QED  BY <1>3, <2>1, <2>5
<1>11. ASSUME NEW i \in Instruments, NEW q \in Quotes, BeginPass(i, q)  PROVE BothWhole'
  BY <1>6, <1>11 DEF BeginPass
<1>12. ASSUME NEW o \in pass.todo,
              ExpireOrder(o) \/ RestOrder(o) \/ StarveOrder(o) \/ FillOrder(o) \/ AbortPass(o)
       PROVE  BothWhole'
  <2>1. /\ o \in DOMAIN db.orders /\ Kept(o) \in Books /\ o \in DOMAIN Kept(o).orders
        /\ Kept(o).orders[o] = Row(o) /\ Row(o) \in OrderRow
    BY <1>1, KeptBooks
  <2>2. WholeRow(Row(o))
    <3>1. db.orders[o] \in OrderRow /\ WholeRow(db.orders[o])
      BY <1>1, <2>1, RowOf DEF WholeRows
    <3>. QED  BY <3>1, RowStaysWhole, WholeMultiples DEF Row
  <2>3. WholeRows(Kept(o))
    <3>1. Kept(o).orders = [db.orders EXCEPT ![o] = Row(o)]
      BY <1>1 DEF Kept, Books
    <3>. QED  BY <1>1, <2>1, <2>2, <3>1, RowsStayWhole
  <2>4. WholeRows(Closed(Kept(o), o, "EXPIRED")) /\ WholeRows(Closed(db, o, "EXPIRED"))
    BY <1>1, <1>2, <1>5, <2>1, <2>3
  <2>5. CASE ExpireOrder(o)
    BY <1>4, <2>4, <2>5 DEF ExpireOrder
  <2>6. CASE RestOrder(o)
    <3>1. Leaving(o, IF Row(o).tif = "IOC" THEN Closed(Kept(o), o, "EXPIRED") ELSE Kept(o))
      BY <2>6 DEF RestOrder
    <3>. QED  BY <1>4, <2>3, <2>4, <3>1
  <2>7. CASE StarveOrder(o)
    BY <1>4, <2>4, <2>7 DEF StarveOrder
  <2>8. CASE FillOrder(o)
    <3>1. PICK qty \in Executable(db, Row(o), Price(o)) \ {0} :
            Leaving(o, Executed(Kept(o), o, qty, Price(o)))
      BY <2>8 DEF FillOrder
    <3>2. qty \in Nat /\ qty % Lot = 0
      BY <1>1, <3>1, ExecutableQty, FillsAreWhole
    <3>. DEFINE price == FillPrice(Price(o), Row(o).side, qty)
                row == FilledRow(Row(o), qty, price, Commission(qty * price))
    <3>3. WholeRow(row)
      BY <2>1, <2>2, <3>2, RowStaysWhole
    <3>4. Executed(Kept(o), o, qty, Price(o)).orders = [Kept(o).orders EXCEPT ![o] = row]
      BY <2>1 DEF Executed
    <3>. HIDE DEF price, row
    <3>5. WholeRows(Executed(Kept(o), o, qty, Price(o)))
      BY <2>1, <2>3, <3>3, <3>4, RowsStayWhole
    <3>. QED  BY <1>4, <3>1, <3>5
  <2>9. CASE AbortPass(o)
    BY <1>1, <2>9 DEF AbortPass, BothWhole, WholeRows
  <2>. QED  BY <1>12, <2>5, <2>6, <2>7, <2>8, <2>9
<1>13. CASE EndPass
  BY <1>1, <1>3, <1>13 DEF EndPass
<1>. QED  BY <1>7, <1>8, <1>9, <1>10, <1>11, <1>12, <1>13 DEF Next, PassStep

WholeInv == AllowFractional \/ BothWhole

\* In a portfolio without fractions every placed order fills in whole shares, whatever odd
\* fractions were seeded and however cash cuts a buy down.
THEOREM WholeSharesAlwaysTrade == Spec => []WholeSharesTrade
<1>1. Init => BothCovered /\ WholeInv
  <2>1. Init => BothCovered
    BY EmptyCovered DEF Init, BothCovered
  <2>2. Init => BothWhole
    BY DEF Init, EmptyBooks, BothWhole, WholeRows
  <2>. QED  BY <2>1, <2>2 DEF WholeInv
<1>2. IInv /\ BothCovered /\ WholeInv /\ [Next]_vars => BothCovered' /\ WholeInv'
  BY StepCovered, StepWhole DEF WholeInv
<1>3. WholeInv => WholeSharesTrade
  BY DEF WholeInv, BothWhole, WholeRows, WholeRow, WholeSharesTrade
<1>. QED  BY <1>1, <1>2, <1>3, Inductive, PTL DEF Spec

-----------------------------------------------------------------------------
(* Profit: what trades moved in cash, what is still open in lots and what  *)
(* was booked as realized agree.                                           *)

Units(ls) == UNION {{u} \X (1 .. ls[u]) : u \in DOMAIN ls}

Balanced(h) == h.traded + Cost(h.lots) + h.lotFees = h.realized

BooksBalanced(d) == \A i \in Instruments : Balanced(d.holding[i])

-----------------------------------------------------------------------------
(* Lots taken apart and put together cost the same.                        *)

\* Cost counts the units of cash in some lots, and there are finitely many.
LEMMA UnitsFinite ==
  ASSUME NEW ls \in Seq(Nat)
  PROVE  IsFiniteSet(Units(ls)) /\ Cost(ls) = Cardinality(Units(ls)) /\ Cost(ls) \in Nat
<1>. DEFINE g == [u \in DOMAIN ls |-> 1 .. ls[u]]
<1>1. IsFiniteSet(DOMAIN ls)
  BY FS_Interval, LenProperties
<1>2. \A u \in DOMAIN ls : IsFiniteSet(g[u])
  BY FS_Interval, LenProperties, ElementOfSeq
<1>. HIDE DEF g
<1>3. IsFiniteSet(Claims(DOMAIN ls, g))
  BY <1>1, <1>2, ClaimsFinite
<1>4. Claims(DOMAIN ls, g) = Units(ls)
  BY DEF g, Claims, Units
<1>. QED  BY <1>3, <1>4, CostNat DEF Cost, Units

\* A unit of cash is a lot and a number up to what the lot cost.
LEMMA UnitsMembers ==
  ASSUME NEW ls, NEW x
  PROVE  x \in Units(ls) <=> x = <<x[1], x[2]>> /\ x[1] \in DOMAIN ls /\ x[2] \in 1 .. ls[x[1]]
<1>1. ASSUME x \in Units(ls)
      PROVE  x = <<x[1], x[2]>> /\ x[1] \in DOMAIN ls /\ x[2] \in 1 .. ls[x[1]]
  <2>1. PICK u \in DOMAIN ls : x \in {u} \X (1 .. ls[u])
    BY <1>1 DEF Units
  <2>2. x[1] = u /\ x[2] \in 1 .. ls[u] /\ x = <<x[1], x[2]>>
    BY <2>1
  <2>. QED  BY <2>2
<1>2. ASSUME x = <<x[1], x[2]>>, x[1] \in DOMAIN ls, x[2] \in 1 .. ls[x[1]]
      PROVE  x \in Units(ls)
  <2>1. x \in {x[1]} \X (1 .. ls[x[1]])
    BY <1>2
  <2>. QED  BY <1>2, <2>1 DEF Units
<1>. QED  BY <1>1, <1>2

Shift(n, c) == <<n + c[1], c[2]>>

\* Lots that are those of a followed by those of b cost what both cost.
LEMMA CostSplit ==
  ASSUME NEW ls \in Seq(Nat), NEW a \in Seq(Nat), NEW b \in Seq(Nat),
         Len(ls) = Len(a) + Len(b),
         \A u \in 1 .. Len(a) : ls[u] = a[u],
         \A u \in 1 .. Len(b) : ls[Len(a) + u] = b[u]
  PROVE  Cost(ls) = Cost(a) + Cost(b)
<1>. DEFINE n == Len(a)
            shifted == {Shift(n, c) : c \in Units(b)}
            f == [c \in Units(b) |-> Shift(n, c)]
<1>1. /\ DOMAIN ls = 1 .. n + Len(b) /\ DOMAIN a = 1 .. n /\ DOMAIN b = 1 .. Len(b)
      /\ n \in Nat /\ Len(b) \in Nat
  BY LenProperties
<1>2. /\ IsFiniteSet(Units(a)) /\ IsFiniteSet(Units(b))
      /\ Cost(ls) = Cardinality(Units(ls)) /\ Cost(a) = Cardinality(Units(a))
      /\ Cost(b) = Cardinality(Units(b)) /\ Cost(a) \in Nat /\ Cost(b) \in Nat
  BY UnitsFinite
<1>3. \A c \in Units(b) : c = <<c[1], c[2]>> /\ c[1] \in 1 .. Len(b) /\ c[2] \in 1 .. b[c[1]]
  BY <1>1, UnitsMembers
<1>4. f \in Bijection(Units(b), shifted)
  <2>1. \A c, e \in Units(b) : Shift(n, c) = Shift(n, e) => c = e
    <3>. SUFFICES ASSUME NEW c \in Units(b), NEW e \in Units(b), Shift(n, c) = Shift(n, e)
                  PROVE  c = e
      OBVIOUS
    <3>1. n + c[1] = n + e[1] /\ c[2] = e[2]
      BY DEF Shift
    <3>2. c[1] \in Int /\ e[1] \in Int
      BY <1>1, <1>3
    <3>3. c[1] = e[1]
      BY <1>1, <3>1, <3>2
    <3>. QED  BY <1>3, <3>1, <3>3
  <2>2. f \in [Units(b) -> shifted] /\ \A s \in shifted : \E c \in Units(b) : f[c] = s
    OBVIOUS
  <2>3. \A c, e \in Units(b) : f[c] = f[e] => c = e
    BY <2>1
  <2>. HIDE DEF f, shifted
  <2>. QED  BY <2>2, <2>3 DEF Bijection, Injection, IsInjective, Surjection
<1>5. IsFiniteSet(shifted) /\ Cardinality(shifted) = Cost(b)
  BY <1>2, <1>4, FS_Bijection DEF ExistsBijection
<1>6. ASSUME NEW x \in Units(ls)  PROVE x \in Units(a) \cup shifted
  <2>1. x = <<x[1], x[2]>> /\ x[1] \in 1 .. n + Len(b) /\ x[2] \in 1 .. ls[x[1]]
    BY <1>1, UnitsMembers
  <2>2. CASE x[1] <= n
    <3>1. x[1] \in 1 .. n
      BY <1>1, <2>1, <2>2
    <3>2. ls[x[1]] = a[x[1]]
      BY <3>1
    <3>. QED  BY <1>1, <2>1, <3>1, <3>2, UnitsMembers
  <2>3. CASE x[1] > n
    <3>. DEFINE c == <<x[1] - n, x[2]>>
    <3>1. c[1] \in 1 .. Len(b) /\ n + c[1] = x[1] /\ c[2] = x[2] /\ c = <<c[1], c[2]>>
      BY <1>1, <2>1, <2>3
    <3>. HIDE DEF c
    <3>2. ls[x[1]] = b[c[1]]
      BY <3>1
    <3>3. c \in Units(b)
      BY <1>1, <2>1, <3>1, <3>2, UnitsMembers
    <3>4. Shift(n, c) = x
      BY <2>1, <3>1 DEF Shift
    <3>. QED  BY <3>3, <3>4
  <2>. QED  BY <1>1, <2>1, <2>2, <2>3
<1>7. ASSUME NEW x \in Units(a)  PROVE x \in Units(ls)
  <2>1. x = <<x[1], x[2]>> /\ x[1] \in 1 .. n /\ x[2] \in 1 .. a[x[1]]
    BY <1>1, UnitsMembers
  <2>2. x[1] \in DOMAIN ls /\ ls[x[1]] = a[x[1]]
    BY <1>1, <2>1
  <2>. QED  BY <2>1, <2>2, UnitsMembers
<1>8. ASSUME NEW c \in Units(b)  PROVE Shift(n, c) \in Units(ls) /\ Shift(n, c) \notin Units(a)
  <2>. DEFINE first == n + c[1]
  <2>1. c[1] \in 1 .. Len(b) /\ c[2] \in 1 .. b[c[1]]
    BY <1>3
  <2>2. ls[first] = b[c[1]] /\ first \in DOMAIN ls /\ first \notin DOMAIN a
    <3>1. ls[first] = b[c[1]]
      BY <2>1
    <3>2. \A u \in 1 .. Len(b) : n + u \in 1 .. n + Len(b) /\ n + u \notin 1 .. n
      BY <1>1
    <3>3. first \in 1 .. n + Len(b) /\ first \notin 1 .. n
      BY <2>1, <3>2
    <3>. HIDE DEF first, n
    <3>. QED  BY <1>1, <3>1, <3>3
  <2>3. PICK x : x = <<first, c[2]>>
    OBVIOUS
  <2>4. x = Shift(n, c)
    BY <2>3 DEF Shift
  <2>. HIDE DEF first
  <2>5. x[1] = first /\ x[2] = c[2] /\ x = <<x[1], x[2]>>
    BY <2>3
  <2>6. x \in Units(ls) /\ x \notin Units(a)
    BY <2>1, <2>2, <2>5, UnitsMembers
  <2>. QED  BY <2>4, <2>6
<1>9. Units(ls) = Units(a) \cup shifted /\ Units(a) \cap shifted = {}
  BY <1>6, <1>7, <1>8
<1>. HIDE DEF shifted
<1>10. Cardinality(Units(a) \cup shifted) =
        Cardinality(Units(a)) + Cardinality(shifted) - Cardinality(Units(a) \cap shifted)
  BY <1>2, <1>5, FS_Union
<1>11. Cardinality(Units(a) \cap shifted) = 0
  BY <1>9, FS_EmptySet
<1>. QED  BY <1>2, <1>5, <1>9, <1>10, <1>11

\* New lots behind the old ones add what they cost.
LEMMA CostConcat ==
  ASSUME NEW a \in Seq(Nat), NEW b \in Seq(Nat)
  PROVE  Cost(a \o b) = Cost(a) + Cost(b)
<1>. DEFINE ls == a \o b
            m == Len(a)
            n == Len(b)
<1>1. m \in Nat /\ n \in Nat
  BY LenProperties
<1>2. /\ ls \in Seq(Nat) /\ Len(ls) = m + n
      /\ \A u \in 1 .. m + n : ls[u] = IF u <= m THEN a[u] ELSE b[u - m]
  BY ConcatProperties
<1>. HIDE DEF ls, m, n
<1>3. \A u \in 1 .. m : ls[u] = a[u]
  BY <1>1, <1>2
<1>4. \A u \in 1 .. n : ls[m + u] = b[u]
  <2>. SUFFICES ASSUME NEW u \in 1 .. n  PROVE ls[m + u] = b[u]
    OBVIOUS
  <2>. DEFINE k == m + u
  <2>1. k \in 1 .. m + n /\ ~(k <= m) /\ k - m = u
    BY <1>1
  <2>. HIDE DEF k
  <2>2. ls[k] = b[u]
    BY <1>2, <2>1
  <2>. QED  BY <2>2 DEF k
<1>5. Cost(ls) = Cost(a) + Cost(b)
  BY <1>2, <1>3, <1>4, CostSplit DEF m, n
<1>. QED  BY <1>5 DEF ls

\* Lots cut in two cost what the oldest and the rest do.
LEMMA CostCut ==
  ASSUME NEW ls \in Seq(Nat), NEW qty \in Nat, qty <= Len(ls)
  PROVE  /\ SubSeq(ls, 1, qty) \in Seq(Nat) /\ SubSeq(ls, qty + 1, Len(ls)) \in Seq(Nat)
         /\ Cost(ls) = Cost(SubSeq(ls, 1, qty)) + Cost(SubSeq(ls, qty + 1, Len(ls)))
<1>. DEFINE n == Len(ls)
            first == qty + 1
            a == SubSeq(ls, 1, qty)
            b == SubSeq(ls, first, n)
<1>1. n \in Nat /\ qty <= n /\ \A u \in 1 .. n : ls[u] \in Nat
  BY LenProperties, ElementOfSeq
<1>2. first \in Int /\ first = qty + 1
  OBVIOUS
<1>. HIDE DEF n, first
<1>3. /\ a \in Seq(Nat) /\ Len(a) = (IF 1 <= qty THEN qty - 1 + 1 ELSE 0)
      /\ \A u \in 1 .. qty - 1 + 1 : a[u] = ls[1 + u - 1]
  <2>1. \A u \in 1 .. qty : ls[u] \in Nat
    BY <1>1
  <2>. QED  BY <2>1, SubSeqProperties
<1>4. /\ b \in Seq(Nat) /\ Len(b) = (IF first <= n THEN n - first + 1 ELSE 0)
      /\ \A u \in 1 .. n - first + 1 : b[u] = ls[first + u - 1]
  <2>1. \A u \in first .. n : ls[u] \in Nat
    BY <1>1, <1>2
  <2>. QED  BY <1>1, <1>2, <2>1, SubSeqProperties
<1>. HIDE DEF a, b
<1>5. Len(a) = qty /\ \A u \in 1 .. qty : a[u] = ls[u]
  <2>1. qty - 1 + 1 = qty /\ \A u \in 1 .. qty : 1 + u - 1 = u
    OBVIOUS
  <2>. QED  BY <1>3, <2>1
<1>6. Len(b) = n - qty /\ \A u \in 1 .. n - qty : b[u] = ls[qty + u]
  <2>1. n - first + 1 = n - qty /\ \A u \in 1 .. n - qty : first + u - 1 = qty + u
    BY <1>1, <1>2
  <2>2. ~(first <= n) => n - qty = 0
    BY <1>1, <1>2
  <2>. QED  BY <1>4, <2>1, <2>2
<1>7. Len(ls) = Len(a) + Len(b)
  BY <1>1, <1>5, <1>6 DEF n
<1>8. /\ \A u \in 1 .. Len(a) : ls[u] = a[u]
      /\ \A u \in 1 .. Len(b) : ls[Len(a) + u] = b[u]
  BY <1>5, <1>6
<1>9. a \in Seq(Nat) /\ b \in Seq(Nat) /\ Cost(ls) = Cost(a) + Cost(b)
  BY <1>3, <1>4, <1>7, <1>8, CostSplit
<1>10. a = SubSeq(ls, 1, qty) /\ b = SubSeq(ls, qty + 1, Len(ls))
  BY DEF a, b, n, first
<1>. QED  BY <1>9, <1>10

\* Equal lots cost what each costs, as often.
LEMMA CostEqual ==
  ASSUME NEW qty \in Nat, NEW price \in Nat
  PROVE  Cost([u \in 1 .. qty |-> price]) = qty * price
<1>. DEFINE ls == [u \in 1 .. qty |-> price]
<1>1. Units(ls) = (1 .. qty) \X (1 .. price)
  BY DEF Units
<1>2. /\ IsFiniteSet(1 .. qty) /\ Cardinality(1 .. qty) = qty
      /\ IsFiniteSet(1 .. price) /\ Cardinality(1 .. price) = price
  BY FS_Interval
<1>3. Cardinality((1 .. qty) \X (1 .. price)) = Cardinality(1 .. qty) * Cardinality(1 .. price)
  BY <1>2, FS_Product
<1>. HIDE DEF ls
<1>4. Cost(ls) = Cardinality(Units(ls))
  BY DEF Cost, Units
<1>. QED  BY <1>1, <1>2, <1>3, <1>4 DEF ls

-----------------------------------------------------------------------------
(* Each settlement keeps a holding balanced.                               *)

\* What a buy spends is in its lots and their fees.
LEMMA BoughtBalanced ==
  ASSUME NEW h \in Holding, Balanced(h), NEW qty \in Nat, NEW price \in Nat, NEW fee \in Nat
  PROVE  Balanced(Bought(h, qty, price, fee))
<1>. DEFINE new == [u \in 1 .. qty |-> price]
            g == Bought(h, qty, price, fee)
            amount == qty * price
            before == Cost(h.lots)
<1>1. /\ h.lots \in Seq(Nat) /\ Len(h.lots) \in Nat
      /\ h.realized \in Int /\ h.lotFees \in Nat /\ h.traded \in Int
  BY LenProperties DEF Holding
<1>2. new \in Seq(Nat) /\ Len(new) = qty
  OBVIOUS
<1>3. /\ g.lots = h.lots \o new /\ g.realized = h.realized
      /\ g.lotFees = h.lotFees + fee /\ g.traded = h.traded - amount - fee
  BY DEF Bought, Holding
<1>4. Cost(h.lots \o new) = before + Cost(new)
  BY <1>1, <1>2, CostConcat
<1>5. Cost(new) = amount
  BY CostEqual
<1>6. before \in Nat /\ amount \in Nat
  <2>1. amount \in Nat
    OBVIOUS
  <2>2. before \in Nat
    BY <1>1, CostNat
  <2>. QED  BY <2>1, <2>2
<1>7. Cost(g.lots) = before + amount /\ h.traded + before + h.lotFees = h.realized
  BY <1>3, <1>4, <1>5 DEF Balanced
<1>. HIDE DEF new, g, amount, before
<1>8. g.traded + (before + amount) + g.lotFees = g.realized
  BY <1>1, <1>3, <1>6, <1>7
<1>. QED  BY <1>7, <1>8 DEF Balanced, g

\* What a sale brings in, less what its lots cost, is what it books.
LEMMA SoldBalanced ==
  ASSUME NEW h \in Holding, Balanced(h), NEW qty \in Nat, qty <= Len(h.lots),
         NEW price \in Nat, NEW fee \in Nat
  PROVE  Balanced(Sold(h, qty, price, fee))
<1>. DEFINE sold == SubSeq(h.lots, 1, qty)
            kept == SubSeq(h.lots, qty + 1, Len(h.lots))
            g == Sold(h, qty, price, fee)
            amount == qty * price
            all == Cost(h.lots)
            out == Cost(sold)
            left == Cost(kept)
<1>1. /\ h.lots \in Seq(Nat) /\ Len(h.lots) \in Nat
      /\ h.realized \in Int /\ h.lotFees \in Nat /\ h.traded \in Int
  BY LenProperties DEF Holding
<1>2. /\ g.lots = kept /\ g.realized = h.realized + amount - out - fee
      /\ g.lotFees = h.lotFees /\ g.traded = h.traded + amount - fee
  BY DEF Sold, Holding
<1>3. sold \in Seq(Nat) /\ kept \in Seq(Nat) /\ all = out + left
  BY <1>1, CostCut
<1>4. amount \in Nat /\ out \in Nat /\ left \in Nat
  <2>1. amount \in Nat
    OBVIOUS
  <2>. HIDE DEF sold, kept, amount
  <2>2. out \in Nat /\ left \in Nat
    BY <1>3, CostNat
  <2>. QED  BY <2>1, <2>2
<1>5. Cost(g.lots) = left /\ h.traded + all + h.lotFees = h.realized
  BY <1>2 DEF Balanced
<1>. HIDE DEF sold, kept, g, amount, all, out, left
<1>6. g.traded + left + g.lotFees = g.realized
  BY <1>1, <1>2, <1>3, <1>4, <1>5
<1>. QED  BY <1>5, <1>6 DEF Balanced, g

\* So a fill keeps the books balanced, and touches no other instrument's.
LEMMA ExecutedBalanced ==
  ASSUME NEW d \in Books, BooksBalanced(d), NEW o \in DOMAIN d.orders,
         NEW qty \in Nat, NEW reference \in Nat,
         d.orders[o].side = "SELL" => qty <= Held(d, d.orders[o].inst)
  PROVE  BooksBalanced(Executed(d, o, qty, reference))
<1>. DEFINE r == d.orders[o]
            price == FillPrice(reference, r.side, qty)
            fee == Commission(qty * price)
            h == d.holding[r.inst]
            e == Executed(d, o, qty, reference)
<1>1. r.inst \in Instruments /\ r.side \in {"BUY", "SELL"}
  BY RowOf DEF OrderRow
<1>2. price \in Nat /\ fee \in Nat
  <2>1. price \in Nat
    BY FillPriceNat
  <2>2. qty * price \in Nat
    BY <2>1
  <2>. QED  BY <2>1, <2>2, CommissionNat
<1>3. e.holding = [d.holding EXCEPT ![r.inst] =
                     IF r.side = "BUY" THEN Bought(@, qty, price, fee) ELSE Sold(@, qty, price, fee)]
  BY DEF Executed
<1>. HIDE DEF price, fee, e
<1>4. h \in Holding /\ Balanced(h)
  BY <1>1 DEF Books, BooksBalanced
<1>5. /\ \A i \in Instruments \ {r.inst} : e.holding[i] = d.holding[i]
      /\ e.holding[r.inst] = IF r.side = "BUY" THEN Bought(h, qty, price, fee)
                                               ELSE Sold(h, qty, price, fee)
  BY <1>1, <1>3 DEF Books
<1>6. Balanced(e.holding[r.inst])
  <2>1. CASE r.side = "BUY"
    BY <1>2, <1>4, <1>5, <2>1, BoughtBalanced
  <2>2. CASE r.side # "BUY"
    <3>1. qty <= Len(h.lots)
      BY <1>1, <2>2 DEF Held
    <3>2. Balanced(Sold(h, qty, price, fee))
      BY <1>2, <1>4, <3>1, SoldBalanced
    <3>. QED  BY <1>5, <2>2, <3>2
  <2>. QED  BY <2>1, <2>2
<1>7. BooksBalanced(e)
  BY <1>5, <1>6 DEF BooksBalanced
<1>. QED  BY <1>7 DEF e

\* Seeding a holding is a buy without a fee.
LEMMA SeededBalanced ==
  ASSUME NEW d \in Books, BooksBalanced(d), NEW s \in Seeds, CanSeed(d, s)
  PROVE  BooksBalanced(Seeded(d, s))
<1>. DEFINE e == Seeded(d, s)
            h == d.holding[s.inst]
<1>1. s.inst \in Instruments /\ s.qty \in Nat /\ s.basis \in Nat
  BY BrokerAssumption
<1>2. h \in Holding /\ Balanced(h)
  BY <1>1 DEF Books, BooksBalanced
<1>3. /\ e.holding[s.inst] = Bought(h, s.qty, s.basis, 0)
      /\ \A i \in Instruments \ {s.inst} : e.holding[i] = d.holding[i]
  BY <1>1 DEF Seeded, Books
<1>. HIDE DEF e, h
<1>4. \A q, p, f \in Nat : Balanced(Bought(h, q, p, f))
  BY <1>2, BoughtBalanced
<1>5. Balanced(e.holding[s.inst])
  BY <1>1, <1>3, <1>4
<1>6. BooksBalanced(e)
  BY <1>3, <1>5 DEF BooksBalanced, h
<1>. QED  BY <1>6 DEF e

-----------------------------------------------------------------------------
(* So every step keeps both the running and the committed books balanced.  *)

BothBalanced == BooksBalanced(db) /\ BooksBalanced(saved)

\* Operations that leave the holdings alone leave them balanced.
LEMMA HoldingsKept ==
  ASSUME NEW d \in Books, NEW o, NEW status, NEW r, NEW live, NEW t
  PROVE  /\ Closed(d, o, status).holding = d.holding
         /\ Placed(d, r, live, t).holding = d.holding
BY DEF Closed, Placed, Books

\* Every action keeps the books balanced.
LEMMA StepBalanced ==
  ASSUME IInv, BothBalanced, [Next]_vars
  PROVE  BothBalanced'
<1>1. /\ db \in Books /\ saved \in Books
      /\ TypeOK /\ OrdersReconcile /\ BooksBalanced(db) /\ BooksBalanced(saved)
  BY DEF IInv, TypeOK, BothBalanced
<1>2. ASSUME NEW books, BooksBalanced(books), Commit(books)  PROVE BothBalanced'
  BY <1>2 DEF Commit, BothBalanced, BooksBalanced
<1>3. ASSUME NEW books, BooksBalanced(books), NEW o, Leaving(o, books)  PROVE BothBalanced'
  BY <1>1, <1>3 DEF Leaving, BothBalanced, BooksBalanced
<1>4. ASSUME NEW books, books.holding = db.holding  PROVE BooksBalanced(books)
  BY <1>1, <1>4 DEF BooksBalanced
<1>5. CASE UNCHANGED <<db, saved>>
  BY <1>1, <1>5 DEF BothBalanced, BooksBalanced
<1>6. CASE Tick \/ PauseOrResume \/ UNCHANGED vars
  BY <1>5, <1>6 DEF Tick, PauseOrResume, vars
<1>7. ASSUME NEW r \in Requests, PlaceOrder(r)  PROVE BothBalanced'
  <2>1. Placed(db, r, active, now).holding = db.holding
    BY <1>1, HoldingsKept
  <2>. QED  BY <1>2, <1>4, <1>7, <2>1 DEF PlaceOrder
<1>8. ASSUME NEW o \in DOMAIN db.orders, CancelOrder(o)  PROVE BothBalanced'
  <2>1. Closed(db, o, "CANCELED").holding = db.holding
    BY <1>1, HoldingsKept
  <2>. QED  BY <1>2, <1>4, <1>8, <2>1 DEF CancelOrder
<1>9. ASSUME NEW s \in Seeds, SeedHolding(s)  PROVE BothBalanced'
  <2>1. CanSeed(db, s) /\ Commit(Seeded(db, s))
    BY <1>9 DEF SeedHolding
  <2>. QED  BY <1>1, <1>2, <2>1, SeededBalanced
<1>10. ASSUME NEW i \in Instruments, NEW q \in Quotes, BeginPass(i, q)  PROVE BothBalanced'
  BY <1>5, <1>10 DEF BeginPass
<1>11. ASSUME NEW o \in pass.todo,
              ExpireOrder(o) \/ RestOrder(o) \/ StarveOrder(o) \/ FillOrder(o) \/ AbortPass(o)
       PROVE  BothBalanced'
  <2>1. /\ Kept(o) \in Books /\ o \in DOMAIN Kept(o).orders /\ Kept(o).orders[o] = Row(o)
        /\ Kept(o).holding = db.holding
    BY <1>1, KeptBooks
  <2>2. /\ BooksBalanced(Kept(o)) /\ BooksBalanced(Closed(Kept(o), o, "EXPIRED"))
        /\ BooksBalanced(Closed(db, o, "EXPIRED"))
    BY <1>1, <1>4, <2>1, HoldingsKept
  <2>3. CASE ExpireOrder(o)
    BY <1>3, <2>2, <2>3 DEF ExpireOrder
  <2>4. CASE RestOrder(o)
    <3>1. Leaving(o, IF Row(o).tif = "IOC" THEN Closed(Kept(o), o, "EXPIRED") ELSE Kept(o))
      BY <2>4 DEF RestOrder
    <3>. QED  BY <1>3, <2>2, <3>1
  <2>5. CASE StarveOrder(o)
    BY <1>3, <2>2, <2>5 DEF StarveOrder
  <2>6. CASE FillOrder(o)
    <3>1. PICK qty \in Executable(db, Row(o), Price(o)) \ {0} :
            Leaving(o, Executed(Kept(o), o, qty, Price(o)))
      BY <2>6 DEF FillOrder
    <3>2. qty \in Nat /\ (Row(o).side = "SELL" => qty <= Held(db, Row(o).inst))
      BY <1>1, <3>1, ExecutableQty
    <3>3. Price(o) \in Nat
      BY <1>1, ReferenceNat
    <3>4. Kept(o).orders[o].side = "SELL" => qty <= Held(Kept(o), Kept(o).orders[o].inst)
      BY <2>1, <3>2 DEF Held
    <3>5. BooksBalanced(Executed(Kept(o), o, qty, Price(o)))
      BY <2>1, <2>2, <3>2, <3>3, <3>4, ExecutedBalanced
    <3>. QED  BY <1>3, <3>1, <3>5
  <2>7. CASE AbortPass(o)
    BY <1>1, <2>7 DEF AbortPass, BothBalanced, BooksBalanced
  <2>. QED  BY <1>11, <2>3, <2>4, <2>5, <2>6, <2>7
<1>12. CASE EndPass
  BY <1>1, <1>2, <1>12 DEF EndPass
<1>. QED  BY <1>6, <1>7, <1>8, <1>9, <1>10, <1>11, <1>12 DEF Next, PassStep

\* A new portfolio has traded nothing.
LEMMA InitBalanced == Init => BothBalanced
<1>1. << >> \in Seq(Nat) /\ Units(<< >>) = {}
  BY DEF Units
<1>2. Cost(<< >>) = 0
  BY <1>1, UnitsFinite, FS_EmptySet
<1>. QED  BY <1>2 DEF Init, EmptyBooks, BothBalanced, BooksBalanced, Balanced

\* The accounting identity: for every instrument the cash its trades moved, the cost of
\* what is still held and the fees in it add up to the profit booked, whatever was bought,
\* sold in parts, oldest first, closed, seeded and opened again, and whatever was rolled back.
THEOREM BooksAlwaysBalance == Spec => []BooksBalance
<1>1. IInv /\ BothBalanced /\ [Next]_vars => BothBalanced'
  BY StepBalanced
<1>2. BothBalanced => BooksBalance
  BY DEF BothBalanced, BooksBalanced, Balanced, BooksBalance
<1>. QED  BY <1>1, <1>2, InitBalanced, Inductive, PTL DEF Spec

=============================================================================
