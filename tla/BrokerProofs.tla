----------------------------- MODULE BrokerProofs -----------------------------
(***************************************************************************)
(* Theorems about Broker, for every value of its constants.                *)
(***************************************************************************)
EXTENDS Broker, FiniteSetTheorems, SequenceTheorems, TLAPS

-----------------------------------------------------------------------------
(* The cost model computes amounts of money. *)

\* Rounding an integer gives an integer.
LEMMA QuantizeInt ==
  ASSUME NEW n \in Int
  PROVE  Quantize(n) \in Int
BY RulesAssumption DEF Quantize

\* Rounding an amount gives an amount.
LEMMA QuantizeNat ==
  ASSUME NEW n \in Nat
  PROVE  Quantize(n) \in Nat
BY RulesAssumption DEF Quantize

\* Rounding keeps the order of amounts.
LEMMA QuantizeMonotone ==
  ASSUME NEW m \in Int, NEW n \in Int, m <= n
  PROVE  Quantize(m) <= Quantize(n)
BY RulesAssumption DEF Quantize

\* A commission is an amount of money.
LEMMA CommissionNat ==
  ASSUME NEW n \in Nat
  PROVE  Commission(n) \in Nat
<1>1. n * CommissionBps \in Nat
  BY RulesAssumption
<1>2. Quantize(n * CommissionBps) \in Nat
  BY <1>1, QuantizeNat
<1>. QED  BY <1>2, RulesAssumption DEF Commission, Larger

\* A fill price is positive, on either side and whatever the impact.
LEMMA FillPriceNat ==
  ASSUME NEW reference \in Nat, NEW side, NEW qty \in Nat
  PROVE  FillPrice(reference, side, qty) \in Nat \ {0}
<1>. DEFINE drift == SlippageBps + Impact(qty, reference)
            factor == IF side = "BUY" THEN Scale + drift ELSE Scale - drift
<1>1. drift \in Nat
  BY RulesAssumption DEF Impact
<1>2. factor \in Int
  BY <1>1, RulesAssumption
<1>3. reference * factor \in Int
  BY <1>2
<1>4. Quantize(reference * factor) \in Int
  BY <1>3, QuantizeInt
<1>. QED  BY <1>4 DEF FillPrice, Larger

\* What a buy costs is an amount of money.
LEMMA BuyCostNat ==
  ASSUME NEW qty \in Nat, NEW price \in Nat
  PROVE  BuyCost(qty, price) \in Nat
<1>1. qty * price \in Nat
  OBVIOUS
<1>. QED  BY <1>1, CommissionNat DEF BuyCost

\* What place_order holds back is an amount of money.
LEMMA ReservationNat ==
  ASSUME NEW qty \in Nat, NEW reference \in Nat
  PROVE  Reservation(qty, reference) \in Nat
BY FillPriceNat, BuyCostNat DEF Reservation

\* Rounding down to whole shares never asks for more.
LEMMA WholeUnitsNat ==
  ASSUME NEW qty \in Nat
  PROVE  WholeUnits(qty) \in Nat /\ WholeUnits(qty) <= qty
BY RulesAssumption DEF WholeUnits

-----------------------------------------------------------------------------
(* Claims: finite sets with one element per unit, counted by Cardinality.  *)

Claims(D, g) == UNION {{u} \X g[u] : u \in D}

\* Finitely many claims on finitely many units are a finite set.
LEMMA ClaimsFinite ==
  ASSUME NEW D, IsFiniteSet(D), NEW g, \A u \in D : IsFiniteSet(g[u])
  PROVE  IsFiniteSet(Claims(D, g))
<1>. DEFINE claims == {{u} \X g[u] : u \in D}
            f == [u \in D |-> {u} \X g[u]]
<1>1. f \in Surjection(D, claims)
  BY DEF Surjection
<1>2. IsFiniteSet(claims)
  BY <1>1, FS_Surjection
<1>3. \A T \in claims : IsFiniteSet(T)
  <2>1. ASSUME NEW u \in D  PROVE IsFiniteSet({u} \X g[u])
    <3>1. IsFiniteSet({u}) /\ IsFiniteSet(g[u])
      BY FS_Singleton
    <3>. QED  BY <3>1, FS_Product
  <2>. QED  BY <2>1
<1>. QED  BY <1>2, <1>3, FS_UNION DEF Claims

\* What a run of lots cost is an amount of money.
LEMMA CostNat ==
  ASSUME NEW ls \in Seq(Nat)
  PROVE  Cost(ls) \in Nat
<1>. DEFINE g == [u \in DOMAIN ls |-> 1 .. ls[u]]
<1>1. IsFiniteSet(DOMAIN ls)
  BY FS_Interval, LenProperties
<1>2. \A u \in DOMAIN ls : IsFiniteSet(g[u])
  BY FS_Interval, LenProperties, ElementOfSeq
<1>. HIDE DEF g
<1>3. IsFiniteSet(Claims(DOMAIN ls, g))
  BY <1>1, <1>2, ClaimsFinite
<1>4. Claims(DOMAIN ls, g) = UNION {{u} \X (1 .. ls[u]) : u \in DOMAIN ls}
  BY DEF g, Claims
<1>. QED  BY <1>3, <1>4, FS_CardinalityType DEF Cost

-----------------------------------------------------------------------------
(* Every operation on the books yields books. *)

\* Replacing one order row leaves books.
LEMMA RowReplaced ==
  ASSUME NEW d \in Books, NEW o \in DOMAIN d.orders, NEW row \in OrderRow
  PROVE  /\ [d EXCEPT !.orders[o] = row] \in Books
         /\ DOMAIN [d EXCEPT !.orders[o] = row].orders = DOMAIN d.orders
         /\ Len([d EXCEPT !.orders[o] = row].orders) = Len(d.orders)
<1>. DEFINE rows == [d.orders EXCEPT ![o] = row]
<1>1. d.orders \in Seq(OrderRow) /\ o \in 1 .. Len(d.orders)
  BY LenProperties DEF Books
<1>2. rows \in Seq(OrderRow) /\ Len(rows) = Len(d.orders)
  BY <1>1, ExceptSeq
<1>3. DOMAIN rows = DOMAIN d.orders
  BY <1>1, <1>2, LenProperties
<1>4. [d EXCEPT !.orders[o] = row] = [d EXCEPT !.orders = rows]
  BY DEF Books
<1>. QED  BY <1>2, <1>3, <1>4 DEF Books

\* The rows of some books are order rows.
LEMMA RowOf ==
  ASSUME NEW d \in Books, NEW o \in DOMAIN d.orders
  PROVE  d.orders[o] \in OrderRow
BY LenProperties, ElementOfSeq DEF Books

ClosedRow(r, status) == [r EXCEPT !.status = status, !.reserved = 0]

\* Closing an order leaves books, and touches that one row.
LEMMA ClosedBooks ==
  ASSUME NEW d \in Books, NEW o \in DOMAIN d.orders, NEW status \in Statuses
  PROVE  /\ Closed(d, o, status) \in Books
         /\ DOMAIN Closed(d, o, status).orders = DOMAIN d.orders
         /\ Len(Closed(d, o, status).orders) = Len(d.orders)
         /\ Closed(d, o, status) = [d EXCEPT !.orders[o] = ClosedRow(d.orders[o], status)]
<1>. DEFINE row == ClosedRow(d.orders[o], status)
<1>0. d.orders[o] \in OrderRow
  BY RowOf
<1>1. row \in OrderRow
  BY <1>0 DEF ClosedRow, OrderRow
<1>2. Closed(d, o, status) = [d EXCEPT !.orders[o] = row]
  BY <1>0, LenProperties DEF Closed, ClosedRow, Books, OrderRow
<1>. QED  BY <1>1, <1>2, RowReplaced

\* Electing a stop leaves an order row.
LEMMA ElectedRow ==
  ASSUME NEW r \in OrderRow, NEW q
  PROVE  Elected(r, q) \in OrderRow
BY DEF Elected, OrderRow, StopTriggered

\* What place_order writes is an order row, granted or refused.
LEMMA NewRow ==
  ASSUME NEW r \in Requests, ValidRequest(r), NEW t \in Nat
  PROVE  NewOrder(r, t) \in OrderRow /\ Refused(NewOrder(r, t)) \in OrderRow
<1>1. /\ r.inst \in Instruments /\ r.side \in {"BUY", "SELL"}
      /\ r.type \in {"MARKET"} \cup Limited \cup Stopped /\ r.tif \in {"DAY", "GTC", "IOC"}
      /\ r.qty \in Nat /\ r.limit \in Nat /\ r.stop \in Nat /\ r.ref \in Nat /\ r.client \in Nat
  BY BrokerAssumption
<1>2. WholeUnits(r.qty) \in Nat \ {0}
  BY <1>1, WholeUnitsNat DEF ValidRequest
<1>3. Expiry(r.tif, t) \in Int
  BY DEF Expiry, None, SessionClose
<1>4. PricedAt(r) \in Nat
  BY <1>1 DEF PricedAt
<1>5. Reservation(WholeUnits(r.qty), PricedAt(r)) \in Nat
  BY <1>2, <1>4, ReservationNat
<1>. QED  BY <1>1, <1>2, <1>3, <1>5 DEF NewOrder, Refused, OrderRow, Statuses, OpenStatuses

\* Placing an order leaves books.
LEMMA PlacedBooks ==
  ASSUME NEW d \in Books, NEW r \in Requests, ValidRequest(r), NEW live, NEW t \in Nat
  PROVE  /\ Placed(d, r, live, t) \in Books
         /\ Len(Placed(d, r, live, t).orders) <= Len(d.orders) + 1
<1>. DEFINE row == IF Rejects(d, r, live, t) THEN Refused(NewOrder(r, t)) ELSE NewOrder(r, t)
<1>1. row \in OrderRow
  <2>1. NewOrder(r, t) \in OrderRow /\ Refused(NewOrder(r, t)) \in OrderRow
    BY NewRow
  <2>. QED  BY <2>1
<1>2. d.orders \in Seq(OrderRow)
  BY DEF Books
<1>3. Append(d.orders, row) \in Seq(OrderRow) /\ Len(Append(d.orders, row)) = Len(d.orders) + 1
  BY <1>1, <1>2, AppendProperties
<1>4. CASE IsDuplicate(d, r)
  BY <1>2, <1>4, LenProperties DEF Placed
<1>5. CASE ~IsDuplicate(d, r)
  <2>1. Placed(d, r, live, t) = [d EXCEPT !.orders = Append(d.orders, row)]
    BY <1>5 DEF Placed
  <2>. HIDE DEF row
  <2>2. Placed(d, r, live, t) \in Books
    BY <1>3, <2>1 DEF Books
  <2>3. Placed(d, r, live, t).orders = Append(d.orders, row)
    BY <2>1 DEF Books
  <2>4. Len(d.orders) \in Nat
    BY <1>2, LenProperties
  <2>. QED  BY <1>3, <2>2, <2>3, <2>4
<1>. QED  BY <1>4, <1>5

\* Settling a buy leaves a holding.
LEMMA BoughtHolding ==
  ASSUME NEW h \in Holding, NEW qty \in Nat, NEW price \in Nat, NEW fee \in Nat
  PROVE  Bought(h, qty, price, fee) \in Holding
<1>1. [u \in 1 .. qty |-> price] \in Seq(Nat)
  OBVIOUS
<1>2. h.lots \o [u \in 1 .. qty |-> price] \in Seq(Nat)
  BY <1>1, ConcatProperties DEF Holding
<1>3. qty * price \in Nat
  OBVIOUS
<1>4. h.traded - qty * price - fee \in Int /\ h.fees + fee \in Nat /\ h.lotFees + fee \in Nat
  BY <1>3 DEF Holding
<1>. QED  BY <1>2, <1>4 DEF Bought, Holding

\* Settling a sell of no more than is held leaves a holding.
LEMMA SoldHolding ==
  ASSUME NEW h \in Holding, NEW qty \in Nat, qty <= Len(h.lots),
         NEW price \in Nat, NEW fee \in Nat
  PROVE  Sold(h, qty, price, fee) \in Holding
<1>1. h.lots \in Seq(Nat) /\ Len(h.lots) \in Nat
  BY LenProperties DEF Holding
<1>2. SubSeq(h.lots, qty + 1, Len(h.lots)) \in Seq(Nat)
  BY <1>1, ElementOfSeq, SubSeqProperties
<1>3. SubSeq(h.lots, 1, qty) \in Seq(Nat)
  BY <1>1, ElementOfSeq, SubSeqProperties
<1>4. Cost(SubSeq(h.lots, 1, qty)) \in Nat
  BY <1>3, CostNat
<1>5. qty * price \in Nat
  OBVIOUS
<1>6. /\ h.realized + qty * price - Cost(SubSeq(h.lots, 1, qty)) - fee \in Int
      /\ h.traded + qty * price - fee \in Int /\ h.fees + fee \in Nat
  BY <1>4, <1>5 DEF Holding
<1>. QED  BY <1>2, <1>6 DEF Sold, Holding

\* Recording a fill leaves an order row.
LEMMA FilledRowTyped ==
  ASSUME NEW r \in OrderRow, NEW qty \in Nat, NEW price \in Nat, NEW fee \in Nat
  PROVE  FilledRow(r, qty, price, fee) \in OrderRow
<1>1. qty * price \in Nat
  OBVIOUS
<1>2. r.value + qty * price \in Nat /\ r.reserved - (qty * price + fee) \in Int
  BY <1>1 DEF OrderRow
<1>. DEFINE done == r.filled + qty >= r.qty
            status == IF done THEN "FILLED" ELSE "PARTIALLY_FILLED"
            reserved == IF done THEN 0 ELSE Larger(0, r.reserved - (qty * price + fee))
<1>3. status \in Statuses /\ reserved \in Nat
  BY <1>2 DEF Statuses, OpenStatuses, Larger
<1>4. FilledRow(r, qty, price, fee) =
        [r EXCEPT !.filled = r.filled + qty, !.value = r.value + qty * price,
                  !.status = status, !.reserved = reserved]
  BY DEF FilledRow, OrderRow
<1>. HIDE DEF status, reserved
<1>5. r.filled + qty \in Nat
  BY DEF OrderRow
<1>. QED  BY <1>2, <1>3, <1>4, <1>5 DEF OrderRow

\* A fill that the code's own checks let through leaves books behind.
LEMMA ExecutedBooks ==
  ASSUME NEW d \in Books, NEW o \in DOMAIN d.orders, NEW qty \in Nat, NEW reference \in Nat,
         ~FillRaises(d, d.orders[o], qty, reference),
         d.orders[o].side = "SELL" => qty <= Held(d, d.orders[o].inst)
  PROVE  /\ Executed(d, o, qty, reference) \in Books
         /\ DOMAIN Executed(d, o, qty, reference).orders = DOMAIN d.orders
         /\ Len(Executed(d, o, qty, reference).orders) = Len(d.orders)
<1>. DEFINE r == d.orders[o]
            price == FillPrice(reference, r.side, qty)
            fee == Commission(qty * price)
            row == FilledRow(r, qty, price, fee)
            rows == [d.orders EXCEPT ![o] = row]
            h == d.holding[r.inst]
            held == IF r.side = "BUY" THEN Bought(h, qty, price, fee) ELSE Sold(h, qty, price, fee)
            cash == IF r.side = "BUY" THEN d.cash - qty * price - fee ELSE d.cash + qty * price - fee
<1>1. r \in OrderRow /\ r.inst \in Instruments /\ r.side \in {"BUY", "SELL"}
  BY RowOf DEF OrderRow
<1>2. price \in Nat
  BY FillPriceNat
<1>3. qty * price \in Nat
  BY <1>2
<1>4. fee \in Nat
  BY <1>3, CommissionNat
<1>5. d.orders \in Seq(OrderRow) /\ o \in 1 .. Len(d.orders)
  BY LenProperties DEF Books
<1>6. row \in OrderRow
  BY <1>1, <1>2, <1>4, FilledRowTyped
<1>7. rows \in Seq(OrderRow) /\ Len(rows) = Len(d.orders) /\ DOMAIN rows = DOMAIN d.orders
  BY <1>5, <1>6, ExceptSeq, LenProperties
<1>8. h \in Holding
  BY <1>1 DEF Books
<1>9. held \in Holding
  <2>1. CASE r.side = "BUY"
    BY <1>2, <1>4, <1>8, <2>1, BoughtHolding
  <2>2. CASE r.side # "BUY"
    <3>1. qty <= Len(h.lots)
      BY <1>1, <2>2 DEF Held
    <3>2. Sold(h, qty, price, fee) \in Holding
      BY <1>2, <1>4, <1>8, <3>1, SoldHolding
    <3>. QED  BY <2>2, <3>2
  <2>. QED  BY <2>1, <2>2
<1>10. cash \in Nat
  <2>1. d.cash \in Nat
    BY DEF Books
  <2>2. IF r.side = "BUY" THEN ~(d.cash < qty * price + fee) ELSE ~(d.cash + qty * price < fee)
    BY DEF FillRaises
  <2>. HIDE DEF price, fee
  <2>. QED  BY <1>3, <1>4, <2>1, <2>2
<1>11. Executed(d, o, qty, reference) =
         [cash |-> cash, orders |-> rows, holding |-> [d.holding EXCEPT ![r.inst] = held]]
  BY <1>1 DEF Executed, Books
<1>. HIDE DEF r, price, fee, row, rows, h, held, cash
<1>12. [d.holding EXCEPT ![r.inst] = held] \in [Instruments -> Holding]
  BY <1>9 DEF Books
<1>. QED  BY <1>7, <1>10, <1>11, <1>12 DEF Books

\* Seeding a holding the cash covers leaves books.
LEMMA SeededBooks ==
  ASSUME NEW d \in Books, NEW s \in Seeds, CanSeed(d, s)
  PROVE  Seeded(d, s) \in Books /\ Len(Seeded(d, s).orders) = Len(d.orders) + 1
<1>1. s.inst \in Instruments /\ s.qty \in Nat \ {0} /\ s.basis \in Nat
  BY BrokerAssumption DEF CanSeed
<1>2. s.qty * s.basis \in Nat
  BY <1>1
<1>3. d.cash - s.qty * s.basis \in Nat
  BY <1>2 DEF CanSeed, Books
<1>4. SeedRow(s) \in OrderRow
  BY <1>1, <1>2 DEF SeedRow, OrderRow, Statuses, OpenStatuses, None
<1>5. /\ Append(d.orders, SeedRow(s)) \in Seq(OrderRow)
      /\ Len(Append(d.orders, SeedRow(s))) = Len(d.orders) + 1
  BY <1>4, AppendProperties DEF Books
<1>6. Bought(d.holding[s.inst], s.qty, s.basis, 0) \in Holding
  BY <1>1, BoughtHolding DEF Books
<1>7. [d.holding EXCEPT ![s.inst] = Bought(@, s.qty, s.basis, 0)] \in [Instruments -> Holding]
  BY <1>1, <1>6 DEF Books
<1>. QED  BY <1>3, <1>5, <1>7 DEF Seeded, Books

\* A portfolio starts with books.
LEMMA EmptyBooksTyped == EmptyBooks(InitialCapital) \in Books
BY BrokerAssumption DEF EmptyBooks, Books, Holding

\* The idle pass is a pass.
LEMMA IdleTyped == Idle \in Passes
<1>1. (CHOOSE i \in Instruments : TRUE) \in Instruments
  BY BrokerAssumption
<1>2. (CHOOSE q \in Quotes : TRUE) \in Quotes
  BY BrokerAssumption
<1>. QED  BY <1>1, <1>2 DEF Idle, Passes

\* A pass only ever works rows of its own books, elected or not.
LEMMA KeptBooks ==
  ASSUME TypeOK, NEW o \in pass.todo
  PROVE  /\ o \in DOMAIN db.orders /\ Row(o) \in OrderRow
         /\ Kept(o) \in Books
         /\ Kept(o).orders[o] = Row(o)
         /\ Kept(o).holding = db.holding /\ Kept(o).cash = db.cash
         /\ DOMAIN Kept(o).orders = DOMAIN db.orders
         /\ Len(Kept(o).orders) = Len(db.orders)
<1>1. o \in DOMAIN db.orders /\ db \in Books
  BY DEF TypeOK
<1>2. Row(o) \in OrderRow
  BY <1>1, RowOf, ElectedRow DEF Row
<1>3. /\ Kept(o) \in Books /\ DOMAIN Kept(o).orders = DOMAIN db.orders
      /\ Len(Kept(o).orders) = Len(db.orders)
  BY <1>1, <1>2, RowReplaced DEF Kept
<1>4. /\ Kept(o).orders[o] = Row(o)
      /\ Kept(o).holding = db.holding /\ Kept(o).cash = db.cash
  BY <1>1 DEF Kept, Books
<1>. QED  BY <1>1, <1>2, <1>3, <1>4

\* The price a quote fills an order at is a price.
LEMMA ReferenceNat ==
  ASSUME TypeOK, NEW o \in pass.todo
  PROVE  Price(o) \in Nat
<1>1. pass.quote \in Quotes
  BY DEF TypeOK, Passes
<1>2. pass.quote.price \in Nat /\ pass.quote.bid \in Nat /\ pass.quote.ask \in Nat
  BY <1>1, BrokerAssumption
<1>. QED  BY <1>2 DEF Price, Reference, SidePrice

\* An open order that reconciles still has something to fill.
LEMMA OpenRemainder ==
  ASSUME TypeOK, OrdersReconcile, NEW o \in pass.todo
  PROVE  Row(o).qty - Row(o).filled \in Nat
<1>1. RowReconciles(db.orders[o]) /\ db.orders[o] \in OrderRow
  BY RowOf DEF TypeOK, OrdersReconcile, RowsReconcile
<1>2. Row(o).qty = db.orders[o].qty /\ Row(o).filled = db.orders[o].filled
  BY <1>1 DEF Row, Elected, OrderRow
<1>. QED  BY <1>1, <1>2 DEF RowReconciles, OrderRow

\* What a tick executes of an order is a quantity, and of a sell never more than is held.
LEMMA ExecutableQty ==
  ASSUME TypeOK, OrdersReconcile, NEW o \in pass.todo, NEW qty \in Executable(db, Row(o), Price(o))
  PROVE  qty \in Nat /\ (Row(o).side = "SELL" => qty <= Held(db, Row(o).inst))
<1>. DEFINE whole == WholeUnits(Row(o).qty - Row(o).filled)
<1>1. whole \in Nat
  BY OpenRemainder, WholeUnitsNat
<1>2. db \in Books /\ Row(o) \in OrderRow
  BY KeptBooks DEF TypeOK
<1>. HIDE DEF whole
<1>3. CASE Row(o).side = "BUY"
  <2>1. qty \in Affordable(db, whole, Price(o))
    BY <1>3 DEF Executable, whole
  <2>2. FillPrice(Price(o), "BUY", whole) \in Nat \ {0} /\ db.cash \in Nat
    BY <1>1, <1>2, ReferenceNat, FillPriceNat DEF Books
  <2>3. qty \in Nat
    BY <1>1, <2>1, <2>2 DEF Affordable
  <2>. QED  BY <1>3, <2>3
<1>4. CASE Row(o).side # "BUY"
  <2>1. qty = Smaller(whole, Held(db, Row(o).inst))
    BY <1>4 DEF Executable, whole
  <2>2. Held(db, Row(o).inst) \in Nat
    BY <1>2, LenProperties DEF Held, Books, OrderRow, Holding
  <2>. QED  BY <1>1, <2>1, <2>2 DEF Smaller
<1>. QED  BY <1>3, <1>4

-----------------------------------------------------------------------------
(* The inductive invariant.  A pass works on rows nobody else touches: what *)
(* it has still to visit is as committed and open, and what it has visited  *)
(* differs from what is committed by one legal move.                        *)

Entry(r) == [status |-> r.status, qty |-> r.qty, filled |-> r.filled]

Visited(a, b) ==
  /\ b.client = a.client /\ b.type = a.type
  /\ a.armed => b.armed
  /\ b.type \in Stopped /\ b.filled > a.filled => b.armed
  /\ Entry(b) = Entry(a) \/ Book!Moved(Entry(a), Entry(b))

PassInv ==
  /\ ~pass.busy => db = saved /\ pass.todo = {}
  /\ DOMAIN db.orders = DOMAIN saved.orders
  /\ \A o \in pass.todo : IsOpenOrder(db.orders[o]) /\ db.orders[o] = saved.orders[o]
  /\ \A o \in DOMAIN db.orders : Visited(saved.orders[o], db.orders[o])

IInv == TypeOK /\ OrdersReconcile /\ RetriesAreOnce /\ PassInv

\* A row that is left alone counts as visited.
LEMMA VisitedSelf ==
  ASSUME NEW r \in OrderRow
  PROVE  Visited(r, r)
BY DEF Visited, Entry, OrderRow

\* A call that runs alone and commits books that are in order keeps the invariant.
LEMMA CommitKeeps ==
  ASSUME IInv, NEW books \in Books, Len(books.orders) <= MaxOrders,
         RowsReconcile(books), OneRowPerClient(books),
         now' \in 0 .. MaxTime, active' \in BOOLEAN,
         Commit(books), pass' \in Passes, ~pass'.busy, pass'.todo = {}
  PROVE  IInv'
<1>1. db' = books /\ saved' = books
  BY DEF Commit
<1>2. TypeOK'
  BY <1>1 DEF TypeOK
<1>3. OrdersReconcile' /\ RetriesAreOnce'
  BY <1>1 DEF OrdersReconcile, RetriesAreOnce, RowsReconcile, OneRowPerClient
<1>4. PassInv'
  BY <1>1, RowOf, VisitedSelf DEF PassInv
<1>. QED  BY <1>2, <1>3, <1>4 DEF IInv

\* So does a pass that leaves o behind with a row in order, legally moved.
LEMMA LeavingKeeps ==
  ASSUME IInv, NEW o \in pass.todo, NEW books \in Books, Leaving(o, books),
         DOMAIN books.orders = DOMAIN db.orders, Len(books.orders) = Len(db.orders),
         \A p \in DOMAIN db.orders \ {o} : books.orders[p] = db.orders[p],
         RowReconciles(books.orders[o]), Visited(db.orders[o], books.orders[o])
  PROVE  IInv'
<1>1. /\ db' = books /\ saved' = saved /\ now' = now /\ active' = active
      /\ pass' = [pass EXCEPT !.todo = pass.todo \ {o}]
  BY DEF Leaving
<1>2. pass'.todo = pass.todo \ {o} /\ pass' \in Passes /\ pass'.busy = pass.busy
  BY <1>1 DEF IInv, TypeOK, Passes
<1>3. TypeOK'
  BY <1>1, <1>2 DEF IInv, TypeOK
<1>4. RowsReconcile(books) /\ RowsReconcile(saved)
  BY DEF IInv, OrdersReconcile, RowsReconcile
<1>5. \A p \in DOMAIN db.orders : books.orders[p].client = db.orders[p].client
  BY DEF Visited
<1>6. OneRowPerClient(books) /\ OneRowPerClient(saved)
  BY <1>5 DEF IInv, RetriesAreOnce, OneRowPerClient
<1>7. OrdersReconcile' /\ RetriesAreOnce'
  BY <1>1, <1>4, <1>6 DEF OrdersReconcile, RetriesAreOnce, RowsReconcile, OneRowPerClient
<1>8. pass.busy
  BY DEF IInv, PassInv
<1>9. PassInv'
  <2>1. db.orders[o] = saved.orders[o] /\ DOMAIN db.orders = DOMAIN saved.orders
    BY DEF IInv, PassInv
  <2>2. \A p \in DOMAIN books.orders : Visited(saved.orders[p], books.orders[p])
    BY <2>1 DEF IInv, PassInv
  <2>3. \A p \in pass.todo \ {o} : IsOpenOrder(books.orders[p]) /\ books.orders[p] = saved.orders[p]
    BY DEF IInv, PassInv, TypeOK
  <2>. QED  BY <1>1, <1>2, <1>8, <2>1, <2>2, <2>3 DEF PassInv
<1>. QED  BY <1>3, <1>7, <1>9 DEF IInv

-----------------------------------------------------------------------------
(* What each operation does to the one row it touches.                     *)

\* Closing an open row is a legal move and leaves it in order.
LEMMA ClosedRowMoves ==
  ASSUME NEW r \in OrderRow, RowReconciles(r), IsOpenOrder(r),
         NEW status \in {"CANCELED", "EXPIRED"}
  PROVE  RowReconciles(ClosedRow(r, status)) /\ Visited(r, ClosedRow(r, status))
<1>. DEFINE c == ClosedRow(r, status)
<1>1. /\ c.status = status /\ c.reserved = 0 /\ c.qty = r.qty /\ c.filled = r.filled
      /\ c.client = r.client /\ c.type = r.type /\ c.armed = r.armed
  BY DEF ClosedRow, OrderRow
<1>2. r.status \in OpenStatuses /\ r.filled \in Nat /\ r.qty \in Nat
  BY DEF IsOpenOrder, OrderRow
<1>3. RowReconciles(c)
  BY <1>1, <1>2 DEF RowReconciles, IsOpenOrder, OpenStatuses
<1>4. Book!Moved(Entry(r), Entry(c))
  BY <1>1, <1>2 DEF Book!Moved, Book!LegalTransitions, Entry, OpenStatuses
<1>. QED  BY <1>1, <1>2, <1>3, <1>4 DEF Visited

\* Electing a stop does not move a row in the order book.
LEMMA ElectedRowMoves ==
  ASSUME NEW r \in OrderRow, RowReconciles(r), NEW q
  PROVE  /\ RowReconciles(Elected(r, q)) /\ Visited(r, Elected(r, q))
         /\ IsOpenOrder(Elected(r, q)) <=> IsOpenOrder(r)
         /\ Entry(Elected(r, q)) = Entry(r)
<1>. DEFINE e == Elected(r, q)
<1>1. /\ e.status = r.status /\ e.reserved = r.reserved /\ e.qty = r.qty /\ e.filled = r.filled
      /\ e.client = r.client /\ e.type = r.type /\ (r.armed => e.armed)
  BY DEF Elected, OrderRow
<1>2. r.filled \in Nat /\ r.qty \in Nat
  BY DEF OrderRow
<1>. QED  BY <1>1, <1>2 DEF RowReconciles, IsOpenOrder, Visited, Entry

\* A visit that begins with an election is a visit.
LEMMA VisitedOnwards ==
  ASSUME NEW a \in OrderRow, NEW b \in OrderRow, NEW c \in OrderRow,
         Visited(a, b), Entry(b) = Entry(a), Visited(b, c)
  PROVE  Visited(a, c)
BY DEF Visited, Entry, OrderRow

\* A fill within the remainder is a legal move and leaves the row in order.
LEMMA FilledRowMoves ==
  ASSUME NEW r \in OrderRow, RowReconciles(r), IsOpenOrder(r), r.type \in Stopped => r.armed,
         NEW qty \in Nat \ {0}, qty <= r.qty - r.filled, NEW price \in Nat, NEW fee \in Nat
  PROVE  RowReconciles(FilledRow(r, qty, price, fee)) /\ Visited(r, FilledRow(r, qty, price, fee))
<1>. DEFINE f == FilledRow(r, qty, price, fee)
<1>1. r.filled \in Nat /\ r.qty \in Nat
  BY DEF OrderRow
<1>2. /\ f.qty = r.qty /\ f.filled = r.filled + qty
      /\ f.client = r.client /\ f.type = r.type /\ f.armed = r.armed
      /\ f.status = IF r.filled + qty >= r.qty THEN "FILLED" ELSE "PARTIALLY_FILLED"
      /\ r.filled + qty >= r.qty => f.reserved = 0
  BY DEF FilledRow, OrderRow
<1>. HIDE DEF f
<1>3. RowReconciles(f)
  BY <1>1, <1>2 DEF RowReconciles, IsOpenOrder, OpenStatuses
<1>4. Book!Moved(Entry(r), Entry(f))
  BY <1>1, <1>2 DEF Book!Moved, Book!LegalTransitions, Entry, IsOpenOrder, OpenStatuses
<1>5. Visited(r, f)
  BY <1>1, <1>2, <1>4 DEF Visited
<1>. QED  BY <1>3, <1>5 DEF f

\* A new row in order, under a client id nobody uses, keeps the books in order.
LEMMA AppendedRow ==
  ASSUME NEW d \in Books, RowsReconcile(d), OneRowPerClient(d),
         NEW row \in OrderRow, RowReconciles(row),
         row.client # 0 => \A o \in DOMAIN d.orders : d.orders[o].client # row.client,
         NEW e \in Books, e.orders = Append(d.orders, row)
  PROVE  RowsReconcile(e) /\ OneRowPerClient(e)
<1>1. d.orders \in Seq(OrderRow)
  BY DEF Books
<1>2. /\ Len(e.orders) = Len(d.orders) + 1 /\ e.orders[Len(d.orders) + 1] = row
      /\ \A o \in 1 .. Len(d.orders) : e.orders[o] = d.orders[o]
      /\ e.orders \in Seq(OrderRow)
  BY <1>1, AppendProperties
<1>3. /\ DOMAIN e.orders = (1 .. Len(d.orders)) \cup {Len(d.orders) + 1}
      /\ DOMAIN d.orders = 1 .. Len(d.orders) /\ Len(d.orders) \in Nat
  BY <1>1, <1>2, LenProperties
<1>4. \A o \in DOMAIN e.orders : RowReconciles(e.orders[o])
  BY <1>2, <1>3 DEF RowsReconcile
<1>5. OneRowPerClient(e)
  <2>. SUFFICES ASSUME NEW o \in DOMAIN e.orders, NEW p \in DOMAIN e.orders,
                       e.orders[o].client # 0, e.orders[o].client = e.orders[p].client
                PROVE  o = p
    BY DEF OneRowPerClient
  <2>1. CASE o \in 1 .. Len(d.orders) /\ p \in 1 .. Len(d.orders)
    BY <1>2, <1>3, <2>1 DEF OneRowPerClient
  <2>2. CASE o = Len(d.orders) + 1 /\ p \in 1 .. Len(d.orders)
    BY <1>2, <1>3, <2>2
  <2>3. CASE p = Len(d.orders) + 1 /\ o \in 1 .. Len(d.orders)
    BY <1>2, <1>3, <2>3
  <2>. QED  BY <1>3, <2>1, <2>2, <2>3
<1>. QED  BY <1>4, <1>5 DEF RowsReconcile

-----------------------------------------------------------------------------
(* The invariant holds initially and every action keeps it.                *)

\* The invariant holds of a new portfolio.
LEMMA InitKeeps == Init => IInv
<1>. SUFFICES ASSUME Init  PROVE IInv
  OBVIOUS
<1>1. db = EmptyBooks(InitialCapital) /\ saved = db /\ pass = Idle /\ now = 0 /\ active = TRUE
  BY DEF Init
<1>2. db.orders = << >> /\ DOMAIN db.orders = {} /\ Len(db.orders) = 0
  BY <1>1 DEF EmptyBooks
<1>3. pass.todo = {} /\ ~pass.busy
  BY <1>1 DEF Idle
<1>4. TypeOK
  BY <1>1, <1>2, <1>3, EmptyBooksTyped, IdleTyped, BrokerAssumption DEF TypeOK
<1>5. OrdersReconcile /\ RetriesAreOnce /\ PassInv
  BY <1>1, <1>2, <1>3 DEF OrdersReconcile, RowsReconcile, RetriesAreOnce, OneRowPerClient, PassInv
<1>. QED  BY <1>4, <1>5 DEF IInv

\* The invariant depends on nothing but the variables.
LEMMA StutterKeeps ==
  ASSUME IInv, UNCHANGED vars
  PROVE  IInv'
BY DEF IInv, vars, TypeOK, OrdersReconcile, RowsReconcile, RetriesAreOnce, OneRowPerClient, PassInv

\* Neither the clock nor a pause touches the books.
LEMMA ClockKeeps ==
  ASSUME IInv, Tick \/ PauseOrResume
  PROVE  IInv'
<1>1. ~pass.busy /\ pass' = pass /\ db' = db /\ saved' = db /\ pass.todo = {}
  BY DEF Tick, PauseOrResume, IInv, PassInv
<1>2. now' \in 0 .. MaxTime /\ active' \in BOOLEAN
  <2>1. now \in 0 .. MaxTime /\ active \in BOOLEAN
    BY DEF IInv, TypeOK
  <2>2. CASE Tick
    BY <2>1, <2>2, BrokerAssumption DEF Tick
  <2>3. CASE PauseOrResume
    BY <2>1, <2>3 DEF PauseOrResume
  <2>. QED  BY <2>2, <2>3
<1>3. /\ db \in Books /\ Len(db.orders) <= MaxOrders /\ RowsReconcile(db) /\ OneRowPerClient(db)
      /\ pass \in Passes
  BY DEF IInv, TypeOK, OrdersReconcile, RetriesAreOnce
<1>. QED  BY <1>1, <1>2, <1>3, CommitKeeps DEF Commit

\* place_order keeps the invariant, in its three outcomes: known id, rejected, accepted.
LEMMA PlaceOrderKeeps ==
  ASSUME IInv, NEW r \in Requests, PlaceOrder(r)
  PROVE  IInv'
<1>. DEFINE books == Placed(db, r, active, now)
            row == IF Rejects(db, r, active, now) THEN Refused(NewOrder(r, now)) ELSE NewOrder(r, now)
<1>1. /\ ~pass.busy /\ Len(db.orders) < MaxOrders /\ ValidRequest(r)
      /\ Commit(books) /\ now' = now /\ active' = active /\ pass' = pass
  BY DEF PlaceOrder
<1>2. /\ db \in Books /\ RowsReconcile(db) /\ OneRowPerClient(db) /\ now \in Nat
      /\ now \in 0 .. MaxTime /\ active \in BOOLEAN /\ pass \in Passes /\ pass.todo = {}
      /\ Len(db.orders) \in Nat
  BY <1>1, LenProperties DEF IInv, TypeOK, OrdersReconcile, RetriesAreOnce, PassInv, Books
<1>3. books \in Books /\ Len(books.orders) <= Len(db.orders) + 1
  BY <1>1, <1>2, PlacedBooks
<1>4. Len(books.orders) <= MaxOrders
  <2>1. Len(books.orders) \in Nat
    BY <1>3, LenProperties DEF Books
  <2>. HIDE DEF books
  <2>. QED  BY <1>1, <1>2, <1>3, <2>1, BrokerAssumption
<1>5. RowsReconcile(books) /\ OneRowPerClient(books)
  <2>1. CASE IsDuplicate(db, r)
    BY <1>2, <2>1 DEF Placed
  <2>2. CASE ~IsDuplicate(db, r)
    <3>1. NewOrder(r, now) \in OrderRow /\ Refused(NewOrder(r, now)) \in OrderRow
      BY <1>1, <1>2, NewRow
    <3>2. WholeUnits(r.qty) > 0
      BY <1>1 DEF ValidRequest
    <3>3. RowReconciles(NewOrder(r, now)) /\ RowReconciles(Refused(NewOrder(r, now)))
      BY <3>1, <3>2 DEF RowReconciles, NewOrder, Refused, IsOpenOrder, OpenStatuses, OrderRow
    <3>4. NewOrder(r, now).client = r.client /\ Refused(NewOrder(r, now)).client = r.client
      BY DEF NewOrder, Refused
    <3>5. row \in OrderRow /\ RowReconciles(row) /\ row.client = r.client
      BY <3>1, <3>3, <3>4
    <3>6. r.client # 0 => \A o \in DOMAIN db.orders : db.orders[o].client # r.client
      BY <2>2 DEF IsDuplicate
    <3>7. books = [db EXCEPT !.orders = Append(db.orders, row)]
      BY <2>2 DEF Placed
    <3>. HIDE DEF row
    <3>8. books.orders = Append(db.orders, row)
      BY <1>2, <3>7 DEF Books
    <3>. HIDE DEF books
    <3>. QED  BY <1>2, <1>3, <3>5, <3>6, <3>8, AppendedRow
  <2>. QED  BY <2>1, <2>2
<1>. QED  BY <1>1, <1>2, <1>3, <1>4, <1>5, CommitKeeps

\* seed_holding keeps the invariant.
LEMMA SeedHoldingKeeps ==
  ASSUME IInv, NEW s \in Seeds, SeedHolding(s)
  PROVE  IInv'
<1>. DEFINE books == Seeded(db, s)
<1>1. /\ ~pass.busy /\ Len(db.orders) < MaxOrders /\ CanSeed(db, s)
      /\ Commit(books) /\ now' = now /\ active' = active /\ pass' = pass
  BY DEF SeedHolding
<1>2. /\ db \in Books /\ RowsReconcile(db) /\ OneRowPerClient(db)
      /\ now \in 0 .. MaxTime /\ active \in BOOLEAN /\ pass \in Passes /\ pass.todo = {}
      /\ Len(db.orders) \in Nat
  BY <1>1, LenProperties DEF IInv, TypeOK, OrdersReconcile, RetriesAreOnce, PassInv, Books
<1>3. books \in Books /\ Len(books.orders) = Len(db.orders) + 1
  BY <1>1, <1>2, SeededBooks
<1>4. SeedRow(s) \in OrderRow /\ RowReconciles(SeedRow(s)) /\ SeedRow(s).client = 0
  <2>1. s.inst \in Instruments /\ s.qty \in Nat \ {0} /\ s.basis \in Nat
    BY <1>1, BrokerAssumption DEF CanSeed
  <2>2. s.qty * s.basis \in Nat
    BY <2>1
  <2>. QED  BY <2>1, <2>2 DEF SeedRow, OrderRow, Statuses, OpenStatuses, None, RowReconciles, IsOpenOrder
<1>5. books.orders = Append(db.orders, SeedRow(s))
  BY DEF Seeded
<1>. HIDE DEF books
<1>6. RowsReconcile(books) /\ OneRowPerClient(books)
  BY <1>2, <1>3, <1>4, <1>5, AppendedRow
<1>7. Len(books.orders) <= MaxOrders
  BY <1>1, <1>2, <1>3, BrokerAssumption
<1>. QED  BY <1>1, <1>2, <1>3, <1>6, <1>7, CommitKeeps

\* cancel_order keeps the invariant.
LEMMA CancelOrderKeeps ==
  ASSUME IInv, NEW o \in DOMAIN db.orders, CancelOrder(o)
  PROVE  IInv'
<1>. DEFINE books == Closed(db, o, "CANCELED")
            row == ClosedRow(db.orders[o], "CANCELED")
<1>1. /\ ~pass.busy /\ IsOpenOrder(db.orders[o])
      /\ Commit(books) /\ now' = now /\ active' = active /\ pass' = pass
  BY DEF CancelOrder
<1>2. /\ db \in Books /\ RowsReconcile(db) /\ OneRowPerClient(db) /\ Len(db.orders) <= MaxOrders
      /\ now \in 0 .. MaxTime /\ active \in BOOLEAN /\ pass \in Passes /\ pass.todo = {}
  BY <1>1 DEF IInv, TypeOK, OrdersReconcile, RetriesAreOnce, PassInv
<1>3. db.orders[o] \in OrderRow /\ RowReconciles(db.orders[o])
  BY <1>2, RowOf DEF RowsReconcile
<1>4. /\ books \in Books /\ DOMAIN books.orders = DOMAIN db.orders
      /\ Len(books.orders) = Len(db.orders) /\ books = [db EXCEPT !.orders[o] = row]
  <2>1. "CANCELED" \in Statuses
    BY DEF Statuses
  <2>. QED  BY <1>2, <2>1, ClosedBooks
<1>5. RowReconciles(row) /\ row.client = db.orders[o].client
  BY <1>1, <1>3, ClosedRowMoves DEF Visited
<1>. HIDE DEF row, books
<1>6. \A p \in DOMAIN db.orders : books.orders[p] = IF p = o THEN row ELSE db.orders[p]
  BY <1>2, <1>4 DEF Books
<1>7. RowsReconcile(books)
  BY <1>2, <1>4, <1>5, <1>6 DEF RowsReconcile
<1>8. OneRowPerClient(books)
  BY <1>2, <1>4, <1>5, <1>6 DEF OneRowPerClient
<1>. QED  BY <1>1, <1>2, <1>4, <1>7, <1>8, CommitKeeps

\* The rows of a pass, as it finds them and once their stop is elected.
LEMMA PassRow ==
  ASSUME IInv, NEW o \in pass.todo
  PROVE  /\ o \in DOMAIN db.orders
         /\ db.orders[o] \in OrderRow /\ RowReconciles(db.orders[o]) /\ IsOpenOrder(db.orders[o])
         /\ Row(o) \in OrderRow /\ RowReconciles(Row(o)) /\ IsOpenOrder(Row(o))
         /\ Visited(db.orders[o], Row(o)) /\ Entry(Row(o)) = Entry(db.orders[o])
<1>1. db.orders[o] \in OrderRow /\ RowReconciles(db.orders[o]) /\ IsOpenOrder(db.orders[o])
  BY RowOf DEF IInv, TypeOK, OrdersReconcile, RowsReconcile, PassInv
<1>. QED  BY <1>1, ElectedRow, ElectedRowMoves DEF Row, IInv, TypeOK

\* Closing an order on the way keeps the invariant.
LEMMA ClosingKeeps ==
  ASSUME IInv, NEW o \in pass.todo, NEW d \in Books, NEW r \in OrderRow,
         DOMAIN d.orders = DOMAIN db.orders, Len(d.orders) = Len(db.orders), d.orders[o] = r,
         \A p \in DOMAIN db.orders \ {o} : d.orders[p] = db.orders[p],
         RowReconciles(r), IsOpenOrder(r), Visited(db.orders[o], r), Entry(r) = Entry(db.orders[o]),
         Leaving(o, Closed(d, o, "EXPIRED"))
  PROVE  IInv'
<1>. DEFINE books == Closed(d, o, "EXPIRED")
            row == ClosedRow(r, "EXPIRED")
<1>1. o \in DOMAIN d.orders /\ db.orders[o] \in OrderRow
  BY PassRow
<1>2. /\ books \in Books /\ DOMAIN books.orders = DOMAIN d.orders
      /\ Len(books.orders) = Len(d.orders) /\ books = [d EXCEPT !.orders[o] = row]
  <2>1. "EXPIRED" \in Statuses
    BY DEF Statuses
  <2>. QED  BY <1>1, <2>1, ClosedBooks
<1>3. RowReconciles(row) /\ Visited(r, row) /\ row \in OrderRow
  BY ClosedRowMoves DEF ClosedRow, OrderRow, Statuses
<1>4. Visited(db.orders[o], row)
  BY <1>1, <1>3, VisitedOnwards
<1>. HIDE DEF row
<1>5. books.orders[o] = row /\ \A p \in DOMAIN db.orders \ {o} : books.orders[p] = db.orders[p]
  BY <1>1, <1>2 DEF Books
<1>. HIDE DEF books
<1>6. Leaving(o, books)
  BY DEF books
<1>. QED  BY <1>2, <1>3, <1>4, <1>5, <1>6, LeavingKeeps

\* Electing the stop of one order leaves the other rows alone.
LEMMA KeptRows ==
  ASSUME IInv, NEW o \in pass.todo
  PROVE  \A p \in DOMAIN db.orders \ {o} : Kept(o).orders[p] = db.orders[p]
BY DEF Kept, IInv, TypeOK, Books

\* Expiring an order that outlived its session keeps the invariant.
LEMMA ExpireOrderKeeps ==
  ASSUME IInv, NEW o \in pass.todo, ExpireOrder(o)
  PROVE  IInv'
<1>1. Leaving(o, Closed(db, o, "EXPIRED")) /\ db \in Books
  BY DEF ExpireOrder, IInv, TypeOK
<1>2. Visited(db.orders[o], db.orders[o])
  BY PassRow, VisitedSelf
<1>. QED  BY <1>1, <1>2, PassRow, ClosingKeeps

\* So does a quote that does not fill the order.
LEMMA RestOrderKeeps ==
  ASSUME IInv, NEW o \in pass.todo, RestOrder(o)
  PROVE  IInv'
<1>1. TypeOK
  BY DEF IInv
<1>2. /\ Kept(o) \in Books /\ Kept(o).orders[o] = Row(o)
      /\ DOMAIN Kept(o).orders = DOMAIN db.orders /\ Len(Kept(o).orders) = Len(db.orders)
  BY <1>1, KeptBooks
<1>3. CASE Row(o).tif = "IOC"
  <2>1. Leaving(o, Closed(Kept(o), o, "EXPIRED"))
    BY <1>3 DEF RestOrder
  <2>. QED  BY <1>2, <2>1, PassRow, KeptRows, ClosingKeeps
<1>4. CASE Row(o).tif # "IOC"
  <2>1. Leaving(o, Kept(o))
    BY <1>4 DEF RestOrder
  <2>. QED  BY <1>2, <2>1, PassRow, KeptRows, LeavingKeeps
<1>. QED  BY <1>3, <1>4

\* So does an order with nothing to buy or sell with.
LEMMA StarveOrderKeeps ==
  ASSUME IInv, NEW o \in pass.todo, StarveOrder(o)
  PROVE  IInv'
<1>1. TypeOK
  BY DEF IInv
<1>2. /\ Kept(o) \in Books /\ Kept(o).orders[o] = Row(o)
      /\ DOMAIN Kept(o).orders = DOMAIN db.orders /\ Len(Kept(o).orders) = Len(db.orders)
  BY <1>1, KeptBooks
<1>3. Leaving(o, Closed(Kept(o), o, "EXPIRED"))
  BY DEF StarveOrder
<1>. QED  BY <1>2, <1>3, PassRow, KeptRows, ClosingKeeps

\* An order whose stop has not been elected has no price.
LEMMA PricedIsElected ==
  ASSUME NEW o, Price(o) > 0
  PROVE  Row(o).type \in Stopped => Row(o).armed
BY DEF Price, Reference

\* So does a fill the ledger and record_fill let through.
LEMMA FillOrderKeeps ==
  ASSUME IInv, NEW o \in pass.todo, FillOrder(o)
  PROVE  IInv'
<1>1. PICK qty \in Executable(db, Row(o), Price(o)) \ {0} :
         ~FillRaises(db, Row(o), qty, Price(o)) /\ Leaving(o, Executed(Kept(o), o, qty, Price(o)))
  BY DEF FillOrder
<1>2. TypeOK /\ OrdersReconcile /\ Price(o) > 0
  BY DEF IInv, FillOrder, Triggers
<1>3. /\ Kept(o) \in Books /\ Kept(o).orders[o] = Row(o) /\ o \in DOMAIN Kept(o).orders
      /\ Kept(o).holding = db.holding /\ Kept(o).cash = db.cash
      /\ DOMAIN Kept(o).orders = DOMAIN db.orders /\ Len(Kept(o).orders) = Len(db.orders)
  BY <1>2, KeptBooks
<1>4. qty \in Nat \ {0} /\ (Row(o).side = "SELL" => qty <= Held(db, Row(o).inst))
  BY <1>1, <1>2, ExecutableQty
<1>5. Price(o) \in Nat
  BY <1>2, ReferenceNat
<1>. DEFINE price == FillPrice(Price(o), Row(o).side, qty)
            fee == Commission(qty * price)
            row == FilledRow(Row(o), qty, price, fee)
            books == Executed(Kept(o), o, qty, Price(o))
<1>6. ~FillRaises(Kept(o), Kept(o).orders[o], qty, Price(o))
  BY <1>1, <1>3 DEF FillRaises
<1>7. Kept(o).orders[o].side = "SELL" => qty <= Held(Kept(o), Kept(o).orders[o].inst)
  BY <1>3, <1>4 DEF Held
<1>8. /\ books \in Books /\ DOMAIN books.orders = DOMAIN db.orders
      /\ Len(books.orders) = Len(db.orders)
  BY <1>3, <1>4, <1>5, <1>6, <1>7, ExecutedBooks
<1>9. price \in Nat /\ fee \in Nat
  <2>1. price \in Nat
    BY <1>4, <1>5, FillPriceNat
  <2>2. qty * price \in Nat
    BY <1>4, <2>1
  <2>. QED  BY <2>1, <2>2, CommissionNat
<1>10. /\ Row(o) \in OrderRow /\ RowReconciles(Row(o)) /\ IsOpenOrder(Row(o))
       /\ Visited(db.orders[o], Row(o)) /\ Entry(Row(o)) = Entry(db.orders[o])
       /\ db.orders[o] \in OrderRow
  BY PassRow
<1>11. qty <= Row(o).qty - Row(o).filled
  <2>1. ~(qty > Row(o).qty - Row(o).filled)
    BY <1>1 DEF FillRaises
  <2>. QED  BY <1>4, <1>10, <2>1 DEF OrderRow
<1>12. Row(o).type \in Stopped => Row(o).armed
  BY <1>2, PricedIsElected
<1>13. /\ books.orders[o] = row
       /\ \A p \in DOMAIN db.orders \ {o} : books.orders[p] = db.orders[p]
  <2>1. books.orders = [Kept(o).orders EXCEPT ![o] = row]
    BY <1>3 DEF Executed
  <2>. HIDE DEF row, books
  <2>. QED  BY <1>3, <2>1, KeptRows
<1>. HIDE DEF price, fee
<1>14. RowReconciles(row) /\ Visited(Row(o), row) /\ row \in OrderRow
  BY <1>4, <1>9, <1>10, <1>11, <1>12, FilledRowMoves, FilledRowTyped
<1>. HIDE DEF row
<1>15. Visited(db.orders[o], row)
  BY <1>10, <1>14, VisitedOnwards
<1>16. Leaving(o, books)
  BY <1>1
<1>. HIDE DEF books
<1>. QED  BY <1>8, <1>13, <1>14, <1>15, <1>16, LeavingKeeps

\* A rollback returns to committed books, which are in order.
LEMMA AbortPassKeeps ==
  ASSUME IInv, NEW o \in pass.todo, AbortPass(o)
  PROVE  IInv'
<1>1. Commit(saved) /\ pass' = Idle /\ now' = now /\ active' = active
  BY DEF AbortPass, Commit
<1>2. /\ saved \in Books /\ RowsReconcile(saved) /\ OneRowPerClient(saved)
      /\ now \in 0 .. MaxTime /\ active \in BOOLEAN
  BY DEF IInv, TypeOK, OrdersReconcile, RetriesAreOnce
<1>3. 1 .. Len(saved.orders) = 1 .. Len(db.orders)
  <2>1. DOMAIN db.orders = 1 .. Len(db.orders)
    BY LenProperties DEF IInv, TypeOK, Books
  <2>2. DOMAIN saved.orders = 1 .. Len(saved.orders)
    BY <1>2, LenProperties DEF Books
  <2>. QED  BY <2>1, <2>2 DEF IInv, PassInv
<1>4. Len(saved.orders) <= MaxOrders
  <2>1. Len(saved.orders) \in Nat /\ Len(db.orders) \in Nat /\ Len(db.orders) <= MaxOrders
    BY <1>2, LenProperties DEF IInv, TypeOK, Books
  <2>2. CASE Len(saved.orders) = 0
    BY <2>2, BrokerAssumption
  <2>3. CASE Len(saved.orders) # 0
    <3>1. Len(saved.orders) \in 1 .. Len(db.orders)
      BY <1>3, <2>1, <2>3
    <3>. QED  BY <2>1, <3>1, BrokerAssumption
  <2>. QED  BY <2>2, <2>3
<1>5. Idle \in Passes /\ ~Idle.busy /\ Idle.todo = {}
  BY IdleTyped DEF Idle
<1>. QED  BY <1>1, <1>2, <1>4, <1>5, CommitKeeps

\* Committing what a pass did keeps the invariant.
LEMMA EndPassKeeps ==
  ASSUME IInv, EndPass
  PROVE  IInv'
<1>1. Commit(db) /\ pass' = Idle /\ now' = now /\ active' = active
  BY DEF EndPass
<1>2. /\ db \in Books /\ RowsReconcile(db) /\ OneRowPerClient(db) /\ Len(db.orders) <= MaxOrders
      /\ now \in 0 .. MaxTime /\ active \in BOOLEAN
  BY DEF IInv, TypeOK, OrdersReconcile, RetriesAreOnce
<1>3. Idle \in Passes /\ ~Idle.busy /\ Idle.todo = {}
  BY IdleTyped DEF Idle
<1>. QED  BY <1>1, <1>2, <1>3, CommitKeeps

\* Reading the open orders keeps the invariant.
LEMMA BeginPassKeeps ==
  ASSUME IInv, NEW i \in Instruments, NEW q \in Quotes, BeginPass(i, q)
  PROVE  IInv'
<1>1. /\ ~pass.busy /\ db = saved
      /\ pass' = [busy |-> TRUE, inst |-> i, quote |-> q, todo |-> Working(db, i)]
      /\ now' = now /\ active' = active /\ db' = db /\ saved' = saved
  BY DEF BeginPass, IInv, PassInv
<1>2. Working(db, i) \subseteq DOMAIN db.orders
  BY DEF Working
<1>3. DOMAIN db.orders = 1 .. Len(db.orders) /\ Len(db.orders) \in Nat /\ Len(db.orders) <= MaxOrders
  BY LenProperties DEF IInv, TypeOK, Books
<1>4. Working(db, i) \subseteq 1 .. MaxOrders
  BY <1>2, <1>3, BrokerAssumption
<1>5. TypeOK'
  BY <1>1, <1>2, <1>4 DEF IInv, TypeOK, Passes
<1>6. OrdersReconcile' /\ RetriesAreOnce'
  BY <1>1 DEF IInv, OrdersReconcile, RetriesAreOnce, RowsReconcile, OneRowPerClient
<1>7. PassInv'
  <2>1. \A o \in Working(db, i) : IsOpenOrder(db.orders[o])
    BY DEF Working
  <2>. QED  BY <1>1, <2>1 DEF IInv, PassInv
<1>. QED  BY <1>5, <1>6, <1>7 DEF IInv

\* Every step keeps the invariant.
LEMMA NextKeeps ==
  ASSUME IInv, [Next]_vars
  PROVE  IInv'
<1>1. CASE Tick \/ PauseOrResume
  BY <1>1, ClockKeeps
<1>2. ASSUME NEW r \in Requests, PlaceOrder(r)  PROVE IInv'
  BY <1>2, PlaceOrderKeeps
<1>3. ASSUME NEW o \in DOMAIN db.orders, CancelOrder(o)  PROVE IInv'
  BY <1>3, CancelOrderKeeps
<1>4. ASSUME NEW s \in Seeds, SeedHolding(s)  PROVE IInv'
  BY <1>4, SeedHoldingKeeps
<1>5. ASSUME NEW i \in Instruments, NEW q \in Quotes, BeginPass(i, q)  PROVE IInv'
  BY <1>5, BeginPassKeeps
<1>6. ASSUME NEW o \in pass.todo,
             ExpireOrder(o) \/ RestOrder(o) \/ StarveOrder(o) \/ FillOrder(o) \/ AbortPass(o)
      PROVE  IInv'
  BY <1>6, ExpireOrderKeeps, RestOrderKeeps, StarveOrderKeeps, FillOrderKeeps, AbortPassKeeps
<1>7. CASE EndPass
  BY <1>7, EndPassKeeps
<1>8. CASE UNCHANGED vars
  BY <1>8, StutterKeeps
<1>. QED  BY <1>1, <1>2, <1>3, <1>4, <1>5, <1>6, <1>7, <1>8 DEF Next, PassStep

\* The invariant holds of every state the broker reaches, whatever the values of
\* the constants: well-typed books, rows in order, unique ids and, while a pass runs,
\* rows that are each a legal move or none away from what is committed.
THEOREM Inductive == Spec => []IInv
<1>1. Init => IInv
  BY InitKeeps
<1>2. IInv /\ [Next]_vars => IInv'
  BY NextKeeps
<1>. QED  BY <1>1, <1>2, PTL DEF Spec

-----------------------------------------------------------------------------
(* What follows from it.                                                   *)

\* Every reachable state is well typed: cash never goes negative, lots and fees are
\* amounts, and a pass visits rows that exist, within the bound on rows.
THEOREM TypeCorrect == Spec => []TypeOK
<1>1. IInv => TypeOK
  BY DEF IInv
<1>. QED  BY <1>1, Inductive, PTL

\* The order rows always agree with themselves as reconcile.py demands, in what is
\* committed and in the middle of any pass.
THEOREM OrdersAlwaysReconcile == Spec => []OrdersReconcile
<1>1. IInv => OrdersReconcile
  BY DEF IInv
<1>. QED  BY <1>1, Inductive, PTL

\* place_order is idempotent under a client id, however calls and passes interleave.
THEOREM RetriesAreAlwaysOnce == Spec => []RetriesAreOnce
<1>1. IInv => RetriesAreOnce
  BY DEF IInv
<1>. QED  BY <1>1, Inductive, PTL

\* What a step commits: legal moves of the rows there are, or one row entered.
LEMMA CommittedStep ==
  ASSUME IInv, [Next]_vars
  PROVE  \/ /\ DOMAIN saved'.orders = DOMAIN saved.orders
            /\ \A o \in DOMAIN saved.orders : Visited(saved.orders[o], saved'.orders[o])
         \/ \E row \in OrderRow : /\ saved'.orders = Append(saved.orders, row)
                                  /\ Book!Entered(Entry(row))
<1>1. saved \in Books /\ \A o \in DOMAIN saved.orders : Visited(saved.orders[o], saved.orders[o])
  BY RowOf, VisitedSelf DEF IInv, TypeOK
<1>2. CASE saved' = saved
  BY <1>1, <1>2
<1>3. ASSUME NEW r \in Requests, PlaceOrder(r)
      PROVE  \/ saved' = saved
             \/ \E row \in OrderRow : /\ saved'.orders = Append(saved.orders, row)
                                      /\ Book!Entered(Entry(row))
  <2>1. /\ db = saved /\ ValidRequest(r) /\ saved' = Placed(saved, r, active, now) /\ now \in Nat
    BY <1>3 DEF PlaceOrder, Commit, IInv, PassInv, TypeOK
  <2>. DEFINE row == IF Rejects(saved, r, active, now)
                     THEN Refused(NewOrder(r, now)) ELSE NewOrder(r, now)
  <2>2. CASE IsDuplicate(saved, r)
    BY <2>1, <2>2 DEF Placed
  <2>3. CASE ~IsDuplicate(saved, r)
    <3>1. NewOrder(r, now) \in OrderRow /\ Refused(NewOrder(r, now)) \in OrderRow
      BY <2>1, NewRow
    <3>2. /\ NewOrder(r, now).status = "ACCEPTED" /\ NewOrder(r, now).filled = 0
          /\ Refused(NewOrder(r, now)).status = "REJECTED" /\ Refused(NewOrder(r, now)).filled = 0
      BY DEF NewOrder, Refused
    <3>3. row \in OrderRow /\ row.status \in {"ACCEPTED", "REJECTED"} /\ row.filled = 0
      BY <3>1, <3>2
    <3>4. saved' = [saved EXCEPT !.orders = Append(saved.orders, row)]
      BY <2>1, <2>3 DEF Placed
    <3>. HIDE DEF row
    <3>5. saved'.orders = Append(saved.orders, row)
      BY <1>1, <3>4 DEF Books
    <3>6. Book!Entered(Entry(row))
      BY <3>3 DEF Book!Entered, Entry
    <3>. QED  BY <3>3, <3>5, <3>6
  <2>. QED  BY <2>2, <2>3
<1>4. ASSUME NEW s \in Seeds, SeedHolding(s)
      PROVE  \E row \in OrderRow : /\ saved'.orders = Append(saved.orders, row)
                                   /\ Book!Entered(Entry(row))
  <2>1. /\ saved' = Seeded(saved, s) /\ CanSeed(saved, s)
    BY <1>4 DEF SeedHolding, Commit, IInv, PassInv
  <2>2. s.inst \in Instruments /\ s.qty \in Nat \ {0} /\ s.basis \in Nat
    BY <2>1, BrokerAssumption DEF CanSeed
  <2>3. s.qty * s.basis \in Nat
    BY <2>2
  <2>4. SeedRow(s) \in OrderRow
    BY <2>2, <2>3 DEF SeedRow, OrderRow, Statuses, OpenStatuses, None
  <2>5. Book!Entered(Entry(SeedRow(s)))
    BY DEF Book!Entered, Entry, SeedRow
  <2>6. saved'.orders = Append(saved.orders, SeedRow(s))
    BY <2>1 DEF Seeded
  <2>. QED  BY <2>4, <2>5, <2>6
<1>5. ASSUME NEW o \in DOMAIN db.orders, CancelOrder(o)
      PROVE  /\ DOMAIN saved'.orders = DOMAIN saved.orders
             /\ \A p \in DOMAIN saved.orders : Visited(saved.orders[p], saved'.orders[p])
  <2>1. db = saved /\ IsOpenOrder(saved.orders[o]) /\ saved' = Closed(saved, o, "CANCELED")
    BY <1>5 DEF CancelOrder, Commit, IInv, PassInv
  <2>2. saved.orders[o] \in OrderRow /\ RowReconciles(saved.orders[o])
    BY <1>1, <1>5, <2>1, RowOf DEF IInv, OrdersReconcile, RowsReconcile
  <2>. DEFINE row == ClosedRow(saved.orders[o], "CANCELED")
  <2>3. Visited(saved.orders[o], row)
    BY <2>1, <2>2, ClosedRowMoves
  <2>4. saved' = [saved EXCEPT !.orders[o] = row] /\ DOMAIN saved'.orders = DOMAIN saved.orders
    <3>1. "CANCELED" \in Statuses
      BY DEF Statuses
    <3>. QED  BY <1>1, <1>5, <2>1, <3>1, ClosedBooks
  <2>. HIDE DEF row
  <2>5. \A p \in DOMAIN saved.orders :
          saved'.orders[p] = IF p = o THEN row ELSE saved.orders[p]
    BY <1>1, <2>4 DEF Books
  <2>. QED  BY <1>1, <2>3, <2>4, <2>5
<1>6. CASE EndPass
  BY <1>6 DEF EndPass, Commit, IInv, PassInv
<1>7. CASE Tick \/ PauseOrResume \/ (\E i \in Instruments, q \in Quotes : BeginPass(i, q))
           \/ UNCHANGED vars
  BY <1>2, <1>7 DEF Tick, PauseOrResume, BeginPass, vars, IInv, PassInv
<1>8. ASSUME NEW o \in pass.todo,
             ExpireOrder(o) \/ RestOrder(o) \/ StarveOrder(o) \/ FillOrder(o) \/ AbortPass(o)
      PROVE  saved' = saved
  BY <1>8 DEF ExpireOrder, RestOrder, StarveOrder, FillOrder, AbortPass, Leaving
<1>. QED  BY <1>1, <1>2, <1>3, <1>4, <1>5, <1>6, <1>7, <1>8 DEF Next, PassStep

\* No order with a stop ever trades before a quote has elected that stop, and an
\* election is never taken back.
THEOREM StopsAlwaysElectedFirst == Spec => StopsElectedFirst
<1>. DEFINE A == \A o \in DOMAIN saved.orders :
                   LET a == saved.orders[o] b == saved'.orders[o]
                   IN  /\ a.armed => b.armed
                       /\ a.type \in Stopped /\ b.filled > a.filled => b.armed
<1>1. IInv /\ [Next]_vars => A
  <2>. SUFFICES ASSUME IInv, [Next]_vars  PROVE A
    OBVIOUS
  <2>1. saved.orders \in Seq(OrderRow)
    BY DEF IInv, TypeOK, Books
  <2>2. CASE \A o \in DOMAIN saved.orders : Visited(saved.orders[o], saved'.orders[o])
    BY <2>2 DEF Visited
  <2>3. CASE \E row \in OrderRow : saved'.orders = Append(saved.orders, row)
    <3>1. \A o \in DOMAIN saved.orders :
            saved'.orders[o] = saved.orders[o] /\ saved.orders[o] \in OrderRow
      BY <2>1, <2>3, AppendProperties, LenProperties, ElementOfSeq
    <3>. QED  BY <3>1 DEF OrderRow
  <2>. QED  BY <2>2, <2>3, CommittedStep
<1>2. IInv /\ [Next]_vars => [A]_saved
  BY <1>1
<1>. QED  BY <1>2, Inductive, PTL DEF Spec, StopsElectedFirst

\* The broker implements the abstract order book: whatever calls and passes do, what
\* they commit is orders entering, or legal moves of the orders there are.
THEOREM ImplementsOrderBook == Spec => KeepsTheOrderBook
<1>. DEFINE book == [o \in DOMAIN saved.orders |->
                       [status |-> saved.orders[o].status, qty |-> saved.orders[o].qty,
                        filled |-> saved.orders[o].filled]]
<1>1. Init => Book!Init
  BY DEF Init, Book!Init, EmptyBooks
<1>2. ASSUME IInv, [Next]_vars  PROVE Book!Next \/ book' = book
  <2>1. /\ book = [o \in DOMAIN saved.orders |-> Entry(saved.orders[o])]
        /\ book' = [o \in DOMAIN saved'.orders |-> Entry(saved'.orders[o])]
    BY DEF Entry
  <2>2. saved.orders \in Seq(OrderRow)
    BY <1>2 DEF IInv, TypeOK, Books
  <2>3. CASE /\ DOMAIN saved'.orders = DOMAIN saved.orders
             /\ \A o \in DOMAIN saved.orders : Visited(saved.orders[o], saved'.orders[o])
    <3>. HIDE DEF book
    <3>1. DOMAIN book' = DOMAIN book
      BY <2>1, <2>3
    <3>2. \A o \in DOMAIN book : book'[o] = book[o] \/ Book!Moved(book[o], book'[o])
      BY <2>1, <2>3 DEF Visited
    <3>3. Book!Work
      BY <3>1, <3>2 DEF Book!Work, book
    <3>. QED  BY <3>3 DEF Book!Next
  <2>4. ASSUME NEW row \in OrderRow, saved'.orders = Append(saved.orders, row),
               Book!Entered(Entry(row))
        PROVE  Book!Next
    <3>. DEFINE n == Len(saved.orders)
    <3>1. /\ saved'.orders \in Seq(OrderRow) /\ Len(saved'.orders) = n + 1
          /\ saved'.orders[n + 1] = row /\ \A o \in 1 .. n : saved'.orders[o] = saved.orders[o]
      BY <2>2, <2>4, AppendProperties
    <3>2. /\ n \in Nat /\ DOMAIN saved.orders = 1 .. n /\ DOMAIN saved'.orders = 1 .. n + 1
      BY <2>2, <3>1, LenProperties
    <3>. HIDE DEF book, n
    <3>3. /\ book = [o \in 1 .. n |-> Entry(saved.orders[o])]
          /\ book' = [o \in 1 .. n + 1 |-> Entry(saved'.orders[o])]
      BY <2>1, <3>2
    <3>4. Len(book) = n /\ Len(book') = n + 1 /\ DOMAIN book = 1 .. n
      BY <3>2, <3>3
    <3>5. \A o \in DOMAIN book : book'[o] = book[o]
      BY <3>1, <3>2, <3>3
    <3>6. Book!Entered(book'[n + 1])
      BY <2>4, <3>1, <3>2, <3>3
    <3>7. Book!Enter
      BY <3>4, <3>5, <3>6 DEF Book!Enter, book
    <3>. QED  BY <3>7 DEF Book!Next
  <2>. QED  BY <1>2, <2>3, <2>4, CommittedStep
<1>3. IInv /\ [Next]_vars => [Book!Next]_book
  BY <1>2
<1>. QED  BY <1>1, <1>3, Inductive, PTL DEF Spec, KeepsTheOrderBook, Book!Spec

-----------------------------------------------------------------------------
(* What a buy is sized at is what it is settled at, or more.               *)

\* Products of amounts keep their order.
LEMMA ProductMonotone ==
  ASSUME NEW a \in Nat, NEW b \in Nat, NEW c \in Nat, a <= b
  PROVE  a * c <= b * c /\ c * a <= c * b /\ a * c \in Nat /\ b * c \in Nat
<1>1. b * c = a * c + (b - a) * c
  OBVIOUS
<1>2. b - a \in Nat
  OBVIOUS
<1>3. (b - a) * c \in Nat /\ a * c \in Nat /\ b * c \in Nat
  BY <1>2
<1>4. c * a = a * c /\ c * b = b * c
  OBVIOUS
<1>. QED  BY <1>1, <1>3, <1>4

\* A larger trade never pays a smaller commission.
LEMMA CommissionMonotone ==
  ASSUME NEW m \in Nat, NEW n \in Nat, m <= n
  PROVE  Commission(m) <= Commission(n)
<1>1. CASE m = 0
  <2>1. Commission(m) = 0
    BY <1>1 DEF Commission
  <2>. QED  BY <2>1, CommissionNat
<1>2. CASE m # 0
  <2>1. m * CommissionBps <= n * CommissionBps /\ m * CommissionBps \in Int /\ n * CommissionBps \in Int
    BY ProductMonotone, RulesAssumption
  <2>2. /\ Quantize(m * CommissionBps) <= Quantize(n * CommissionBps)
        /\ Quantize(m * CommissionBps) \in Int /\ Quantize(n * CommissionBps) \in Int
    BY <2>1, QuantizeMonotone, QuantizeInt
  <2>3. /\ Commission(m) = Larger(Quantize(m * CommissionBps), MinCommission)
        /\ Commission(n) = Larger(Quantize(n * CommissionBps), MinCommission)
    BY <1>2 DEF Commission
  <2>. QED  BY <2>2, <2>3, RulesAssumption DEF Larger
<1>. QED  BY <1>1, <1>2

\* Buying more, or at a higher price, costs at least as much.
LEMMA BuyCostMonotone ==
  ASSUME NEW a \in Nat, NEW b \in Nat, NEW p \in Nat, NEW q \in Nat, a <= b, p <= q
  PROVE  BuyCost(a, p) <= BuyCost(b, q)
<1>1. a * p <= b * p /\ b * p <= b * q /\ a * p \in Nat /\ b * p \in Nat /\ b * q \in Nat
  BY ProductMonotone
<1>2. a * p <= b * q
  BY <1>1
<1>3. Commission(a * p) <= Commission(b * q)
  BY <1>1, <1>2, CommissionMonotone
<1>4. Commission(a * p) \in Nat /\ Commission(b * q) \in Nat
  BY <1>1, CommissionNat
<1>. QED  BY <1>1, <1>2, <1>3, <1>4 DEF BuyCost

\* A larger buy never gets a better price: impact only grows with size.
LEMMA FillPriceMonotone ==
  ASSUME NEW reference \in Nat, NEW a \in Nat, NEW b \in Nat, a <= b
  PROVE  FillPrice(reference, "BUY", a) <= FillPrice(reference, "BUY", b)
<1>. DEFINE factor(q) == Scale + (SlippageBps + Impact(q, reference))
<1>1. a * reference <= b * reference /\ a * reference \in Nat /\ b * reference \in Nat
  BY ProductMonotone
<1>2. Impact(a, reference) \in Nat /\ Impact(b, reference) \in Nat
      /\ Impact(a, reference) <= Impact(b, reference)
  BY <1>1, RulesAssumption DEF Impact
<1>3. factor(a) \in Nat /\ factor(b) \in Nat /\ factor(a) <= factor(b)
  BY <1>2, RulesAssumption
<1>. HIDE DEF factor
<1>4. reference * factor(a) <= reference * factor(b)
      /\ reference * factor(a) \in Int /\ reference * factor(b) \in Int
  BY <1>3, ProductMonotone
<1>5. /\ Quantize(reference * factor(a)) <= Quantize(reference * factor(b))
      /\ Quantize(reference * factor(a)) \in Int /\ Quantize(reference * factor(b)) \in Int
  BY <1>4, QuantizeMonotone, QuantizeInt
<1>6. /\ FillPrice(reference, "BUY", a) = Larger(1, Quantize(reference * factor(a)))
      /\ FillPrice(reference, "BUY", b) = Larger(1, Quantize(reference * factor(b)))
  BY DEF FillPrice, factor
<1>. QED  BY <1>5, <1>6 DEF Larger

\* What a buy shrinks to is no more than it was, and cash covers it at the price of
\* the whole.
LEMMA AffordableFits ==
  ASSUME NEW d \in Books, NEW whole \in Nat, NEW reference \in Nat,
         NEW qty \in Affordable(d, whole, reference)
  PROVE  qty \in Nat /\ qty <= whole
         /\ BuyCost(qty, FillPrice(reference, "BUY", whole)) <= d.cash
<1>. DEFINE price == FillPrice(reference, "BUY", whole)
<1>1. price \in Nat \ {0} /\ d.cash \in Nat
  BY FillPriceNat DEF Books
<1>2. CASE BuyCost(whole, price) <= d.cash
  BY <1>2 DEF Affordable
<1>3. CASE ~(BuyCost(whole, price) <= d.cash)
  <2>1. qty \in Nat /\ BuyCost(qty, price) <= d.cash
    BY <1>1, <1>3 DEF Affordable
  <2>. HIDE DEF price
  <2>2. ASSUME whole <= qty PROVE FALSE
    <3>1. BuyCost(whole, price) <= BuyCost(qty, price)
      BY <1>1, <2>1, <2>2, BuyCostMonotone
    <3>2. BuyCost(whole, price) \in Nat /\ BuyCost(qty, price) \in Nat
      BY <1>1, <2>1, BuyCostNat
    <3>. QED  BY <1>1, <1>3, <2>1, <3>1, <3>2
  <2>. QED  BY <2>1, <2>2 DEF price
<1>. QED  BY <1>2, <1>3

\* Sized at the price of what remains of the order and settled at the price of what
\* it shrank to, a buy never costs more than the cash there is.
LEMMA BuySettles ==
  ASSUME TypeOK, OrdersReconcile, NEW o \in pass.todo, Row(o).side = "BUY",
         NEW qty \in Executable(db, Row(o), Price(o))
  PROVE  ~FillRaises(db, Row(o), qty, Price(o))
<1>. DEFINE left == Row(o).qty - Row(o).filled
            whole == WholeUnits(left)
            price == FillPrice(Price(o), "BUY", qty)
            priced == FillPrice(Price(o), "BUY", whole)
<1>1. left \in Nat /\ whole \in Nat /\ whole <= left
  BY OpenRemainder, WholeUnitsNat
<1>2. db \in Books /\ db.cash \in Nat
  BY DEF TypeOK, Books
<1>3. Price(o) \in Nat
  BY ReferenceNat
<1>4. qty \in Affordable(db, whole, Price(o))
  BY DEF Executable
<1>. HIDE DEF left, whole
<1>5. qty \in Nat /\ qty <= whole /\ BuyCost(qty, priced) <= db.cash
  BY <1>1, <1>2, <1>3, <1>4, AffordableFits
<1>6. price \in Nat /\ priced \in Nat /\ price <= priced
  BY <1>1, <1>3, <1>5, FillPriceNat, FillPriceMonotone
<1>. HIDE DEF price, priced
<1>7. BuyCost(qty, price) <= BuyCost(qty, priced)
  BY <1>5, <1>6, BuyCostMonotone
<1>8. BuyCost(qty, price) \in Nat /\ BuyCost(qty, priced) \in Nat
  BY <1>5, <1>6, BuyCostNat
<1>9. ~(db.cash < qty * price + Commission(qty * price))
  BY <1>2, <1>5, <1>7, <1>8 DEF BuyCost
<1>10. ~(qty > Row(o).qty - Row(o).filled)
  BY <1>1, <1>5 DEF left
<1>. QED  BY <1>9, <1>10 DEF FillRaises, price

\* The overdraw guard of the ledger never stops a buy in the middle of a pass, whatever
\* the quote, the costs and the impact: only a sale can raise.
THEOREM BuysNeverEverRaise == Spec => []BuysNeverRaise
<1>1. IInv => BuysNeverRaise
  <2>. SUFFICES ASSUME IInv, NEW o \in pass.todo, Raises(o), db.orders[o].side # "SELL"
                PROVE  FALSE
    BY DEF BuysNeverRaise
  <2>1. TypeOK /\ OrdersReconcile
    BY DEF IInv
  <2>2. Row(o) \in OrderRow /\ db.orders[o] \in OrderRow
    BY <2>1, KeptBooks, RowOf DEF TypeOK
  <2>3. Row(o).side = "BUY"
    BY <2>2 DEF Row, Elected, OrderRow
  <2>. QED  BY <2>1, <2>3, BuySettles DEF Raises
<1>. QED  BY <1>1, Inductive, PTL

=============================================================================
