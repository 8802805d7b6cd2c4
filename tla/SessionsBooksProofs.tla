-------------------------- MODULE SessionsBooksProofs --------------------------
(***************************************************************************)
(* Theorems about the books that the sessions of Sessions leave, when one  *)
(* pass runs at a time over the portfolio: any number of requests place    *)
(* and cancel orders meanwhile, for every value of the constants.          *)
(*                                                                         *)
(* A pass sees its own writes over what is committed.  The invariant Books *)
(* says of both, what is committed and what the pass sees, that they       *)
(* balance, up to what the pass still has to write of the fill it is at.   *)
(* What is committed has to balance because a pass that rolls back falls   *)
(* back on it; what the pass sees, because that is what it commits.        *)
(***************************************************************************)
EXTENDS SessionsProofs

\* The hypothesis of the theorems: passes do not overlap.
OneMatcher == \A m, n \in Matchers : m = n

-----------------------------------------------------------------------------
(* The invariant. *)

\* An entry is what its fill moved.
EntriesMatch(v) ==
  \A k \in DOMAIN v.entry :
    v.entry[k] = IF Ask[k[1]].side = "BUY" THEN 0 - v.fill[k] ELSE v.fill[k]

\* At most one position is open, ids are not 0, and lots are those of a position.
RowsApart(v) ==
  /\ \A q, r \in DOMAIN v.row : v.row[q] > 0 /\ v.row[r] > 0 => q = r
  /\ 0 \notin DOMAIN v.row
  /\ \A l \in DOMAIN v.lot : l[1] \in DOMAIN v.row

\* A position is what its lots add up to, but for position r, which is ahead of them.
RowsSum(v, r, ahead) ==
  \A q \in DOMAIN v.row : v.row[q] = LotsOpen(v, q) + (IF q = r THEN ahead ELSE 0)

\* The fills in `extra` have no entry yet; the position of row r is ahead of its lots, and
\* behind what was bought less what was sold.
Trades(v, extra, r, ahead, behind) ==
  /\ DOMAIN v.fill = DOMAIN v.entry \cup extra /\ extra \cap DOMAIN v.entry = {}
  /\ EntriesMatch(v) /\ Cash(v) >= 0
  /\ RowsApart(v) /\ RowsSum(v, r, ahead)
  /\ OpenQty(v) + behind = Held + Capital - Cash(v)

Settled(v) == Trades(v, {}, 0, 0, 0)

\* An order says it filled what its fills sum to, but for order o, which is behind.
OrdersSum(v, o, behind) ==
  /\ \A x \in DOMAIN v.status :
       /\ v.filled[x] + (IF x = o THEN behind ELSE 0) = Sum(v.fill, Fills(v, x))
       /\ v.status[x] = "FILLED" => v.filled[x] = Ask[x].qty
  /\ \A k \in DOMAIN v.fill : k[1] \in DOMAIN v.status

\* What the pass has still to write, of a fill of the order in turn, where it is at.
TradesAt(v, at, r) ==
  LET o == First(r.todo)
  IN  /\ at \notin {"settle", "project"} => Settled(v)
      /\ at = "settle" => Trades(v, {<<o, r.seq>>}, 0, 0, 0) /\ v.fill[<<o, r.seq>>] = r.qty
      /\ at = "project" => /\ r.row = OpenRow(v)
                           /\ IF Ask[o].side = "BUY" THEN Trades(v, {}, 0, 0, r.qty)
                              ELSE Trades(v, {}, r.row, r.qty, 0 - r.qty)
      /\ at \in {"number", "insert", "settle", "project"} => r.qty > 0
      /\ at \in {"number", "insert", "settle"} /\ Ask[o].side = "BUY" => r.qty <= Cash(v)
      /\ at \in {"number", "insert", "settle", "project"} /\ Ask[o].side # "BUY" =>
           r.qty <= OpenQty(v)

Filled == {"settle", "project", "finish"}

OrdersAt(v, at, r) ==
  IF at \in Filled THEN OrdersSum(v, First(r.todo), r.qty) ELSE OrdersSum(v, 0, 0)

\* The orders that a pass has left: it has written nothing of them, and what it loaded is
\* what they have filled.
Untouched(d, w, at, r) ==
  /\ \A x \in r.todo : /\ x \notin DOMAIN w.status /\ x \notin DOMAIN w.filled
                       /\ r.loaded[x].filled = d.filled[x] /\ d.status[x] # "FILLED"
  /\ \A k \in DOMAIN w.fill : k[1] \in r.todo => k[1] = First(r.todo) /\ at \in Filled
  /\ at = "idle" => \A t \in Tables : DOMAIN w[t] = {}

PassOK(d, w, v, at, r) == TradesAt(v, at, r) /\ OrdersAt(v, at, r) /\ Untouched(d, w, at, r)

Pass(m) == PassOK(db, own[m], View(m), pc[m], mem[m])

Books == Settled(db) /\ OrdersSum(db, 0, 0) /\ \A m \in Matchers : Pass(m)

-----------------------------------------------------------------------------
(* A sale takes from the oldest lots first. *)

\* The lots up to some lot, of lots that differ in their numbers: those older than the
\* youngest of them are the others.
LEMMA YoungestLot ==
  ASSUME NEW S \in SUBSET (Nat \X Nat), IsFiniteSet(S), NEW r, \A l \in S : l[1] = r,
         NEW T \in SUBSET S, T # {}, \A l \in T : \A k \in S : k[2] < l[2] => k \in T
  PROVE  \E l \in T : {k \in S : k[2] < l[2]} = T \ {l}
<1>. DEFINE N == {l[2] : l \in T}
            f == [l \in T |-> l[2]]
<1>1. IsFiniteSet(T) /\ f \in Surjection(T, N)
  BY FS_Subset DEF Surjection
<1>2. IsFiniteSet(N) /\ N \subseteq Nat /\ N # {}
  BY <1>1, FS_Surjection
<1>. HIDE DEF f
<1>3. PICK n \in N : \A k \in N : k <= n
  BY <1>2, HighestIsThere
<1>4. PICK l \in T : l[2] = n
  BY DEF N
<1>5. ASSUME NEW k \in T PROVE k[2] <= l[2] /\ (k[2] = l[2] => k = l)
  BY <1>3, <1>4
<1>6. \A k \in S : k[2] \in Nat
  OBVIOUS
<1>7. {k \in S : k[2] < l[2]} = T \ {l}
  <2>1. ASSUME NEW k \in S, k[2] < l[2] PROVE k \in T \ {l}
    BY <1>6, <2>1
  <2>2. ASSUME NEW k \in T \ {l} PROVE k \in S /\ k[2] < l[2]
    BY <1>5, <1>6
  <2>. QED  BY <2>1, <2>2
<1>. QED  BY <1>7

\* Lots S are those of position r, and hold f.
LotsOfOne(S, r, f) ==
  S \in SUBSET (Nat \X Nat) /\ IsFiniteSet(S) /\ \A l \in S : l[1] = r /\ f[l] \in Nat

\* A sale of q from lots S, which held f, leaves g.
Takes(S, q, f, g) ==
  \A l \in S : g[l] = Minus(f[l], Minus(q, Sum(f, {k \in S : k[2] < l[2]})))

\* It leaves their sum less q, or nothing: take the fewest oldest lots of
\* which it leaves something else and leave out the youngest of those.
LEMMA OldestFirst ==
  ASSUME NEW S, NEW r, NEW q \in Nat, NEW f, NEW g, LotsOfOne(S, r, f), Takes(S, q, f, g)
  PROVE  Sum(g, S) = Minus(Sum(f, S), q)
<1>. DEFINE Oldest(T) == \A l \in T : \A k \in S : k[2] < l[2] => k \in T
            Good(T) == Sum(g, T) = Minus(Sum(f, T), q)
            Bad == {n \in Nat : \E T \in SUBSET S : Oldest(T) /\ Cardinality(T) = n /\ ~Good(T)}
<1>a. /\ S \in SUBSET (Nat \X Nat) /\ IsFiniteSet(S) /\ \A l \in S : l[1] = r
      /\ \A l \in S : f[l] \in Nat /\ f[l] \in Int
  BY DEF LotsOfOne
<1>0. ASSUME NEW T \in SUBSET S PROVE IsFiniteSet(T) /\ Sum(f, T) \in Nat /\ Cardinality(T) \in Nat
  <2>1. IsFiniteSet(T)
    BY <1>a, FS_Subset
  <2>2. \A l \in T : f[l] \in Int
    BY <1>a
  <2>. QED  BY <2>1, <2>2, SumNat, FS_CardinalityType
<1>1. \A l \in S : g[l] \in Nat
  <2>. TAKE l \in S
  <2>1. Sum(f, {k \in S : k[2] < l[2]}) \in Nat
    BY <1>0
  <2>. QED  BY <2>1, <1>a DEF Minus, Takes
<1>. SUFFICES ASSUME ~Good(S) PROVE FALSE
  OBVIOUS
<1>2. Cardinality(S) \in Bad
  BY <1>0, <1>a
<1>3. PICK n \in Bad : \A k \in Bad : n <= k
  BY <1>2, LeastIsThere
<1>4. PICK T \in SUBSET S : Oldest(T) /\ Cardinality(T) = n /\ ~Good(T)
  BY <1>3
<1>5. T # {}
  <2>1. Sum(f, {}) = 0 /\ Sum(g, {}) = 0
    BY SumNone
  <2>2. Minus(0, q) = 0
    BY DEF Minus
  <2>. QED  BY <1>4, <2>1, <2>2
<1>6. PICK l \in T : {k \in S : k[2] < l[2]} = T \ {l}
  BY <1>4, <1>5, <1>a, YoungestLot
<1>. DEFINE U == T \ {l}
<1>7. U \in SUBSET S /\ Oldest(U) /\ T = U \cup {l} /\ l \notin U /\ IsFiniteSet(U)
  <2>1. Oldest(U)
    <3>. SUFFICES ASSUME NEW x \in U, NEW k \in S, k[2] < x[2] PROVE k \in U
      OBVIOUS
    <3>1. x \in S /\ x[2] < l[2] /\ x[2] \in Nat /\ k[2] \in Nat /\ l[2] \in Nat
      BY <1>6, <1>a
    <3>2. k[2] < l[2]
      BY <3>1
    <3>. QED  BY <1>6, <3>2
  <2>. QED  BY <1>0, <2>1
<1>8. Cardinality(U) = n - 1 /\ n - 1 \in Nat
  BY <1>0, <1>4, <1>7, FS_RemoveElement
<1>9. Good(U)
  <2>1. ~(n - 1 \in Bad)
    BY <1>3, <1>8
  <2>. QED  BY <1>7, <1>8, <2>1
<1>10. g[l] = Minus(f[l], Minus(q, Sum(f, U))) /\ f[l] \in Nat /\ g[l] \in Nat
  BY <1>1, <1>6, <1>a DEF Takes
<1>11. Sum(f, T) = Sum(f, U) + (IF f[l] > 0 THEN f[l] ELSE 0)
  <2>1. \A x \in U \cup {l} : f[x] \in Int
    BY <1>7, <1>a
  <2>. HIDE DEF U
  <2>. QED  BY <1>7, <2>1, SumMore
<1>12. Sum(g, T) = Sum(g, U) + (IF g[l] > 0 THEN g[l] ELSE 0)
  <2>1. \A x \in U \cup {l} : g[x] \in Int
    <3>1. \A x \in T : g[x] \in Int
      BY <1>1
    <3>. QED  BY <1>7, <3>1
  <2>. HIDE DEF U
  <2>. QED  BY <1>7, <2>1, SumMore
<1>13. Sum(f, U) \in Nat
  BY <1>0, <1>7
<1>. HIDE DEF U
<1>14. Good(T)
  BY <1>9, <1>10, <1>11, <1>12, <1>13 DEF Minus
<1>. QED  BY <1>4, <1>14

-----------------------------------------------------------------------------
(* What the books come to depends on the tables of trades alone. *)

\* Two sets of tables agree on fills, entries, lots and positions.
SameTrades(u, v) == u.fill = v.fill /\ u.entry = v.entry /\ u.lot = v.lot /\ u.row = v.row

\* Cash is what the entries come to.
LEMMA CashSame ==
  ASSUME NEW u, NEW v, u.entry = v.entry
  PROVE  Cash(u) = Cash(v)
BY DEF Cash, Paid

\* The open position is found among the positions.
LEMMA OpenSame ==
  ASSUME NEW u, NEW v, u.row = v.row
  PROVE  OpenRow(u) = OpenRow(v) /\ OpenQty(u) = OpenQty(v)
BY DEF OpenRow, OpenQty

\* What the lots of a position hold is found among the lots.
LEMMA LotsSame ==
  ASSUME NEW u, NEW v, u.lot = v.lot
  PROVE  \A q : Lots(u, q) = Lots(v, q) /\ LotsOpen(u, q) = LotsOpen(v, q)
BY DEF Lots, LotsOpen

\* They balance alike.
LEMMA TradesSame ==
  ASSUME NEW u, NEW v, SameTrades(u, v), NEW extra, NEW r, NEW ahead, NEW behind,
         Trades(v, extra, r, ahead, behind)
  PROVE  Trades(u, extra, r, ahead, behind)
<1>1. /\ Cash(u) = Cash(v) /\ OpenQty(u) = OpenQty(v)
      /\ \A q : LotsOpen(u, q) = LotsOpen(v, q)
  BY CashSame, OpenSame, LotsSame DEF SameTrades
<1>. QED  BY <1>1 DEF Trades, EntriesMatch, RowsApart, RowsSum, SameTrades

\* What the pass has still to write depends on the tables of fills, cash, lots and positions only.
LEMMA TradesAtSame ==
  ASSUME NEW u, NEW v, SameTrades(u, v), NEW at, NEW r, TradesAt(v, at, r)
  PROVE  TradesAt(u, at, r)
<1>1. Cash(u) = Cash(v) /\ OpenQty(u) = OpenQty(v) /\ OpenRow(u) = OpenRow(v)
  BY CashSame, OpenSame DEF SameTrades
<1>2. \A extra, q, ahead, behind : Trades(v, extra, q, ahead, behind) => Trades(u, extra, q, ahead, behind)
  BY TradesSame
<1>3. u.fill = v.fill
  BY DEF SameTrades
<1>. QED  BY <1>1, <1>2, <1>3 DEF TradesAt, Settled

\* One entry more moves the cash by its amount.
LEMMA CashMoves ==
  ASSUME NEW u, NEW v, Table(v.entry, Int), IsFiniteSet(DOMAIN v.entry),
         NEW k, k \notin DOMAIN v.entry, NEW a \in Int, u.entry = With(v.entry, k, a)
  PROVE  Cash(u) = Cash(v) + a
<1>. DEFINE D == DOMAIN v.entry
            E == u.entry
            P == Paid(u)
<1>1. /\ DOMAIN u.entry = D \cup {k} /\ E[k] = a
      /\ \A x \in D : E[x] = v.entry[x] /\ v.entry[x] \in Int
  BY DEF With, Table
<1>2. /\ P[k] = 0 - a /\ \A x \in D : P[x] = Paid(v)[x] /\ P[x] \in Int
  BY <1>1 DEF Paid
<1>3. Cash(u) = Capital + Sum(E, D \cup {k}) - Sum(P, D \cup {k})
  BY <1>1 DEF Cash
<1>4. Cash(v) = Capital + Sum(v.entry, D) - Sum(Paid(v), D)
  BY DEF Cash
<1>. HIDE DEF D, E, P
<1>5. IsFiniteSet(D) /\ k \notin D
  BY DEF D
<1>6. (\A x \in D \cup {k} : E[x] \in Int) /\ (\A x \in D \cup {k} : P[x] \in Int)
  <2>1. 0 - a \in Int
    OBVIOUS
  <2>. QED  BY <1>1, <1>2, <2>1
<1>7. Sum(E, D \cup {k}) = Sum(E, D) + (IF a > 0 THEN a ELSE 0)
  BY <1>1, <1>5, <1>6, SumMore
<1>8. Sum(P, D \cup {k}) = Sum(P, D) + (IF 0 - a > 0 THEN 0 - a ELSE 0)
  BY <1>2, <1>5, <1>6, SumMore
<1>9. Sum(E, D) = Sum(v.entry, D) /\ Sum(P, D) = Sum(Paid(v), D)
  BY <1>1, <1>2, SumSame
<1>10. Sum(E, D) \in Nat /\ Sum(P, D) \in Nat
  BY <1>5, <1>6, SumNat
<1>11. Capital \in Int
  BY SessionsAssumption
<1>. QED  BY <1>3, <1>4, <1>7, <1>8, <1>9, <1>10, <1>11

-----------------------------------------------------------------------------
(* The steps of a fill, on the tables before (v) and after (u). *)

\* The open position is the one that has a quantity.
LEMMA OpenIs ==
  ASSUME NEW v, TablesTyped(v), RowsApart(v), NEW r \in DOMAIN v.row, v.row[r] > 0
  PROVE  OpenRow(v) = r /\ OpenQty(v) = v.row[r] /\ r # 0
<1>1. /\ OpenRow(v) \in DOMAIN v.row /\ v.row[OpenRow(v)] > 0 /\ r # 0
  BY DEF OpenRow, RowsApart
<1>. QED  BY <1>1 DEF RowsApart, OpenQty

\* When none is open, none has a quantity.
LEMMA NoneOpen ==
  ASSUME NEW v, TablesTyped(v), RowsApart(v)
  PROVE  (OpenRow(v) = 0) <=> (\A r \in DOMAIN v.row : v.row[r] = 0)
<1>1. \A r \in DOMAIN v.row : v.row[r] \in Nat
  BY DEF TablesTyped, Table
<1>2. ASSUME NEW r \in DOMAIN v.row, v.row[r] # 0 PROVE OpenRow(v) # 0
  BY <1>1, <1>2, OpenIs
<1>3. ASSUME \A r \in DOMAIN v.row : v.row[r] = 0 PROVE OpenRow(v) = 0
  BY <1>3 DEF OpenRow
<1>. QED  BY <1>2, <1>3

\* An inserted fill has no entry yet.
LEMMA FillInserted ==
  ASSUME NEW u, NEW v, Settled(v), NEW key, key \notin DOMAIN v.fill, NEW q,
         u.fill = With(v.fill, key, q), u.entry = v.entry, u.lot = v.lot, u.row = v.row
  PROVE  Trades(u, {key}, 0, 0, 0)
<1>1. /\ Cash(u) = Cash(v) /\ OpenQty(u) = OpenQty(v)
      /\ \A r : LotsOpen(u, r) = LotsOpen(v, r)
  BY CashSame, OpenSame, LotsSame
<1>2. /\ DOMAIN u.fill = {key} \cup DOMAIN v.fill /\ u.fill[key] = q
      /\ \A k \in DOMAIN v.fill : u.fill[k] = v.fill[k]
  BY DEF With
<1>3. /\ DOMAIN v.fill = DOMAIN v.entry /\ EntriesMatch(v) /\ Cash(v) >= 0 /\ RowsApart(v)
      /\ RowsSum(v, 0, 0) /\ OpenQty(v) + 0 = Held + Capital - Cash(v)
  BY DEF Settled, Trades
<1>4. EntriesMatch(u)
  BY <1>2, <1>3 DEF EntriesMatch
<1>5. RowsApart(u) /\ RowsSum(u, 0, 0)
  BY <1>1, <1>3 DEF RowsApart, RowsSum
<1>. QED  BY <1>1, <1>2, <1>3, <1>4, <1>5 DEF Trades

\* Its entry settles it.
LEMMA EntryWritten ==
  ASSUME NEW u, NEW v, TablesTyped(v), NEW key, Trades(v, {key}, 0, 0, 0), v.fill[key] \in Nat,
         NEW a, a = (IF Ask[key[1]].side = "BUY" THEN 0 - v.fill[key] ELSE v.fill[key]),
         u.fill = v.fill, u.entry = With(v.entry, key, a), Cash(v) + a >= 0
  PROVE  /\ DOMAIN u.fill = DOMAIN u.entry \cup {} /\ EntriesMatch(u)
         /\ Cash(u) = Cash(v) + a /\ Cash(u) >= 0
<1>1. /\ DOMAIN v.fill = DOMAIN v.entry \cup {key} /\ key \notin DOMAIN v.entry /\ EntriesMatch(v)
  BY DEF Trades
<1>2. /\ DOMAIN u.entry = {key} \cup DOMAIN v.entry
      /\ \A k \in DOMAIN u.entry : u.entry[k] = IF k = key THEN a ELSE v.entry[k]
  BY DEF With
<1>3. EntriesMatch(u)
  BY <1>1, <1>2 DEF EntriesMatch
<1>4. Cash(u) = Cash(v) + a
  <2>1. a \in Int /\ Table(v.entry, Int) /\ IsFiniteSet(DOMAIN v.entry)
    BY DEF TablesTyped
  <2>. QED  BY <1>1, <2>1, CashMoves
<1>. QED  BY <1>1, <1>2, <1>3, <1>4

\* A buy that is paid for leaves the position behind.
LEMMA BuyPaid ==
  ASSUME NEW u, NEW v, TablesTyped(v), NEW key, Trades(v, {key}, 0, 0, 0),
         NEW q \in Nat, v.fill[key] = q, Ask[key[1]].side = "BUY", q <= Cash(v),
         u.fill = v.fill, u.entry = With(v.entry, key, 0 - q), u.lot = v.lot, u.row = v.row
  PROVE  Trades(u, {}, 0, 0, q) /\ OpenRow(u) = OpenRow(v)
<1>1. Cash(v) \in Int /\ OpenQty(v) \in Nat
  BY BooksAreNumbers
<1>2. Cash(v) + (0 - q) >= 0
  BY <1>1
<1>3. /\ DOMAIN u.fill = DOMAIN u.entry \cup {} /\ EntriesMatch(u)
      /\ Cash(u) = Cash(v) + (0 - q) /\ Cash(u) >= 0
  BY <1>2, EntryWritten
<1>4. /\ OpenRow(u) = OpenRow(v) /\ OpenQty(u) = OpenQty(v)
      /\ \A r : LotsOpen(u, r) = LotsOpen(v, r)
  BY OpenSame, LotsSame
<1>5. RowsApart(v) /\ RowsSum(v, 0, 0) /\ OpenQty(v) + 0 = Held + Capital - Cash(v)
  BY DEF Trades
<1>6. RowsApart(u) /\ RowsSum(u, 0, 0)
  BY <1>4, <1>5 DEF RowsApart, RowsSum
<1>7. OpenQty(u) + q = Held + Capital - Cash(u)
  BY <1>1, <1>3, <1>4, <1>5, SessionsAssumption
<1>. QED  BY <1>3, <1>4, <1>6, <1>7 DEF Trades

\* What a sale of q takes from the lots of position r.
Sold(v, q, r) ==
  [l \in DOMAIN v.lot |->
     IF l[1] = r
     THEN Minus(v.lot[l], Minus(q, Sum(v.lot, {k \in Lots(v, l[1]) : k[2] < l[2]})))
     ELSE v.lot[l]]

\* It takes q from them when they hold it, and nothing from those of others.
LEMMA SoldLots ==
  ASSUME NEW u, NEW v, TablesTyped(v), NEW q \in Nat, NEW r, q <= LotsOpen(v, r),
         u.lot = Sold(v, q, r)
  PROVE  /\ DOMAIN u.lot = DOMAIN v.lot
         /\ LotsOpen(u, r) = LotsOpen(v, r) - q
         /\ \A x : x # r => LotsOpen(u, x) = LotsOpen(v, x)
<1>. DEFINE S == Lots(v, r)
            f == v.lot
            g == u.lot
<1>1. /\ DOMAIN g = DOMAIN f /\ \A l \in DOMAIN f : l[1] # r => g[l] = f[l]
      /\ \A l \in S : g[l] = Minus(f[l], Minus(q, Sum(f, {k \in S : k[2] < l[2]})))
  <2>1. \A l \in DOMAIN f :
          g[l] = IF l[1] = r THEN Minus(f[l], Minus(q, Sum(f, {k \in Lots(v, l[1]) : k[2] < l[2]})))
                 ELSE f[l]
    BY DEF Sold
  <2>2. \A l \in S : l \in DOMAIN f /\ l[1] = r
    BY DEF Lots
  <2>3. DOMAIN g = DOMAIN f
    BY DEF Sold
  <2>. HIDE DEF f, g
  <2>4. ASSUME NEW l \in S
        PROVE  g[l] = Minus(f[l], Minus(q, Sum(f, {k \in S : k[2] < l[2]})))
    <3>1. Lots(v, l[1]) = S /\ l[1] = r /\ l \in DOMAIN f
      BY <2>2
    <3>2. {k \in Lots(v, l[1]) : k[2] < l[2]} = {k \in S : k[2] < l[2]}
      BY <3>1
    <3>. QED  BY <2>1, <3>1, <3>2
  <2>. QED  BY <2>1, <2>3, <2>4
<1>2. \A x : Lots(u, x) = Lots(v, x)
  BY <1>1 DEF Lots
<1>3. /\ S \in SUBSET (Nat \X Nat) /\ IsFiniteSet(S) /\ \A l \in S : l[1] = r
      /\ LotsOpen(v, r) \in Nat
  BY BooksAreNumbers DEF TablesTyped, Lots
<1>4. \A l \in S : f[l] \in Nat
  BY DEF TablesTyped, Table, Lots
<1>5. LotsOpen(v, r) = Sum(f, S) /\ LotsOpen(u, r) = Sum(g, S)
  BY <1>2 DEF LotsOpen
<1>6. ASSUME NEW x, x # r PROVE LotsOpen(u, x) = LotsOpen(v, x)
  <2>1. \A l \in Lots(v, x) : g[l] = f[l]
    BY <1>1, <1>6 DEF Lots
  <2>. HIDE DEF f, g
  <2>2. Sum(g, Lots(v, x)) = Sum(f, Lots(v, x))
    BY <2>1, SumSame
  <2>. QED  BY <1>2, <2>2 DEF LotsOpen, f, g
<1>. HIDE DEF S, f, g
<1>7. Sum(g, S) = Minus(Sum(f, S), q)
  <2>1. Takes(S, q, f, g)
    BY <1>1 DEF Takes
  <2>2. LotsOfOne(S, r, f)
    BY <1>3, <1>4 DEF LotsOfOne
  <2>. QED  BY <2>1, <2>2, OldestFirst
<1>8. LotsOpen(u, r) = LotsOpen(v, r) - q
  BY <1>3, <1>5, <1>7 DEF Minus
<1>. QED  BY <1>1, <1>6, <1>8 DEF f, g

\* A sale leaves the position, for now, ahead of its lots.
LEMMA SellPaid ==
  ASSUME NEW u, NEW v, TablesTyped(v), NEW key, Trades(v, {key}, 0, 0, 0),
         NEW q \in Nat, v.fill[key] = q, Ask[key[1]].side # "BUY", q <= OpenQty(v), q > 0,
         u.fill = v.fill, u.entry = With(v.entry, key, q), u.row = v.row,
         u.lot = Sold(v, q, OpenRow(v))
  PROVE  Trades(u, {}, OpenRow(v), q, 0 - q) /\ OpenRow(u) = OpenRow(v) /\ OpenQty(u) = OpenQty(v)
<1>. DEFINE r == OpenRow(v)
<1>1. /\ Cash(v) \in Int /\ OpenQty(v) \in Nat /\ \A x : LotsOpen(v, x) \in Nat
      /\ r # 0 => r \in DOMAIN v.row /\ OpenQty(v) = v.row[r]
  BY BooksAreNumbers
<1>2. /\ RowsApart(v) /\ RowsSum(v, 0, 0) /\ OpenQty(v) + 0 = Held + Capital - Cash(v)
      /\ Cash(v) >= 0
  BY DEF Trades
<1>3. r # 0
  BY <1>1 DEF OpenQty
<1>4. q <= LotsOpen(v, r) /\ v.row[r] = LotsOpen(v, r)
  BY <1>1, <1>2, <1>3 DEF RowsSum
<1>5. Cash(v) + q >= 0
  BY <1>1, <1>2
<1>6. /\ DOMAIN u.fill = DOMAIN u.entry \cup {} /\ EntriesMatch(u)
      /\ Cash(u) = Cash(v) + q /\ Cash(u) >= 0
  <2>1. q = (IF Ask[key[1]].side = "BUY" THEN 0 - v.fill[key] ELSE v.fill[key])
    OBVIOUS
  <2>. QED  BY <1>5, <2>1, EntryWritten
<1>7. OpenRow(u) = r /\ OpenQty(u) = OpenQty(v)
  BY OpenSame
<1>8. /\ DOMAIN u.lot = DOMAIN v.lot /\ LotsOpen(u, r) = LotsOpen(v, r) - q
      /\ \A x : x # r => LotsOpen(u, x) = LotsOpen(v, x)
  BY <1>4, SoldLots
<1>. HIDE DEF r
<1>9. RowsApart(u)
  BY <1>2, <1>8 DEF RowsApart
<1>10. RowsSum(u, r, q)
  <2>. SUFFICES ASSUME NEW x \in DOMAIN v.row
                PROVE  v.row[x] = LotsOpen(u, x) + (IF x = r THEN q ELSE 0)
    BY DEF RowsSum
  <2>1. v.row[x] = LotsOpen(v, x) + 0 /\ LotsOpen(v, x) \in Nat
    BY <1>1, <1>2 DEF RowsSum
  <2>. QED  BY <1>8, <2>1
<1>11. OpenQty(u) + (0 - q) = Held + Capital - Cash(u)
  BY <1>1, <1>2, <1>6, <1>7, SessionsAssumption
<1>. QED  BY <1>6, <1>7, <1>9, <1>10, <1>11 DEF Trades, r

\* A projection brings a position that was sold from in line with its lots.
LEMMA SellProjected ==
  ASSUME NEW u, NEW v, TablesTyped(v), NEW r, r = OpenRow(v), NEW q \in Nat, q > 0,
         q <= OpenQty(v), Trades(v, {}, r, q, 0 - q),
         u.fill = v.fill, u.entry = v.entry, u.lot = v.lot,
         u.row = With(v.row, r, LotsOpen(v, r)), TablesTyped(u)
  PROVE  Settled(u)
<1>1. /\ Cash(v) \in Int /\ OpenQty(v) \in Nat /\ LotsOpen(v, r) \in Nat
      /\ r # 0 => r \in DOMAIN v.row /\ OpenQty(v) = v.row[r]
  BY BooksAreNumbers
<1>2. /\ DOMAIN v.fill = DOMAIN v.entry \cup {} /\ EntriesMatch(v) /\ Cash(v) >= 0
      /\ RowsApart(v) /\ RowsSum(v, r, q) /\ OpenQty(v) + (0 - q) = Held + Capital - Cash(v)
  BY DEF Trades
<1>3. r # 0
  BY <1>1 DEF OpenQty
<1>4. /\ r \in DOMAIN v.row /\ LotsOpen(v, r) = v.row[r] - q /\ OpenQty(v) = v.row[r]
      /\ v.row[r] \in Nat /\ v.row[r] > 0
  BY <1>1, <1>2, <1>3 DEF RowsSum
<1>5. /\ DOMAIN u.row = DOMAIN v.row
      /\ \A x \in DOMAIN v.row : u.row[x] = IF x = r THEN v.row[r] - q ELSE v.row[x]
  BY <1>4 DEF With
<1>6. Cash(u) = Cash(v) /\ \A x : LotsOpen(u, x) = LotsOpen(v, x)
  BY CashSame, LotsSame
<1>7. \A x \in DOMAIN v.row : v.row[x] \in Nat
  BY DEF TablesTyped, Table
<1>8. \A x \in DOMAIN v.row : x # r => v.row[x] = 0
  BY <1>2, <1>4, <1>7 DEF RowsApart
<1>9. RowsApart(u)
  <2>1. \A x \in DOMAIN u.row : u.row[x] > 0 => x = r
    BY <1>5, <1>8
  <2>. QED  BY <1>2, <1>5, <2>1 DEF RowsApart
<1>10. RowsSum(u, 0, 0)
  <2>. SUFFICES ASSUME NEW x \in DOMAIN v.row PROVE u.row[x] = LotsOpen(v, x) + 0
    BY <1>5, <1>6 DEF RowsSum
  <2>1. v.row[x] = LotsOpen(v, x) + (IF x = r THEN q ELSE 0) /\ LotsOpen(v, x) \in Nat
    BY <1>2, BooksAreNumbers DEF RowsSum
  <2>. QED  BY <1>4, <1>5, <1>7, <2>1
<1>11. OpenQty(u) = v.row[r] - q
  <2>1. CASE u.row[r] > 0
    BY <1>4, <1>5, <1>9, <2>1, OpenIs
  <2>2. CASE ~(u.row[r] > 0)
    <3>1. \A x \in DOMAIN u.row : u.row[x] = 0
      BY <1>1, <1>4, <1>5, <1>8, <2>2
    <3>. QED  BY <1>4, <1>5, <1>9, <3>1, NoneOpen DEF OpenQty
  <2>. QED  BY <2>1, <2>2
<1>12. EntriesMatch(u)
  BY <1>2 DEF EntriesMatch
<1>13. OpenQty(u) + 0 = Held + Capital - Cash(u)
  BY <1>1, <1>2, <1>4, <1>6, <1>11, SessionsAssumption
<1>. QED  BY <1>2, <1>6, <1>9, <1>10, <1>12, <1>13 DEF Settled, Trades

\* One lot more, of position r, adds to what its lots hold.
LEMMA LotAdded ==
  ASSUME NEW u, NEW v, TablesTyped(v), NEW r, NEW n, <<r, n>> \notin DOMAIN v.lot,
         NEW q \in Nat, q > 0, u.lot = With(v.lot, <<r, n>>, q)
  PROVE  /\ LotsOpen(u, r) = LotsOpen(v, r) + q
         /\ \A x : x # r => LotsOpen(u, x) = LotsOpen(v, x)
<1>. DEFINE l == <<r, n>>
            S == Lots(v, r)
<1>1. /\ DOMAIN u.lot = DOMAIN v.lot \cup {l} /\ u.lot[l] = q
      /\ \A k \in DOMAIN v.lot : u.lot[k] = v.lot[k] /\ v.lot[k] \in Int
  BY DEF With, TablesTyped, Table
<1>2. l[1] = r
  OBVIOUS
<1>3. /\ IsFiniteSet(S) /\ l \notin S /\ S \subseteq DOMAIN v.lot
  BY BooksAreNumbers DEF Lots
<1>. HIDE DEF l
<1>4. Lots(u, r) = S \cup {l} /\ \A x : x # r => Lots(u, x) = Lots(v, x)
  BY <1>1, <1>2 DEF Lots
<1>5. \A k \in S \cup {l} : u.lot[k] \in Int
  BY <1>1, <1>3
<1>. HIDE DEF S
<1>6. Sum(u.lot, S \cup {l}) = Sum(u.lot, S) + (IF u.lot[l] > 0 THEN u.lot[l] ELSE 0)
  <2>. DEFINE f == u.lot
  <2>1. IsFiniteSet(S) /\ l \notin S /\ \A k \in S \cup {l} : f[k] \in Int
    BY <1>3, <1>5
  <2>. HIDE DEF f
  <2>2. Sum(f, S \cup {l}) = Sum(f, S) + (IF f[l] > 0 THEN f[l] ELSE 0)
    BY <2>1, SumMore
  <2>. QED  BY <2>2 DEF f
<1>7. Sum(u.lot, S) = Sum(v.lot, S)
  <2>1. \A k \in S : u.lot[k] = v.lot[k]
    BY <1>1, <1>3
  <2>. QED  BY <2>1, SumSame
<1>8. ASSUME NEW x, x # r PROVE LotsOpen(u, x) = LotsOpen(v, x)
  <2>1. \A k \in Lots(v, x) : u.lot[k] = v.lot[k]
    BY <1>1 DEF Lots
  <2>2. Sum(u.lot, Lots(v, x)) = Sum(v.lot, Lots(v, x))
    BY <2>1, SumSame
  <2>. QED  BY <1>4, <1>8, <2>2 DEF LotsOpen
<1>9. LotsOpen(u, r) = LotsOpen(v, r) + q
  BY <1>1, <1>4, <1>6, <1>7 DEF LotsOpen, S
<1>. QED  BY <1>8, <1>9

\* A projection adds the lot that was bought, to the open position or to a new one.
LEMMA BuyProjected ==
  ASSUME NEW u, NEW v, TablesTyped(v), TablesTyped(u), NEW q \in Nat, q > 0,
         Trades(v, {}, 0, 0, q), NEW r, NEW n,
         IF OpenRow(v) = 0 THEN r \notin DOMAIN v.row /\ r # 0 ELSE r = OpenRow(v),
         <<r, n>> \notin DOMAIN v.lot,
         u.fill = v.fill, u.entry = v.entry, u.lot = With(v.lot, <<r, n>>, q),
         u.row = With(v.row, r, LotsOpen(u, r))
  PROVE  Settled(u)
<1>1. /\ Cash(v) \in Int /\ OpenQty(v) \in Nat /\ \A x : LotsOpen(v, x) \in Nat
      /\ OpenRow(v) # 0 => OpenRow(v) \in DOMAIN v.row /\ OpenQty(v) = v.row[OpenRow(v)]
  BY BooksAreNumbers
<1>2. /\ DOMAIN v.fill = DOMAIN v.entry \cup {} /\ EntriesMatch(v) /\ Cash(v) >= 0
      /\ RowsApart(v) /\ RowsSum(v, 0, 0) /\ OpenQty(v) + q = Held + Capital - Cash(v)
  BY DEF Trades
<1>3. LotsOpen(u, r) = LotsOpen(v, r) + q /\ \A x : x # r => LotsOpen(u, x) = LotsOpen(v, x)
  BY LotAdded
<1>4. LotsOpen(v, r) = OpenQty(v) /\ r # 0
  <2>1. CASE OpenRow(v) = 0
    <3>1. Lots(v, r) = {}
      BY <1>2, <2>1 DEF Lots, RowsApart
    <3>2. LotsOpen(v, r) = 0
      BY <3>1, SumNone DEF LotsOpen
    <3>. QED  BY <2>1, <3>2 DEF OpenQty
  <2>2. CASE OpenRow(v) # 0
    <3>1. LotsOpen(v, r) \in Nat /\ v.row[r] = LotsOpen(v, r) + 0
      BY <1>1, <1>2, <2>2 DEF RowsSum
    <3>. QED  BY <1>1, <2>2, <3>1
  <2>. QED  BY <2>1, <2>2
<1>5. \A x \in DOMAIN v.row : x # r => v.row[x] = 0
  <2>1. \A x \in DOMAIN v.row : v.row[x] \in Nat
    BY DEF TablesTyped, Table
  <2>2. CASE OpenRow(v) = 0
    BY <1>2, <2>2, NoneOpen
  <2>3. CASE OpenRow(v) # 0
    <3>1. v.row[r] > 0 /\ r \in DOMAIN v.row
      BY <1>1, <2>3 DEF OpenRow
    <3>. QED  BY <1>2, <2>1, <3>1 DEF RowsApart
  <2>. QED  BY <2>2, <2>3
<1>6. /\ DOMAIN u.row = {r} \cup DOMAIN v.row /\ u.row[r] = OpenQty(v) + q
      /\ \A x \in DOMAIN v.row : x # r => u.row[x] = v.row[x]
  BY <1>3, <1>4 DEF With
<1>7. DOMAIN u.lot = {<<r, n>>} \cup DOMAIN v.lot
  BY DEF With
<1>8. RowsApart(u)
  <2>1. \A x \in DOMAIN u.row : u.row[x] > 0 => x = r
    BY <1>5, <1>6
  <2>2. \A l \in DOMAIN u.lot : l[1] \in DOMAIN u.row
    <3>. TAKE l \in DOMAIN u.lot
    <3>1. l[1] = r \/ l \in DOMAIN v.lot
      BY <1>7
    <3>. QED  BY <1>2, <1>6, <3>1 DEF RowsApart
  <2>. QED  BY <1>2, <1>4, <1>6, <2>1, <2>2 DEF RowsApart
<1>9. RowsSum(u, 0, 0)
  <2>. SUFFICES ASSUME NEW x \in DOMAIN u.row PROVE u.row[x] = LotsOpen(u, x) + 0
    BY DEF RowsSum
  <2>1. CASE x = r
    BY <1>1, <1>3, <1>4, <1>6, <2>1
  <2>2. CASE x # r
    <3>1. x \in DOMAIN v.row /\ u.row[x] = v.row[x] /\ LotsOpen(u, x) = LotsOpen(v, x)
      BY <1>3, <1>6, <2>2
    <3>2. v.row[x] = LotsOpen(v, x) + 0
      BY <1>2, <3>1 DEF RowsSum
    <3>. QED  BY <3>1, <3>2
  <2>. QED  BY <2>1, <2>2
<1>10. OpenQty(u) = OpenQty(v) + q
  <2>1. r \in DOMAIN u.row /\ u.row[r] > 0
    BY <1>1, <1>6
  <2>. QED  BY <1>6, <1>8, <2>1, OpenIs
<1>11. Cash(u) = Cash(v)
  BY CashSame
<1>12. EntriesMatch(u)
  BY <1>2 DEF EntriesMatch
<1>13. OpenQty(u) + 0 = Held + Capital - Cash(u)
  BY <1>1, <1>2, <1>10, <1>11, SessionsAssumption
<1>. QED  BY <1>2, <1>8, <1>9, <1>11, <1>12, <1>13 DEF Settled, Trades

-----------------------------------------------------------------------------
(* The orders, in the tables before (v) and after (u). *)

\* A fill inserted puts its order behind.
LEMMA FillPending ==
  ASSUME NEW u, NEW v, TablesTyped(v), OrdersSum(v, 0, 0), NEW o \in DOMAIN v.status, NEW n,
         <<o, n>> \notin DOMAIN v.fill, NEW q \in Nat, q > 0, \A x \in DOMAIN v.status : v.filled[x] \in Nat,
         u.status = v.status, u.filled = v.filled, u.fill = With(v.fill, <<o, n>>, q)
  PROVE  OrdersSum(u, o, q)
<1>. DEFINE k == <<o, n>>
            f == u.fill
<1>1. /\ DOMAIN f = DOMAIN v.fill \cup {k} /\ f[k] = q
      /\ \A j \in DOMAIN v.fill : f[j] = v.fill[j] /\ v.fill[j] \in Int
      /\ IsFiniteSet(DOMAIN v.fill) /\ k \notin DOMAIN v.fill
  BY DEF With, TablesTyped, Table
<1>2. k[1] = o
  OBVIOUS
<1>. HIDE DEF k
<1>3. Fills(u, o) = Fills(v, o) \cup {k} /\ \A x : x # o => Fills(u, x) = Fills(v, x)
  BY <1>1, <1>2 DEF Fills
<1>4. ASSUME NEW x PROVE /\ IsFiniteSet(Fills(v, x)) /\ k \notin Fills(v, x)
                         /\ Fills(v, x) \subseteq DOMAIN v.fill
  BY <1>1, FS_Subset DEF Fills
<1>5. ASSUME NEW x PROVE Sum(f, Fills(v, x)) = Sum(v.fill, Fills(v, x))
  <2>1. \A j \in Fills(v, x) : f[j] = v.fill[j]
    BY <1>1, <1>4
  <2>. HIDE DEF f
  <2>. QED  BY <2>1, SumSame
<1>6. Sum(f, Fills(v, o) \cup {k}) = Sum(f, Fills(v, o)) + q
  <2>1. \A j \in Fills(v, o) \cup {k} : f[j] \in Int
    BY <1>1, <1>4
  <2>. HIDE DEF f
  <2>2. Sum(f, Fills(v, o) \cup {k}) = Sum(f, Fills(v, o)) + (IF f[k] > 0 THEN f[k] ELSE 0)
    BY <1>4, <2>1, SumMore
  <2>. QED  BY <1>1, <2>2
<1>. HIDE DEF f
<1>7. ASSUME NEW x \in DOMAIN v.status
      PROVE  v.filled[x] + (IF x = o THEN q ELSE 0) = Sum(f, Fills(u, x))
  <2>1. v.filled[x] + 0 = Sum(v.fill, Fills(v, x)) /\ v.filled[x] \in Nat
    BY DEF OrdersSum
  <2>2. CASE x = o
    <3>1. Sum(f, Fills(u, o)) = Sum(f, Fills(v, o)) + q
      BY <1>3, <1>6
    <3>2. Sum(f, Fills(v, o)) = Sum(v.fill, Fills(v, o))
      BY <1>5
    <3>. QED  BY <2>1, <2>2, <3>1, <3>2
  <2>3. CASE x # o
    BY <1>3, <1>5, <2>1, <2>3
  <2>. QED  BY <2>2, <2>3
<1>8. \A j \in DOMAIN f : j[1] \in DOMAIN v.status
  BY <1>1, <1>2 DEF OrdersSum
<1>. QED  BY <1>7, <1>8 DEF OrdersSum, f

\* It is no longer behind once it says what it filled.
LEMMA FillRecorded ==
  ASSUME NEW u, NEW v, NEW o \in DOMAIN v.status, NEW q, OrdersSum(v, o, q),
         \A x \in DOMAIN v.status : v.filled[x] \in Nat, q \in Nat, u.fill = v.fill,
         DOMAIN u.status = DOMAIN v.status,
         \A x \in DOMAIN v.status : x # o => u.status[x] = v.status[x] /\ u.filled[x] = v.filled[x],
         u.filled[o] = v.filled[o] + q, u.status[o] = "FILLED" => u.filled[o] = Ask[o].qty
  PROVE  OrdersSum(u, 0, 0)
<1>1. \A x : Fills(u, x) = Fills(v, x)
  BY DEF Fills
<1>2. ASSUME NEW x \in DOMAIN v.status
      PROVE  /\ u.filled[x] + 0 = Sum(v.fill, Fills(v, x))
             /\ u.status[x] = "FILLED" => u.filled[x] = Ask[x].qty
  <2>1. /\ v.filled[x] + (IF x = o THEN q ELSE 0) = Sum(v.fill, Fills(v, x))
        /\ v.status[x] = "FILLED" => v.filled[x] = Ask[x].qty
        /\ v.filled[x] \in Nat
    BY DEF OrdersSum
  <2>2. CASE x = o
    BY <2>1, <2>2
  <2>3. CASE x # o
    BY <2>1, <2>3
  <2>. QED  BY <2>2, <2>3
<1>3. \A k \in DOMAIN u.fill : k[1] \in DOMAIN u.status
  BY DEF OrdersSum
<1>. QED  BY <1>1, <1>2, <1>3 DEF OrdersSum

-----------------------------------------------------------------------------
(* What a pass sees, and when it changes. *)

\* What a session sees after a step.
LEMMA ViewNext ==
  ASSUME NEW s
  PROVE  /\ View(s)'.status = Over(own'[s].status, db'.status)
         /\ View(s)'.filled = Over(own'[s].filled, db'.filled)
         /\ View(s)'.fill = Over(own'[s].fill, db'.fill)
         /\ View(s)'.entry = Over(own'[s].entry, db'.entry)
         /\ View(s)'.lot = Over(own'[s].lot, db'.lot)
         /\ View(s)'.row = Over(own'[s].row, db'.row)
BY DEF View, Tables

\* A table of no rows over another is the other.
LEMMA OverNone ==
  ASSUME NEW V, NEW f, NEW g, DOMAIN f = {}, Table(g, V)
  PROVE  Over(f, g) = g
BY DEF Over, Table

\* One more row over a table is one more row of the whole.
LEMMA OverWith ==
  ASSUME NEW f, NEW g, NEW k, NEW x
  PROVE  Over(With(f, k, x), g) = With(Over(f, g), k, x)
BY DEF Over, With

\* Tables agree on the orders.
SameOrders(u, v) == u.status = v.status /\ u.filled = v.filled /\ u.fill = v.fill

\* What orders say of their fills depends on those tables only.
LEMMA OrdersSame ==
  ASSUME NEW u, NEW v, SameOrders(u, v), NEW o, NEW behind, OrdersSum(v, o, behind)
  PROVE  OrdersSum(u, o, behind)
BY DEF OrdersSum, SameOrders, Fills

\* A session that has written nothing sees what is committed.
LEMMA SeesCommitted ==
  ASSUME Shape', NEW s \in Sessions, own'[s] = Nothing
  PROVE  SameTrades(View(s)', db') /\ SameOrders(View(s)', db')
<1>1. /\ DOMAIN own'[s].status = {} /\ DOMAIN own'[s].filled = {} /\ DOMAIN own'[s].fill = {}
      /\ DOMAIN own'[s].entry = {} /\ DOMAIN own'[s].lot = {} /\ DOMAIN own'[s].row = {}
  BY NothingTyped DEF NoTrades
<1>2. TablesTyped(db')
  BY DEF Shape
<1>3. /\ Over(own'[s].status, db'.status) = db'.status
      /\ Over(own'[s].filled, db'.filled) = db'.filled
  BY <1>1, <1>2, OverNone DEF TablesTyped
<1>4. /\ Over(own'[s].fill, db'.fill) = db'.fill
      /\ Over(own'[s].entry, db'.entry) = db'.entry
  BY <1>1, <1>2, OverNone DEF TablesTyped
<1>5. /\ Over(own'[s].lot, db'.lot) = db'.lot
      /\ Over(own'[s].row, db'.row) = db'.row
  BY <1>1, <1>2, OverNone DEF TablesTyped
<1>. QED  BY <1>3, <1>4, <1>5, ViewNext DEF SameTrades, SameOrders

\* Then the pass has nothing to write, if what is committed balances.
LEMMA ClosedBooks ==
  ASSUME OneMatcher, Shape, Shape', NEW m \in Matchers, Close(m),
         Settled(db'), OrdersSum(db', 0, 0)
  PROVE  Books'
<1>1. m \in Sessions /\ own'[m] = Nothing /\ mem'[m] = Blank /\ pc'[m] = "idle"
  BY CloseAlone DEF Sessions
<1>2. SameTrades(View(m)', db') /\ SameOrders(View(m)', db')
  BY <1>1, SeesCommitted
<1>3. Settled(View(m)') /\ OrdersSum(View(m)', 0, 0)
  BY <1>2, TradesSame, OrdersSame DEF Settled
<1>4. TradesAt(View(m)', "idle", Blank) /\ OrdersAt(View(m)', "idle", Blank)
  BY <1>3 DEF TradesAt, OrdersAt, Filled
<1>5. Untouched(db', Nothing, "idle", Blank)
  <2>1. \A t \in Tables : DOMAIN Nothing[t] = {}
    BY DEF Nothing
  <2>2. DOMAIN Nothing.fill = {}
    BY NothingTyped DEF NoTrades
  <2>. QED  BY <2>1, <2>2, BlankIs DEF Untouched
<1>6. Pass(m)'
  BY <1>1, <1>4, <1>5 DEF Pass, PassOK
<1>. QED  BY <1>6 DEF Books, OneMatcher

\* A commit by another session: orders it adds have filled nothing, and it fills none.
Grows(v, u) ==
  /\ SameTrades(u, v)
  /\ DOMAIN v.status \subseteq DOMAIN u.status
  /\ \A x \in DOMAIN v.status : /\ u.filled[x] = v.filled[x]
                                /\ u.status[x] = "FILLED" => v.status[x] = "FILLED"
  /\ \A x \in DOMAIN u.status \ DOMAIN v.status : u.filled[x] = 0 /\ u.status[x] # "FILLED"

\* The orders' sums hold over it.
LEMMA OrdersGrow ==
  ASSUME NEW u, NEW v, Grows(v, u), NEW o, NEW behind, behind = 0 \/ o \in DOMAIN v.status,
         OrdersSum(v, o, behind)
  PROVE  OrdersSum(u, o, behind)
<1>1. \A x : Fills(u, x) = Fills(v, x) /\ u.fill = v.fill
  BY DEF Fills, Grows, SameTrades
<1>2. ASSUME NEW x \in DOMAIN v.status
      PROVE  /\ u.filled[x] + (IF x = o THEN behind ELSE 0) = Sum(u.fill, Fills(u, x))
             /\ u.status[x] = "FILLED" => u.filled[x] = Ask[x].qty
  BY <1>1 DEF OrdersSum, Grows
<1>3. ASSUME NEW x \in DOMAIN u.status \ DOMAIN v.status
      PROVE  /\ u.filled[x] + (IF x = o THEN behind ELSE 0) = Sum(u.fill, Fills(u, x))
             /\ u.status[x] # "FILLED"
  <2>1. Fills(v, x) = {}
    BY DEF OrdersSum, Fills
  <2>2. Sum(u.fill, Fills(u, x)) = 0
    BY <1>1, <2>1, SumNone
  <2>. QED  BY <2>2 DEF Grows
<1>4. \A k \in DOMAIN u.fill : k[1] \in DOMAIN u.status
  BY <1>1 DEF OrdersSum, Grows
<1>. QED  BY <1>2, <1>3, <1>4 DEF OrdersSum

\* What a request commits.
LEMMA RequestCommits ==
  ASSUME Shape, NEW s \in Sessions \ Matchers, Commit(s)
  PROVE  Grows(db, db')
<1>. DEFINE w == own[s]
<1>1. db' = View(s) /\ (s \in Placing \/ s \in Cancellers) /\ pc[s] \in {"commit", "turn"}
  BY DEF Commit, Sessions
<1>2. TablesTyped(db) /\ RowsWhole(db) /\ NoTrades(w)
  BY <1>1 DEF Shape, PlacerOK, CancellerOK
<1>3. /\ db'.status = Over(w.status, db.status) /\ db'.filled = Over(w.filled, db.filled)
      /\ db'.fill = Over(w.fill, db.fill) /\ db'.entry = Over(w.entry, db.entry)
      /\ db'.lot = Over(w.lot, db.lot) /\ db'.row = Over(w.row, db.row)
  BY <1>1, ViewIs
<1>4. SameTrades(db', db)
  <2>1. Over(w.fill, db.fill) = db.fill /\ Over(w.entry, db.entry) = db.entry
    BY <1>2, OverNone DEF TablesTyped, NoTrades
  <2>2. Over(w.lot, db.lot) = db.lot /\ Over(w.row, db.row) = db.row
    BY <1>2, OverNone DEF TablesTyped, NoTrades
  <2>. QED  BY <1>3, <2>1, <2>2 DEF SameTrades
<1>. HIDE DEF w
<1>5. CASE s \in Placing
  <2>1. /\ DOMAIN w.status = {s} /\ DOMAIN w.filled = {s} /\ w.filled[s] = 0
        /\ w.status[s] \in {"ACCEPTED", "REJECTED"} /\ s \notin DOMAIN db.status
    BY <1>1, <1>5 DEF Shape, PlacerOK, w
  <2>2. /\ DOMAIN db'.status = {s} \cup DOMAIN db.status
        /\ db'.status[s] = w.status[s] /\ db'.filled[s] = w.filled[s]
        /\ \A x \in DOMAIN db.status : db'.status[x] = db.status[x] /\ db'.filled[x] = db.filled[x]
    BY <1>2, <1>3, <2>1 DEF Over, RowsWhole
  <2>. QED  BY <1>4, <2>1, <2>2 DEF Grows
<1>6. CASE s \in Cancellers
  <2>1. /\ DOMAIN w.filled = {} /\ DOMAIN w.status \subseteq DOMAIN db.status
        /\ \A o \in DOMAIN w.status : w.status[o] = "CANCELED"
    BY <1>6 DEF Shape, CancellerOK, w
  <2>2. /\ DOMAIN db'.status = DOMAIN db.status
        /\ \A x \in DOMAIN db.status :
             /\ db'.filled[x] = db.filled[x]
             /\ db'.status[x] = "CANCELED" \/ db'.status[x] = db.status[x]
    BY <1>2, <1>3, <2>1 DEF Over, RowsWhole
  <2>. QED  BY <1>4, <2>2 DEF Grows
<1>. QED  BY <1>1, <1>5, <1>6

\* A pass sees it likewise.
LEMMA PassSeesIt ==
  ASSUME Shape, Shape', NEW m \in Matchers, own'[m] = own[m], Grows(db, db')
  PROVE  Grows(View(m), View(m)')
<1>. DEFINE w == own[m]
<1>1. /\ RowsWhole(db) /\ RowsWhole(db')
      /\ DOMAIN w.status \subseteq DOMAIN db.status /\ DOMAIN w.filled \subseteq DOMAIN db.status
  BY DEF Shape, MatcherOK
<1>2. /\ View(m).status = Over(w.status, db.status) /\ View(m).filled = Over(w.filled, db.filled)
      /\ View(m).fill = Over(w.fill, db.fill) /\ View(m).entry = Over(w.entry, db.entry)
      /\ View(m).lot = Over(w.lot, db.lot) /\ View(m).row = Over(w.row, db.row)
  BY ViewIs
<1>3. /\ View(m)'.status = Over(w.status, db'.status) /\ View(m)'.filled = Over(w.filled, db'.filled)
      /\ View(m)'.fill = Over(w.fill, db'.fill) /\ View(m)'.entry = Over(w.entry, db'.entry)
      /\ View(m)'.lot = Over(w.lot, db'.lot) /\ View(m)'.row = Over(w.row, db'.row)
  BY ViewNext
<1>4. SameTrades(View(m)', View(m))
  BY <1>2, <1>3 DEF SameTrades, Grows
<1>5. PICK v, u : v = View(m) /\ u = View(m)'
  OBVIOUS
<1>. HIDE DEF w
<1>6. /\ DOMAIN v.status = DOMAIN db.status /\ DOMAIN u.status = DOMAIN db'.status
      /\ DOMAIN db.status \subseteq DOMAIN db'.status
  BY <1>1, <1>2, <1>3, <1>5 DEF Over, Grows
<1>7. ASSUME NEW x \in DOMAIN db'.status
      PROVE  /\ u.status[x] = IF x \in DOMAIN w.status THEN w.status[x] ELSE db'.status[x]
             /\ u.filled[x] = IF x \in DOMAIN w.filled THEN w.filled[x] ELSE db'.filled[x]
  BY <1>1, <1>3, <1>5 DEF Over, RowsWhole
<1>8. ASSUME NEW x \in DOMAIN db.status
      PROVE  /\ v.status[x] = IF x \in DOMAIN w.status THEN w.status[x] ELSE db.status[x]
             /\ v.filled[x] = IF x \in DOMAIN w.filled THEN w.filled[x] ELSE db.filled[x]
  BY <1>1, <1>2, <1>5 DEF Over, RowsWhole
<1>9. Grows(v, u)
  <2>1. ASSUME NEW x \in DOMAIN db.status
        PROVE  u.filled[x] = v.filled[x] /\ (u.status[x] = "FILLED" => v.status[x] = "FILLED")
    BY <1>6, <1>7, <1>8 DEF Grows
  <2>2. ASSUME NEW x \in DOMAIN db'.status \ DOMAIN db.status
        PROVE  u.filled[x] = 0 /\ u.status[x] # "FILLED"
    BY <1>1, <1>7 DEF Grows
  <2>. QED  BY <1>4, <1>5, <1>6, <2>1, <2>2 DEF Grows
<1>. QED  BY <1>5, <1>9

\* The order in turn is committed.
LEMMA TurnIsCommitted ==
  ASSUME Shape, NEW m \in Matchers, pc[m] \in Filling
  PROVE  /\ mem[m].todo # {} /\ First(mem[m].todo) = Turn(m) /\ Turn(m) \in mem[m].todo
         /\ Turn(m) \in DOMAIN db.status /\ Turn(m) \in DOMAIN View(m).status
         /\ mem[m].todo \subseteq DOMAIN db.status
<1>1. /\ MatcherOK(db, own[m], pc[m], mem[m]) /\ Turn(m) = First(mem[m].todo)
      /\ mem[m].todo # {} => Turn(m) \in mem[m].todo /\ Turn(m) \in DOMAIN db.status
  BY MatcherIs
<1>2. DOMAIN View(m).status = DOMAIN own[m].status \cup DOMAIN db.status
  BY DEF View, Over, Tables
<1>. QED  BY <1>1, <1>2 DEF MatcherOK

\* A step of a session that is no pass keeps the books.
LEMMA RequestBooks ==
  ASSUME Shape, Shape', Books, NEW s \in Sessions \ Matchers, Alone(s), Commit(s) \/ db' = db
  PROVE  Books'
<1>1. ASSUME NEW m \in Matchers
      PROVE  own'[m] = own[m] /\ pc'[m] = pc[m] /\ mem'[m] = mem[m]
  BY DEF Alone, Sessions
<1>2. CASE db' = db
  <2>1. ASSUME NEW m \in Matchers PROVE Pass(m)'
    <3>1. View(m)' = View(m)
      BY <1>1, <1>2 DEF View
    <3>. QED  BY <1>1, <1>2, <3>1 DEF Books, Pass
  <2>. QED  BY <1>2, <2>1 DEF Books
<1>3. CASE Commit(s)
  <2>1. Grows(db, db')
    BY <1>3, RequestCommits
  <2>2. Settled(db') /\ OrdersSum(db', 0, 0)
    <3>1. SameTrades(db', db)
      BY <2>1 DEF Grows
    <3>2. Settled(db) /\ OrdersSum(db, 0, 0)
      BY DEF Books
    <3>3. Settled(db')
      BY <3>1, <3>2, TradesSame DEF Settled
    <3>. QED  BY <2>1, <3>2, <3>3, OrdersGrow
  <2>3. ASSUME NEW m \in Matchers PROVE Pass(m)'
    <3>. DEFINE v == View(m)
                u == View(m)'
                r == mem[m]
                at == pc[m]
    <3>1. PassOK(db, own[m], v, at, r)
      BY DEF Books, Pass
    <3>2. Grows(v, u)
      BY <1>1, <2>1, PassSeesIt
    <3>3. at \in Filled => First(r.todo) \in DOMAIN v.status
      BY TurnIsCommitted DEF Filled, Filling
    <3>. HIDE DEF v, u
    <3>4. TradesAt(u, at, r)
      BY <3>1, <3>2, TradesAtSame DEF PassOK, Grows
    <3>5. OrdersAt(u, at, r)
      BY <3>1, <3>2, <3>3, OrdersGrow DEF PassOK, OrdersAt
    <3>6. Untouched(db', own[m], at, r)
      <4>1. r.todo \subseteq DOMAIN db.status
        BY DEF Shape, MatcherOK
      <4>. QED  BY <2>1, <3>1, <4>1 DEF PassOK, Untouched, Grows
    <3>7. PassOK(db', own'[m], u, pc'[m], mem'[m])
      BY <1>1, <3>4, <3>5, <3>6 DEF PassOK
    <3>. QED  BY <3>7 DEF Pass, u
  <2>. QED  BY <2>2, <2>3 DEF Books
<1>. QED  BY <1>2, <1>3

-----------------------------------------------------------------------------
(* The steps of a pass. *)

\* What the step of a pass that goes on has to show.
LEMMA PassGoes ==
  ASSUME OneMatcher, Books, NEW m \in Matchers, db' = db,
         PassOK(db, own'[m], View(m)', pc'[m], mem'[m])
  PROVE  Books'
<1>1. Pass(m)'
  BY DEF Pass
<1>. QED  BY <1>1 DEF Books, OneMatcher

\* A pass that rolls back falls on books that balance.
LEMMA RollbackBooks ==
  ASSUME OneMatcher, Shape, Shape', Books, NEW m \in Matchers, Rollback(m)
  PROVE  Books'
BY ClosedBooks DEF Rollback, Books

\* What a pass commits are books that balance.
LEMMA CommitBooks ==
  ASSUME OneMatcher, Shape, Shape', Books, NEW m \in Matchers, Commit(m)
  PROVE  Books'
<1>1. db' = View(m) /\ Close(m) /\ pc[m] = "turn"
  BY SessionsAreApart DEF Commit, Shape, MatcherOK, Filling
<1>2. Settled(View(m)) /\ OrdersSum(View(m), 0, 0)
  BY <1>1 DEF Books, Pass, PassOK, TradesAt, OrdersAt, Filled
<1>. QED  BY <1>1, <1>2, ClosedBooks

\* A pass begins with orders it has written nothing of.
LEMMA BeginPassBooks ==
  ASSUME OneMatcher, Shape, Books, NEW m \in Matchers, BeginPass(m)
  PROVE  Books'
<1>. DEFINE open == OpenOrders(db)
            loaded == [o \in open |-> [status |-> db.status[o], filled |-> db.filled[o],
                                       reserved |-> db.reserved[o]]]
            r == [mem[m] EXCEPT !.todo = open, !.loaded = loaded]
<1>1. m \in Sessions /\ DOMAIN mem[m] = DOMAIN Blank
  BY MatcherIs
<1>2. /\ db' = db /\ own' = own /\ pc[m] = "idle" /\ pc'[m] = "turn" /\ mem'[m] = r
  BY <1>1 DEF BeginPass, Shape
<1>3. r.todo = open /\ r.loaded = loaded
  BY <1>1, BlankIs
<1>4. View(m)' = View(m)
  BY <1>2 DEF View
<1>5. PassOK(db, own[m], View(m), "idle", mem[m])
  BY <1>2 DEF Books, Pass
<1>6. TradesAt(View(m), "turn", r) /\ OrdersAt(View(m), "turn", r)
  <2>1. Settled(View(m)) /\ OrdersSum(View(m), 0, 0)
    BY <1>5 DEF PassOK, TradesAt, OrdersAt, Filled
  <2>. HIDE DEF r
  <2>. QED  BY <2>1 DEF TradesAt, OrdersAt, Filled
<1>7. Untouched(db, own[m], "turn", r)
  <2>1. /\ DOMAIN own[m].status = {} /\ DOMAIN own[m].filled = {} /\ DOMAIN own[m].fill = {}
    BY <1>5 DEF PassOK, Untouched, Tables
  <2>2. \A o \in open : db.status[o] # "FILLED" /\ loaded[o].filled = db.filled[o]
    BY DEF OpenOrders, OpenStatuses
  <2>. HIDE DEF r, open, loaded
  <2>. QED  BY <1>3, <2>1, <2>2 DEF Untouched
<1>8. PassOK(db, own'[m], View(m)', pc'[m], mem'[m])
  BY <1>2, <1>4, <1>6, <1>7 DEF PassOK
<1>. QED  BY <1>2, <1>8, PassGoes

\* A pass that goes on without writing sees what it saw.
LEMMA GoesSeeing ==
  ASSUME Shape, NEW m \in Matchers, NEW next, NEW r, Goes(m, next, r), UNCHANGED own
  PROVE  db' = db /\ own'[m] = own[m] /\ pc'[m] = next /\ mem'[m] = r /\ View(m)' = View(m)
<1>1. m \in Sessions
  BY DEF Sessions
<1>. QED  BY <1>1 DEF Shape, Goes, View

\* An order the quote does not fill.
LEMMA RestOrderBooks ==
  ASSUME OneMatcher, Shape, Books, NEW m \in Matchers, RestOrder(m)
  PROVE  Books'
<1>. DEFINE r == [mem[m] EXCEPT !.todo = mem[m].todo \ {Turn(m)}]
<1>1. Goes(m, "turn", r) /\ UNCHANGED own /\ pc[m] = "turn" /\ DOMAIN mem[m] = DOMAIN Blank
  BY MatcherIs DEF RestOrder
<1>2. r.todo \subseteq mem[m].todo /\ r.loaded = mem[m].loaded
  BY <1>1, BlankIs
<1>. HIDE DEF r
<1>3. /\ db' = db /\ own'[m] = own[m] /\ pc'[m] = "turn" /\ mem'[m] = r /\ View(m)' = View(m)
  BY <1>1, GoesSeeing
<1>4. PassOK(db, own[m], View(m), "turn", mem[m])
  BY <1>1 DEF Books, Pass
<1>5. TradesAt(View(m), "turn", r) /\ OrdersAt(View(m), "turn", r)
  BY <1>4 DEF PassOK, TradesAt, OrdersAt, Filled
<1>6. Untouched(db, own[m], "turn", r)
  BY <1>2, <1>4 DEF PassOK, Untouched, Filled
<1>7. PassOK(db, own'[m], View(m)', pc'[m], mem'[m])
  BY <1>3, <1>5, <1>6 DEF PassOK
<1>. QED  BY <1>3, <1>7, PassGoes

\* An order is sized by what there is.
LEMMA SizeOrderBooks ==
  ASSUME OneMatcher, Shape, Books, NEW m \in Matchers, SizeOrder(m)
  PROVE  Books'
<1>. DEFINE r == [mem[m] EXCEPT !.qty = Executable(m)]
            next == IF Executable(m) > 0 THEN "number" ELSE "finish"
            o == First(mem[m].todo)
<1>1. /\ Goes(m, next, r) /\ UNCHANGED own /\ pc[m] = "turn" /\ DOMAIN mem[m] = DOMAIN Blank
      /\ mem[m].todo # {} /\ o = Turn(m)
  BY MatcherIs DEF SizeOrder
<1>2. r.todo = mem[m].todo /\ r.loaded = mem[m].loaded /\ r.qty = Executable(m)
  BY <1>1, BlankIs
<1>3. /\ Executable(m) \in Nat
      /\ Executable(m) > 0 /\ Ask[o].side = "BUY" => Executable(m) <= Cash(View(m))
      /\ Executable(m) > 0 /\ Ask[o].side # "BUY" => Executable(m) <= OpenQty(View(m))
  BY <1>1, ExecutableFits
<1>4. \/ next = "number" /\ r.qty > 0
      \/ next = "finish" /\ r.qty = 0
  BY <1>2, <1>3
<1>. HIDE DEF r, next
<1>5. /\ db' = db /\ own'[m] = own[m] /\ pc'[m] = next /\ mem'[m] = r /\ View(m)' = View(m)
  BY <1>1, GoesSeeing
<1>6. PassOK(db, own[m], View(m), "turn", mem[m])
  BY <1>1 DEF Books, Pass
<1>7. Settled(View(m)) /\ OrdersSum(View(m), 0, 0)
  BY <1>6 DEF PassOK, TradesAt, OrdersAt, Filled
<1>8. TradesAt(View(m), next, r)
  BY <1>2, <1>3, <1>4, <1>7 DEF TradesAt
<1>9. OrdersAt(View(m), next, r)
  <2>1. OrdersSum(View(m), o, 0)
    BY <1>7 DEF OrdersSum
  <2>. QED  BY <1>2, <1>4, <1>7, <2>1 DEF OrdersAt, Filled
<1>10. Untouched(db, own[m], next, r)
  BY <1>2, <1>4, <1>6 DEF PassOK, Untouched, Filled
<1>11. PassOK(db, own'[m], View(m)', pc'[m], mem'[m])
  BY <1>5, <1>8, <1>9, <1>10 DEF PassOK
<1>. QED  BY <1>5, <1>11, PassGoes

\* A fill is numbered.
LEMMA NumberFillBooks ==
  ASSUME OneMatcher, Shape, Books, NEW m \in Matchers, NumberFill(m)
  PROVE  Books'
<1>. DEFINE r == [mem[m] EXCEPT !.seq = Cardinality(Fills(View(m), Turn(m))) + 1]
<1>1. Goes(m, "insert", r) /\ UNCHANGED own /\ pc[m] = "number" /\ DOMAIN mem[m] = DOMAIN Blank
  BY MatcherIs DEF NumberFill
<1>2. r.todo = mem[m].todo /\ r.loaded = mem[m].loaded /\ r.qty = mem[m].qty
  BY <1>1, BlankIs
<1>. HIDE DEF r
<1>3. /\ db' = db /\ own'[m] = own[m] /\ pc'[m] = "insert" /\ mem'[m] = r /\ View(m)' = View(m)
  BY <1>1, GoesSeeing
<1>4. PassOK(db, own[m], View(m), "number", mem[m])
  BY <1>1 DEF Books, Pass
<1>5. TradesAt(View(m), "insert", r) /\ OrdersAt(View(m), "insert", r)
  BY <1>2, <1>4 DEF PassOK, TradesAt, OrdersAt, Filled
<1>6. Untouched(db, own[m], "insert", r)
  BY <1>2, <1>4 DEF PassOK, Untouched, Filled
<1>7. PassOK(db, own'[m], View(m)', pc'[m], mem'[m])
  BY <1>3, <1>5, <1>6 DEF PassOK
<1>. QED  BY <1>3, <1>7, PassGoes

\* What a pass that writes w sees, table by table.
LEMMA WritesSeeing ==
  ASSUME Shape, NEW m \in Matchers, NEW next, NEW r, Goes(m, next, r),
         NEW w, own' = [own EXCEPT ![m] = w]
  PROVE  /\ db' = db /\ own'[m] = w /\ pc'[m] = next /\ mem'[m] = r
         /\ View(m)'.status = Over(w.status, db.status)
         /\ View(m)'.filled = Over(w.filled, db.filled)
         /\ View(m)'.fill = Over(w.fill, db.fill) /\ View(m)'.entry = Over(w.entry, db.entry)
         /\ View(m)'.lot = Over(w.lot, db.lot) /\ View(m)'.row = Over(w.row, db.row)
<1>1. m \in Sessions
  BY DEF Sessions
<1>2. db' = db /\ own'[m] = w /\ pc'[m] = next /\ mem'[m] = r
  BY <1>1, GoesOn
<1>. QED  BY <1>2, ViewNext

\* A fill is inserted.
LEMMA InsertFillBooks ==
  ASSUME OneMatcher, Shape, Shape', Books, NEW m \in Matchers, InsertFill(m)
  PROVE  Books'
<1>. DEFINE key == <<Turn(m), mem[m].seq>>
            q == mem[m].qty
            w == own[m]
            fill == With(w.fill, key, q)
            w2 == [w EXCEPT !.fill = fill]
            r == mem[m]
<1>1. CASE key \in DOMAIN db.fill
  BY <1>1, RollbackBooks DEF InsertFill
<1>2. CASE key \notin DOMAIN db.fill
  <2>1. /\ own' = [own EXCEPT ![m] = w2] /\ Goes(m, "settle", r) /\ pc[m] = "insert"
        /\ pc[m] \in Filling
    BY <1>2 DEF InsertFill, Filling
  <2>2. /\ DOMAIN w = Tables /\ q \in Nat /\ First(r.todo) = Turn(m) /\ Turn(m) \in r.todo
        /\ Turn(m) \in DOMAIN View(m).status
    BY <2>1, MatcherIs, TurnIsCommitted DEF TablesTyped, MatcherOK
  <2>3. /\ w2.status = w.status /\ w2.filled = w.filled /\ w2.fill = fill
        /\ w2.entry = w.entry /\ w2.lot = w.lot /\ w2.row = w.row
        /\ \A t \in Tables : t # "fill" => w2[t] = w[t]
    BY <2>2 DEF Tables
  <2>. HIDE DEF w2
  <2>4. /\ db' = db /\ own'[m] = w2 /\ pc'[m] = "settle" /\ mem'[m] = r
        /\ View(m)'.status = Over(w2.status, db.status)
        /\ View(m)'.filled = Over(w2.filled, db.filled)
        /\ View(m)'.fill = Over(w2.fill, db.fill) /\ View(m)'.entry = Over(w2.entry, db.entry)
        /\ View(m)'.lot = Over(w2.lot, db.lot) /\ View(m)'.row = Over(w2.row, db.row)
    BY <2>1, WritesSeeing
  <2>5. PICK v, u : v = View(m) /\ u = View(m)'
    OBVIOUS
  <2>6. /\ u.status = v.status /\ u.filled = v.filled /\ u.entry = v.entry
        /\ u.lot = v.lot /\ u.row = v.row
    BY <2>3, <2>4, <2>5, ViewIs
  <2>7. u.fill = With(v.fill, key, q) /\ DOMAIN v.fill = DOMAIN w.fill \cup DOMAIN db.fill
    <3>1. v.fill = Over(w.fill, db.fill)
      BY <2>5, ViewIs
    <3>2. DOMAIN v.fill = DOMAIN w.fill \cup DOMAIN db.fill
      BY <3>1 DEF Over
    <3>. QED  BY <2>3, <2>4, <2>5, <3>1, <3>2, OverWith
  <2>8. PassOK(db, w, v, "insert", r) /\ TablesTyped(v)
    BY <2>1, <2>5, ViewTyped DEF Books, Pass, Sessions
  <2>9. q > 0 /\ Settled(v) /\ OrdersSum(v, 0, 0)
    BY <2>8 DEF PassOK, TradesAt, OrdersAt, Filled
  <2>10. key \notin DOMAIN v.fill
    <3>1. key[1] = Turn(m)
      OBVIOUS
    <3>2. key \notin DOMAIN w.fill
      BY <2>2, <2>8, <3>1 DEF PassOK, Untouched, Filled
    <3>. QED  BY <1>2, <2>7, <3>2
  <2>11. TradesAt(u, "settle", r)
    <3>1. /\ Trades(u, {key}, 0, 0, 0) /\ u.fill[key] = q
          /\ Cash(u) = Cash(v) /\ OpenQty(u) = OpenQty(v)
      <4>1. u.fill[key] = q
        BY <2>7 DEF With
      <4>2. Cash(u) = Cash(v) /\ OpenQty(u) = OpenQty(v)
        BY <2>6, CashSame, OpenSame
      <4>. HIDE DEF key, q
      <4>3. Trades(u, {key}, 0, 0, 0)
        BY <2>6, <2>7, <2>9, <2>10, FillInserted
      <4>. QED  BY <4>1, <4>2, <4>3
    <3>. QED  BY <2>2, <2>8, <3>1 DEF PassOK, TradesAt
  <2>12. OrdersAt(u, "settle", r)
    <3>1. \A x \in DOMAIN v.status : v.filled[x] \in Nat
      <4>1. DOMAIN v.status \subseteq DOMAIN v.filled
        <5>1. /\ DOMAIN w.status \subseteq DOMAIN db.status /\ DOMAIN db.filled = DOMAIN db.status
              /\ v.status = Over(w.status, db.status) /\ v.filled = Over(w.filled, db.filled)
          BY <2>5, ViewIs DEF Shape, MatcherOK, RowsWhole
        <5>. QED  BY <5>1 DEF Over
      <4>. QED  BY <2>8, <4>1 DEF TablesTyped, Table
    <3>2. Turn(m) \in DOMAIN v.status
      BY <2>2, <2>5
    <3>3. OrdersSum(u, Turn(m), q)
      BY <2>2, <2>6, <2>7, <2>8, <2>9, <2>10, <3>1, <3>2, FillPending
    <3>. QED  BY <2>2, <3>3 DEF OrdersAt, Filled
  <2>13. Untouched(db, w2, "settle", r)
    <3>1. DOMAIN w2.fill = {key} \cup DOMAIN w.fill /\ key[1] = Turn(m)
      BY <2>3 DEF With
    <3>2. \A k \in DOMAIN w2.fill : k[1] \in r.todo => k[1] = First(r.todo)
      BY <2>2, <2>8, <3>1 DEF PassOK, Untouched
    <3>. QED  BY <2>3, <2>8, <3>2 DEF PassOK, Untouched, Filled
  <2>14. PassOK(db, own'[m], View(m)', pc'[m], mem'[m])
    BY <2>4, <2>5, <2>11, <2>12, <2>13 DEF PassOK
  <2>. QED  BY <2>4, <2>14, PassGoes
<1>. QED  BY <1>1, <1>2

\* A step that leaves status and filled alone leaves the orders as they were.
LEMMA OrdersAtSame ==
  ASSUME NEW u, NEW v, SameOrders(u, v), NEW at \in Filled, NEW next \in Filled, NEW r, NEW s,
         s.qty = r.qty, s.todo = r.todo, OrdersAt(v, at, r)
  PROVE  OrdersAt(u, next, s)
BY OrdersSame DEF OrdersAt

\* A buy is paid for.
LEMMA SettleBuyBooks ==
  ASSUME OneMatcher, Shape, Shape', Books, NEW m \in Matchers, SettleBuy(m)
  PROVE  Books'
<1>. DEFINE key == <<Turn(m), mem[m].seq>>
            q == mem[m].qty
            w == own[m]
            entry == With(w.entry, key, 0 - q)
            w2 == [w EXCEPT !.entry = entry]
            r == [mem[m] EXCEPT !.row = OpenRow(View(m))]
<1>1. CASE Cash(View(m)) < q
  BY <1>1, RollbackBooks DEF SettleBuy
<1>2. CASE ~(Cash(View(m)) < q)
  <2>1. /\ own' = [own EXCEPT ![m] = w2] /\ Goes(m, "project", r) /\ pc[m] = "settle"
        /\ pc[m] \in Filling /\ Ask[Turn(m)].side = "BUY"
    BY <1>2 DEF SettleBuy, Filling
  <2>2. /\ DOMAIN w = Tables /\ q \in Nat /\ First(mem[m].todo) = Turn(m)
        /\ DOMAIN mem[m] = DOMAIN Blank
    BY <2>1, MatcherIs, TurnIsCommitted DEF TablesTyped, MatcherOK
  <2>3. /\ w2.status = w.status /\ w2.filled = w.filled /\ w2.fill = w.fill
        /\ w2.entry = entry /\ w2.lot = w.lot /\ w2.row = w.row
    BY <2>2 DEF Tables
  <2>4. /\ r.todo = mem[m].todo /\ r.loaded = mem[m].loaded /\ r.qty = q /\ r.seq = mem[m].seq
        /\ r.row = OpenRow(View(m))
    BY <2>2, BlankIs
  <2>. HIDE DEF w2, r
  <2>5. /\ db' = db /\ own'[m] = w2 /\ pc'[m] = "project" /\ mem'[m] = r
        /\ View(m)'.status = Over(w2.status, db.status)
        /\ View(m)'.filled = Over(w2.filled, db.filled)
        /\ View(m)'.fill = Over(w2.fill, db.fill) /\ View(m)'.entry = Over(w2.entry, db.entry)
        /\ View(m)'.lot = Over(w2.lot, db.lot) /\ View(m)'.row = Over(w2.row, db.row)
    <3>1. Goes(m, "project", r) /\ own' = [own EXCEPT ![m] = w2]
      BY <2>1
    <3>. HIDE DEF w, entry, q, key
    <3>. QED  BY <3>1, WritesSeeing
  <2>6. PICK v, u : v = View(m) /\ u = View(m)'
    OBVIOUS
  <2>7. /\ u.status = v.status /\ u.filled = v.filled /\ u.fill = v.fill
        /\ u.lot = v.lot /\ u.row = v.row
    BY <2>3, <2>5, <2>6, ViewIs
  <2>8. u.entry = With(v.entry, key, 0 - q)
    BY <2>3, <2>5, <2>6, ViewIs, OverWith
  <2>9. PassOK(db, w, v, "settle", mem[m]) /\ TablesTyped(v)
    BY <2>1, <2>6, ViewTyped DEF Books, Pass, Sessions
  <2>10. q > 0 /\ Trades(v, {key}, 0, 0, 0) /\ v.fill[key] = q /\ q <= Cash(v)
    BY <2>1, <2>2, <2>9 DEF PassOK, TradesAt
  <2>11. Trades(u, {}, 0, 0, q) /\ OpenRow(u) = OpenRow(v)
    <3>1. Ask[key[1]].side = "BUY"
      BY <2>1
    <3>. HIDE DEF key
    <3>. QED  BY <2>2, <2>7, <2>8, <2>9, <2>10, <3>1, BuyPaid
  <2>12. TradesAt(u, "project", r)
    BY <2>1, <2>2, <2>4, <2>6, <2>10, <2>11 DEF TradesAt
  <2>13. OrdersAt(u, "project", r)
    BY <2>4, <2>7, <2>9, OrdersAtSame DEF PassOK, Filled, SameOrders
  <2>14. Untouched(db, w2, "project", r)
    BY <2>3, <2>4, <2>9 DEF PassOK, Untouched, Filled
  <2>15. PassOK(db, own'[m], View(m)', pc'[m], mem'[m])
    BY <2>5, <2>6, <2>12, <2>13, <2>14 DEF PassOK
  <2>. QED  BY <2>5, <2>15, PassGoes
<1>. QED  BY <1>1, <1>2

\* What a session sees after a step is typed.
LEMMA ViewTypedNext ==
  ASSUME NEW s \in Sessions
  PROVE  (Shape => TablesTyped(View(s)))'
<1>1. Shape => TablesTyped(View(s))
  BY ViewTyped
<1>. QED  BY <1>1, PTL

\* What SettleSell writes over what it sees is what the sale leaves of the lots.
LEMMA SaleSeen ==
  ASSUME NEW m, NEW v, NEW f, NEW g, v.lot = Over(f, g), NEW r,
         NEW T, T = {l \in Lots(v, r) : LeftOf(m, v, l) # v.lot[l]},
         NEW left, left = [l \in T |-> LeftOf(m, v, l)]
  PROVE  Over(Over(left, f), g) = Sold(v, mem[m].qty, r)
<1>. DEFINE lot == Over(Over(left, f), g)
            sold == Sold(v, mem[m].qty, r)
<1>1. DOMAIN v.lot = DOMAIN f \cup DOMAIN g /\ T \subseteq DOMAIN v.lot /\ DOMAIN left = T
  BY DEF Over, Lots
<1>2. lot = [l \in DOMAIN v.lot |-> IF l \in T THEN LeftOf(m, v, l) ELSE v.lot[l]]
  BY <1>1 DEF Over
<1>3. ASSUME NEW l \in DOMAIN v.lot
      PROVE  (IF l \in T THEN LeftOf(m, v, l) ELSE v.lot[l]) = sold[l]
  <2>1. sold[l] = IF l[1] = r THEN LeftOf(m, v, l) ELSE v.lot[l]
    BY DEF Sold, LeftOf
  <2>2. l[1] = r <=> l \in Lots(v, r)
    BY DEF Lots
  <2>. QED  BY <2>1, <2>2
<1>4. sold = [l \in DOMAIN v.lot |-> sold[l]]
  BY DEF Sold
<1>. HIDE DEF sold
<1>. QED  BY <1>2, <1>3, <1>4 DEF sold

\* A sale is settled from the oldest lots of the open position.
LEMMA SettleSellBooks ==
  ASSUME OneMatcher, Shape, Shape', Books, NEW m \in Matchers, SettleSell(m)
  PROVE  Books'
<1>. DEFINE key == <<Turn(m), mem[m].seq>>
            q == mem[m].qty
            w == own[m]
            T == {l \in Lots(View(m), OpenRow(View(m))) :
                    LeftOf(m, View(m), l) # View(m).lot[l]}
            left == [l \in T |-> LeftOf(m, View(m), l)]
            lot == Over(left, w.lot)
            entry == With(w.entry, key, q)
            w2 == [w EXCEPT !.lot = lot, !.entry = entry]
            r == [mem[m] EXCEPT !.row = OpenRow(View(m))]
<1>1. CASE OpenRow(View(m)) = 0 \/ LotsOpen(View(m), OpenRow(View(m))) < q
  BY <1>1, RollbackBooks DEF SettleSell
<1>2. CASE ~(OpenRow(View(m)) = 0 \/ LotsOpen(View(m), OpenRow(View(m))) < q)
  <2>1. /\ own' = [own EXCEPT ![m] = w2] /\ Goes(m, "project", r) /\ pc[m] = "settle"
        /\ pc[m] \in Filling /\ Ask[Turn(m)].side # "BUY"
    BY <1>2 DEF SettleSell, Filling
  <2>2. /\ DOMAIN w = Tables /\ q \in Nat /\ First(mem[m].todo) = Turn(m)
        /\ DOMAIN mem[m] = DOMAIN Blank
    BY <2>1, MatcherIs, TurnIsCommitted DEF TablesTyped, MatcherOK
  <2>3. /\ w2.status = w.status /\ w2.filled = w.filled /\ w2.fill = w.fill
        /\ w2.entry = entry /\ w2.lot = lot /\ w2.row = w.row
    BY <2>2 DEF Tables
  <2>4. /\ r.todo = mem[m].todo /\ r.loaded = mem[m].loaded /\ r.qty = q /\ r.seq = mem[m].seq
        /\ r.row = OpenRow(View(m))
    BY <2>2, BlankIs
  <2>. HIDE DEF w2, r
  <2>5. /\ db' = db /\ own'[m] = w2 /\ pc'[m] = "project" /\ mem'[m] = r
        /\ View(m)'.status = Over(w2.status, db.status)
        /\ View(m)'.filled = Over(w2.filled, db.filled)
        /\ View(m)'.fill = Over(w2.fill, db.fill) /\ View(m)'.entry = Over(w2.entry, db.entry)
        /\ View(m)'.lot = Over(w2.lot, db.lot) /\ View(m)'.row = Over(w2.row, db.row)
    <3>1. Goes(m, "project", r) /\ own' = [own EXCEPT ![m] = w2]
      BY <2>1
    <3>. HIDE DEF w, entry, lot, left, T, q, key
    <3>. QED  BY <3>1, WritesSeeing
  <2>6. PICK v, u : v = View(m) /\ u = View(m)'
    OBVIOUS
  <2>7. /\ u.status = v.status /\ u.filled = v.filled /\ u.fill = v.fill /\ u.row = v.row
    BY <2>3, <2>5, <2>6, ViewIs
  <2>8. u.entry = With(v.entry, key, q)
    BY <2>3, <2>5, <2>6, ViewIs, OverWith
  <2>9. u.lot = Sold(v, q, OpenRow(v))
    <3>1. u.lot = Over(Over(left, w.lot), db.lot) /\ v.lot = Over(w.lot, db.lot)
      BY <2>3, <2>5, <2>6, ViewIs
    <3>2. /\ T = {l \in Lots(v, OpenRow(v)) : LeftOf(m, v, l) # v.lot[l]}
          /\ left = [l \in T |-> LeftOf(m, v, l)]
      BY <2>6
    <3>3. PICK f, g, x, y : f = w.lot /\ g = db.lot /\ x = T /\ y = left
      OBVIOUS
    <3>. HIDE DEF T, left, w
    <3>4. /\ v.lot = Over(f, g) /\ x = {l \in Lots(v, OpenRow(v)) : LeftOf(m, v, l) # v.lot[l]}
          /\ y = [l \in x |-> LeftOf(m, v, l)]
      BY <3>1, <3>2, <3>3
    <3>5. Over(Over(y, f), g) = Sold(v, q, OpenRow(v))
      BY <3>4, SaleSeen
    <3>. QED  BY <3>1, <3>3, <3>5
  <2>10. PassOK(db, w, v, "settle", mem[m]) /\ TablesTyped(v)
    BY <2>1, <2>6, ViewTyped DEF Books, Pass, Sessions
  <2>11. q > 0 /\ Trades(v, {key}, 0, 0, 0) /\ v.fill[key] = q /\ q <= OpenQty(v)
    BY <2>1, <2>2, <2>10 DEF PassOK, TradesAt
  <2>12. Trades(u, {}, OpenRow(v), q, 0 - q) /\ OpenRow(u) = OpenRow(v) /\ OpenQty(u) = OpenQty(v)
    <3>1. Ask[key[1]].side # "BUY"
      BY <2>1
    <3>. HIDE DEF key, q
    <3>. QED  BY <2>2, <2>7, <2>8, <2>9, <2>10, <2>11, <3>1, SellPaid
  <2>13. TradesAt(u, "project", r)
    BY <2>1, <2>2, <2>4, <2>6, <2>11, <2>12 DEF TradesAt
  <2>14. OrdersAt(u, "project", r)
    BY <2>4, <2>7, <2>10, OrdersAtSame DEF PassOK, Filled, SameOrders
  <2>15. Untouched(db, w2, "project", r)
    BY <2>3, <2>4, <2>10 DEF PassOK, Untouched, Filled
  <2>16. PassOK(db, own'[m], View(m)', pc'[m], mem'[m])
    BY <2>5, <2>6, <2>13, <2>14, <2>15 DEF PassOK
  <2>. QED  BY <2>5, <2>16, PassGoes
<1>. QED  BY <1>1, <1>2

\* A position is brought in line with its lots.
LEMMA ProjectBooks ==
  ASSUME OneMatcher, Shape, Shape', Books, NEW m \in Matchers, Project(m)
  PROVE  Books'
<1>. DEFINE q == mem[m].qty
            w == own[m]
            new == mem[m].row = 0
            id == IF new THEN NextId(Keys("row")) ELSE mem[m].row
            n == NextId({l[2] : l \in Keys("lot")})
            lots == IF Ask[Turn(m)].side = "BUY" THEN With(w.lot, <<id, n>>, q) ELSE w.lot
            seen == [View(m) EXCEPT !.lot = LotsSeen(m, lots)]
            row == With(w.row, id, LotsOpen(seen, id))
            w2 == [w EXCEPT !.lot = lots, !.row = row]
            r == mem[m]
<1>1. CASE new /\ OpenRow(View(m)) # 0
  BY <1>1, RollbackBooks DEF Project
<1>2. CASE ~(new /\ OpenRow(View(m)) # 0)
  <2>1. /\ own' = [own EXCEPT ![m] = w2] /\ Goes(m, "finish", r) /\ pc[m] = "project"
        /\ pc[m] \in Filling
    BY <1>2 DEF Project, Filling
  <2>2. /\ DOMAIN w = Tables /\ q \in Nat /\ First(r.todo) = Turn(m) /\ DOMAIN View(m) = Tables
        /\ m \in Sessions
    BY <2>1, MatcherIs, TurnIsCommitted, ViewIs DEF TablesTyped, MatcherOK
  <2>3. /\ w2.status = w.status /\ w2.filled = w.filled /\ w2.fill = w.fill
        /\ w2.entry = w.entry /\ w2.lot = lots /\ w2.row = row
    BY <2>2 DEF Tables
  <2>4. seen.lot = Over(lots, db.lot)
    BY <2>2 DEF Tables, LotsSeen
  <2>. HIDE DEF w2, seen
  <2>5. /\ db' = db /\ own'[m] = w2 /\ pc'[m] = "finish" /\ mem'[m] = r
        /\ View(m)'.status = Over(w2.status, db.status)
        /\ View(m)'.filled = Over(w2.filled, db.filled)
        /\ View(m)'.fill = Over(w2.fill, db.fill) /\ View(m)'.entry = Over(w2.entry, db.entry)
        /\ View(m)'.lot = Over(w2.lot, db.lot) /\ View(m)'.row = Over(w2.row, db.row)
    <3>1. Goes(m, "finish", r) /\ own' = [own EXCEPT ![m] = w2]
      BY <2>1
    <3>. HIDE DEF w, row, lots, id, n, q, r
    <3>. QED  BY <3>1, WritesSeeing
  <2>6. PICK v, u : v = View(m) /\ u = View(m)'
    OBVIOUS
  <2>7. /\ u.status = v.status /\ u.filled = v.filled /\ u.fill = v.fill /\ u.entry = v.entry
    BY <2>3, <2>5, <2>6, ViewIs
  <2>8. v.lot = Over(w.lot, db.lot) /\ v.row = Over(w.row, db.row) /\ u.lot = Over(lots, db.lot)
    BY <2>3, <2>5, <2>6, ViewIs
  <2>9. PassOK(db, w, v, "project", r) /\ TablesTyped(v) /\ TablesTyped(u)
    <3>1. TablesTyped(View(m))
      BY <2>2, ViewTyped
    <3>2. TablesTyped(View(m)')
      BY <2>2, ViewTypedNext
    <3>. QED  BY <2>1, <2>6, <3>1, <3>2 DEF Books, Pass
  <2>10. LotsOpen(seen, id) = LotsOpen(u, id)
    BY <2>4, <2>8, LotsSame
  <2>. HIDE DEF id, n, lots, seen
  <2>11. u.row = With(v.row, id, LotsOpen(u, id))
    BY <2>3, <2>5, <2>6, <2>8, <2>10, OverWith
  <2>12. q > 0 /\ r.row = OpenRow(v)
    BY <2>9 DEF PassOK, TradesAt
  <2>13. Settled(u)
    <3>1. CASE Ask[Turn(m)].side = "BUY"
      <4>1. Trades(v, {}, 0, 0, q)
        BY <2>2, <2>9, <3>1 DEF PassOK, TradesAt
      <4>2. u.lot = With(v.lot, <<id, n>>, q)
        BY <2>8, <3>1, OverWith DEF lots
      <4>3. IF OpenRow(v) = 0 THEN id \notin DOMAIN v.row /\ id # 0 ELSE id = OpenRow(v)
        <5>1. NextId(Keys("row")) \in Nat \ {0} /\ \A k \in Keys("row") : k < NextId(Keys("row"))
          BY KeysAre, NextIdIsNew
        <5>2. DOMAIN v.row \subseteq Keys("row") /\ Keys("row") \subseteq Nat
          BY <2>2, <2>6, KeysAre
        <5>3. NextId(Keys("row")) \notin DOMAIN v.row
          BY <5>1, <5>2
        <5>. QED  BY <2>12, <5>1, <5>3 DEF id
      <4>4. <<id, n>> \notin DOMAIN v.lot
        <5>1. n \in Nat /\ \A l \in Keys("lot") : l[2] < n
          BY NextLotIsNew DEF n
        <5>2. DOMAIN v.lot \subseteq Keys("lot")
          BY <2>2, <2>6, KeysAre
        <5>3. \A l \in DOMAIN v.lot : l[2] < n
          BY <5>1, <5>2
        <5>4. <<id, n>>[2] = n /\ ~(n < n)
          BY <5>1
        <5>. QED  BY <5>3, <5>4
      <4>. HIDE DEF q, r
      <4>. QED  BY <2>2, <2>7, <2>9, <2>11, <2>12, <4>1, <4>2, <4>3, <4>4, BuyProjected
    <3>2. CASE Ask[Turn(m)].side # "BUY"
      <4>1. Trades(v, {}, OpenRow(v), q, 0 - q) /\ q <= OpenQty(v)
        BY <2>2, <2>9, <2>12, <3>2 DEF PassOK, TradesAt
      <4>2. u.lot = v.lot
        BY <2>8, <3>2 DEF lots
      <4>3. OpenRow(v) # 0
        BY <2>2, <2>12, <4>1 DEF OpenQty
      <4>4. id = OpenRow(v)
        BY <2>12, <4>3 DEF id
      <4>5. LotsOpen(u, id) = LotsOpen(v, id)
        BY <4>2, LotsSame
      <4>6. u.row = With(v.row, OpenRow(v), LotsOpen(v, OpenRow(v)))
        BY <2>11, <4>4, <4>5
      <4>. HIDE DEF q, r
      <4>. QED  BY <2>2, <2>7, <2>9, <2>12, <4>1, <4>2, <4>6, SellProjected
    <3>. QED  BY <3>1, <3>2
  <2>14. TradesAt(u, "finish", r)
    BY <2>13 DEF TradesAt
  <2>15. OrdersAt(u, "finish", r)
    BY <2>7, <2>9, OrdersAtSame DEF PassOK, Filled, SameOrders
  <2>16. Untouched(db, w2, "finish", r)
    BY <2>3, <2>9 DEF PassOK, Untouched, Filled
  <2>17. PassOK(db, own'[m], View(m)', pc'[m], mem'[m])
    BY <2>5, <2>6, <2>14, <2>15, <2>16 DEF PassOK
  <2>. QED  BY <2>5, <2>17, PassGoes
<1>. QED  BY <1>1, <1>2

\* What is seen of a column that is written where it differs.
LEMMA PutSeen ==
  ASSUME NEW f, NEW g, NEW o, o \in DOMAIN g, NEW new, NEW old
  PROVE  /\ DOMAIN Over(Put(f, o, new, old), g) = DOMAIN Over(f, g)
         /\ \A x \in DOMAIN Over(f, g) :
              Over(Put(f, o, new, old), g)[x] = IF x = o /\ new # old THEN new ELSE Over(f, g)[x]
<1>1. CASE new = old
  BY <1>1 DEF Put
<1>2. CASE new # old
  <2>1. Over(Put(f, o, new, old), g) = With(Over(f, g), o, new)
    BY <1>2, OverWith DEF Put
  <2>2. o \in DOMAIN Over(f, g)
    BY DEF Over
  <2>. QED  BY <1>2, <2>1, <2>2 DEF With
<1>. QED  BY <1>1, <1>2

\* A pass is done with an order.
LEMMA FinishOrderBooks ==
  ASSUME OneMatcher, Shape, Books, NEW m \in Matchers, FinishOrder(m)
  PROVE  Books'
<1>. DEFINE o == Turn(m)
            q == mem[m].qty
            w == own[m]
            was == mem[m].loaded[o]
            r == [mem[m] EXCEPT !.todo = @ \ {o}, !.qty = 0, !.seq = 0, !.row = 0]
<1>1. PICK status \in {"EXPIRED", "FILLED", "PARTIALLY_FILLED"}, filled \in Nat, reserved \in Nat :
        /\ filled = was.filled + q
        /\ status = "FILLED" => filled = Ask[o].qty
        /\ own' = [own EXCEPT ![m] = Finished(m, status, filled, reserved)]
  BY FinishFits
<1>. DEFINE w2 == Finished(m, status, filled, reserved)
            S == Put(w.status, o, status, was.status)
            F == Put(w.filled, o, filled, was.filled)
<1>2. /\ DOMAIN w = Tables /\ q \in Nat /\ First(mem[m].todo) = o /\ DOMAIN mem[m] = DOMAIN Blank
      /\ Goes(m, "turn", r) /\ pc[m] = "finish" /\ o \in mem[m].todo /\ o \in DOMAIN db.status
  <2>1. pc[m] \in Filling
    BY DEF FinishOrder, Filling
  <2>. QED  BY <2>1, MatcherIs, TurnIsCommitted DEF TablesTyped, MatcherOK, FinishOrder
<1>3. was.status \in OpenStatuses /\ was.filled \in Nat
  BY <1>2, MatcherIs DEF MatcherOK
<1>4. /\ w2.status = S /\ w2.filled = F /\ w2.fill = w.fill
      /\ w2.entry = w.entry /\ w2.lot = w.lot /\ w2.row = w.row
  BY <1>2 DEF Tables, Finished
<1>5. r.todo = mem[m].todo \ {o} /\ r.loaded = mem[m].loaded
  BY <1>2, BlankIs
<1>. HIDE DEF w2, r
<1>6. /\ db' = db /\ own'[m] = w2 /\ pc'[m] = "turn" /\ mem'[m] = r
      /\ View(m)'.status = Over(w2.status, db.status)
      /\ View(m)'.filled = Over(w2.filled, db.filled)
      /\ View(m)'.fill = Over(w2.fill, db.fill) /\ View(m)'.entry = Over(w2.entry, db.entry)
      /\ View(m)'.lot = Over(w2.lot, db.lot) /\ View(m)'.row = Over(w2.row, db.row)
  <2>1. Goes(m, "turn", r) /\ own' = [own EXCEPT ![m] = w2]
    BY <1>1, <1>2 DEF w2
  <2>. QED  BY <2>1, WritesSeeing
<1>7. PICK v, u : v = View(m) /\ u = View(m)'
  OBVIOUS
<1>8. /\ u.fill = v.fill /\ u.entry = v.entry /\ u.lot = v.lot /\ u.row = v.row
      /\ u.status = Over(S, db.status) /\ u.filled = Over(F, db.filled)
      /\ v.status = Over(w.status, db.status) /\ v.filled = Over(w.filled, db.filled)
  BY <1>4, <1>6, <1>7, ViewIs
<1>9. PassOK(db, w, v, "finish", mem[m])
  BY <1>2, <1>7 DEF Books, Pass
<1>10. /\ o \notin DOMAIN w.status /\ o \notin DOMAIN w.filled
       /\ was.filled = db.filled[o] /\ db.status[o] # "FILLED"
  BY <1>2, <1>9 DEF PassOK, Untouched
<1>11. /\ DOMAIN db.filled = DOMAIN db.status /\ DOMAIN w.status \subseteq DOMAIN db.status
       /\ DOMAIN w.filled \subseteq DOMAIN db.status
  BY DEF Shape, RowsWhole, MatcherOK
<1>12. /\ DOMAIN v.status = DOMAIN db.status /\ DOMAIN v.filled = DOMAIN db.status
       /\ v.status[o] = db.status[o] /\ v.filled[o] = db.filled[o]
  BY <1>2, <1>8, <1>10, <1>11 DEF Over
<1>13. /\ DOMAIN u.status = DOMAIN v.status
       /\ \A x \in DOMAIN v.status :
            u.status[x] = IF x = o /\ status # was.status THEN status ELSE v.status[x]
  <2>1. o \in DOMAIN db.status
    BY <1>2
  <2>. HIDE DEF o, was, w
  <2>. QED  BY <1>8, <2>1, PutSeen
<1>14. \A x \in DOMAIN v.status :
         u.filled[x] = IF x = o /\ filled # was.filled THEN filled ELSE v.filled[x]
  <2>1. o \in DOMAIN db.filled
    BY <1>2, <1>11
  <2>. HIDE DEF o, was, w
  <2>2. \A x \in DOMAIN v.filled :
          u.filled[x] = IF x = o /\ filled # was.filled THEN filled ELSE v.filled[x]
    BY <1>8, <2>1, PutSeen
  <2>. QED  BY <1>12, <2>2
<1>15. OrdersSum(u, 0, 0)
  <2>1. OrdersSum(v, o, q)
    BY <1>2, <1>9 DEF PassOK, OrdersAt, Filled
  <2>2. u.filled[o] = v.filled[o] + q
    BY <1>1, <1>2, <1>3, <1>10, <1>12, <1>14
  <2>3. u.status[o] = "FILLED" => u.filled[o] = Ask[o].qty
    <3>1. u.filled[o] = filled
      BY <1>2, <1>10, <1>12, <1>14
    <3>2. u.status[o] = "FILLED" => status = "FILLED"
      BY <1>2, <1>10, <1>12, <1>13
    <3>. QED  BY <1>1, <3>1, <3>2
  <2>4. \A x \in DOMAIN v.status : x # o => u.status[x] = v.status[x] /\ u.filled[x] = v.filled[x]
    BY <1>13, <1>14
  <2>5. \A x \in DOMAIN v.status : v.filled[x] \in Nat
    <3>1. TablesTyped(v)
      BY <1>7, ViewTyped DEF Sessions
    <3>. QED  BY <1>12, <3>1 DEF TablesTyped, Table
  <2>6. o \in DOMAIN v.status
    BY <1>2, <1>12
  <2>. HIDE DEF o, q
  <2>. QED  BY <1>2, <1>8, <1>13, <2>1, <2>2, <2>3, <2>4, <2>5, <2>6, FillRecorded
<1>16. TradesAt(u, "turn", r)
  <2>1. Settled(v) /\ SameTrades(u, v)
    BY <1>8, <1>9 DEF PassOK, TradesAt, SameTrades
  <2>2. Settled(u)
    BY <2>1, TradesSame DEF Settled
  <2>. QED  BY <2>2 DEF TradesAt
<1>17. OrdersAt(u, "turn", r)
  BY <1>15 DEF OrdersAt, Filled
<1>18. Untouched(db, w2, "turn", r)
  <2>1. DOMAIN S \subseteq DOMAIN w.status \cup {o} /\ DOMAIN F \subseteq DOMAIN w.filled \cup {o}
    BY DEF Put, With
  <2>2. \A x \in r.todo : /\ x \notin DOMAIN w2.status /\ x \notin DOMAIN w2.filled
                          /\ r.loaded[x].filled = db.filled[x] /\ db.status[x] # "FILLED"
    <3>. HIDE DEF S, F
    <3>. QED  BY <1>4, <1>5, <1>9, <2>1 DEF PassOK, Untouched
  <2>3. \A k \in DOMAIN w2.fill : k[1] \notin r.todo
    BY <1>2, <1>4, <1>5, <1>9 DEF PassOK, Untouched
  <2>. QED  BY <2>2, <2>3 DEF Untouched
<1>19. PassOK(db, own'[m], View(m)', pc'[m], mem'[m])
  BY <1>6, <1>7, <1>16, <1>17, <1>18 DEF PassOK
<1>. QED  BY <1>6, <1>19, PassGoes

-----------------------------------------------------------------------------
(* The theorems. *)

\* The initial books balance.
LEMMA InitBooks == Init => Books
<1>. SUFFICES ASSUME Init PROVE Books
  OBVIOUS
<1>. DEFINE S == Orders \ Placing
            lot == IF Held > 0 THEN With(<< >>, <<1, 1>>, Held) ELSE << >>
            row == IF Held > 0 THEN With(<< >>, 1, Held) ELSE << >>
<1>1. /\ db.status = [o \in S |-> "ACCEPTED"] /\ db.filled = [o \in S |-> 0]
      /\ db.lot = lot /\ db.row = row /\ db.fill = << >> /\ db.entry = << >>
  BY DEF Init, Nothing, Tables
<1>2. DOMAIN << >> = {} /\ TablesTyped(db) /\ Held \in Nat /\ Capital \in Nat
  BY InitTyped, SessionsAssumption
<1>3. Cash(db) = Capital
  <2>1. Sum(db.entry, {}) = 0 /\ Sum(Paid(db), {}) = 0
    BY SumNone
  <2>. QED  BY <1>1, <1>2, <2>1 DEF Cash
<1>4. RowsApart(db) /\ RowsSum(db, 0, 0) /\ OpenQty(db) = Held
  <2>1. CASE Held > 0
    <3>1. /\ DOMAIN db.lot = {<<1, 1>>} /\ db.lot[<<1, 1>>] = Held
          /\ DOMAIN db.row = {1} /\ db.row[1] = Held
      BY <1>1, <1>2, <2>1 DEF With
    <3>2. RowsApart(db)
      <4>1. <<1, 1>>[1] = 1
        OBVIOUS
      <4>. QED  BY <3>1, <4>1 DEF RowsApart
    <3>3. LotsOpen(db, 1) = Held
      <4>1. Lots(db, 1) = {} \cup {<<1, 1>>}
        BY <3>1 DEF Lots
      <4>2. PICK f, k : f = db.lot /\ k = <<1, 1>>
        OBVIOUS
      <4>3. IsFiniteSet({}) /\ k \notin {} /\ \A x \in {} \cup {k} : f[x] \in Int
        BY <1>2, <3>1, <4>2, FS_EmptySet
      <4>4. Sum(f, {} \cup {k}) = Sum(f, {}) + (IF f[k] > 0 THEN f[k] ELSE 0)
        BY <4>3, SumMore
      <4>5. Sum(f, {}) = 0
        BY SumNone
      <4>. QED  BY <1>2, <2>1, <3>1, <4>1, <4>2, <4>4, <4>5 DEF LotsOpen
    <3>4. RowsSum(db, 0, 0)
      BY <1>2, <3>1, <3>3 DEF RowsSum
    <3>5. OpenQty(db) = Held
      BY <1>2, <2>1, <3>1, <3>2, OpenIs
    <3>. QED  BY <3>2, <3>4, <3>5
  <2>2. CASE ~(Held > 0)
    <3>1. DOMAIN db.lot = {} /\ DOMAIN db.row = {} /\ Held = 0
      BY <1>1, <1>2, <2>2
    <3>. QED  BY <3>1 DEF RowsApart, RowsSum, OpenQty, OpenRow
  <2>. QED  BY <2>1, <2>2
<1>5. Settled(db)
  BY <1>1, <1>2, <1>3, <1>4 DEF Settled, Trades, EntriesMatch
<1>6. OrdersSum(db, 0, 0)
  <2>1. \A o : Fills(db, o) = {}
    BY <1>1, <1>2 DEF Fills
  <2>2. Sum(db.fill, {}) = 0
    BY SumNone
  <2>3. db.fill = << >> /\ DOMAIN db.fill = {}
    BY <1>1, <1>2
  <2>4. ASSUME NEW x \in DOMAIN db.status
        PROVE  /\ db.filled[x] + (IF x = 0 THEN 0 ELSE 0) = Sum(db.fill, Fills(db, x))
               /\ db.status[x] = "FILLED" => db.filled[x] = Ask[x].qty
    <3>1. Sum(db.fill, Fills(db, x)) = 0
      BY <2>1, <2>2
    <3>2. x \in Orders \ Placing /\ db.filled[x] = 0 /\ db.status[x] = "ACCEPTED"
      BY <1>1, <2>4
    <3>. QED  BY <3>1, <3>2
  <2>. QED  BY <2>3, <2>4 DEF OrdersSum
<1>7. ASSUME NEW m \in Matchers PROVE Pass(m)
  <2>1. own[m] = Nothing /\ pc[m] = "idle" /\ mem[m] = Blank
    BY DEF Init, Sessions
  <2>2. SameTrades(View(m), db) /\ SameOrders(View(m), db)
    <3>1. /\ DOMAIN Nothing.status = {} /\ DOMAIN Nothing.filled = {} /\ DOMAIN Nothing.fill = {}
          /\ DOMAIN Nothing.entry = {} /\ DOMAIN Nothing.lot = {} /\ DOMAIN Nothing.row = {}
      BY NothingTyped DEF NoTrades
    <3>2. /\ Over(Nothing.status, db.status) = db.status /\ Over(Nothing.filled, db.filled) = db.filled
      BY <1>2, <3>1, OverNone DEF TablesTyped
    <3>3. /\ Over(Nothing.fill, db.fill) = db.fill /\ Over(Nothing.entry, db.entry) = db.entry
      BY <1>2, <3>1, OverNone DEF TablesTyped
    <3>4. /\ Over(Nothing.lot, db.lot) = db.lot /\ Over(Nothing.row, db.row) = db.row
      BY <1>2, <3>1, OverNone DEF TablesTyped
    <3>. QED  BY <2>1, <3>2, <3>3, <3>4, ViewIs DEF SameTrades, SameOrders
  <2>3. Settled(View(m)) /\ OrdersSum(View(m), 0, 0)
    BY <1>5, <1>6, <2>2, TradesSame, OrdersSame DEF Settled
  <2>4. Untouched(db, Nothing, "idle", Blank)
    <3>1. (\A t \in Tables : DOMAIN Nothing[t] = {}) /\ DOMAIN Nothing.fill = {}
      BY NothingTyped DEF NoTrades, Nothing
    <3>. QED  BY <3>1, BlankIs DEF Untouched
  <2>5. TradesAt(View(m), "idle", Blank) /\ OrdersAt(View(m), "idle", Blank)
    BY <2>3 DEF TradesAt, OrdersAt, Filled
  <2>. QED  BY <2>1, <2>4, <2>5 DEF Pass, PassOK
<1>. QED  BY <1>5, <1>6, <1>7 DEF Books

\* Every step keeps the books.
LEMMA StepBooks == OneMatcher /\ Shape /\ Shape' /\ Books /\ [Next]_vars => Books'
<1>. SUFFICES ASSUME OneMatcher, Shape, Shape', Books, [Next]_vars PROVE Books'
  OBVIOUS
<1>1. CASE UNCHANGED vars
  <2>1. db' = db /\ own' = own /\ pc' = pc /\ mem' = mem
    BY <1>1 DEF vars
  <2>2. ASSUME NEW m \in Matchers PROVE Pass(m)'
    <3>1. View(m)' = View(m)
      BY <2>1 DEF View
    <3>. QED  BY <2>1, <3>1 DEF Books, Pass
  <2>. QED  BY <2>1, <2>2 DEF Books
<1>2. ASSUME NEW m \in Matchers, BeginPass(m) PROVE Books'
  BY <1>2, BeginPassBooks
<1>3. ASSUME NEW s \in Sessions, Step(s) \/ Crash(s) PROVE Books'
  <2>1. CASE s \notin Matchers
    <3>1. Alone(s) /\ (Commit(s) \/ db' = db)
      BY <1>3, StepsAlone
    <3>. QED  BY <2>1, <3>1, RequestBooks
  <2>2. CASE s \in Matchers
    <3>1. CASE MatcherStep(s)
      BY <2>2, <3>1, RestOrderBooks, SizeOrderBooks, NumberFillBooks, InsertFillBooks,
         SettleBuyBooks, SettleSellBooks, ProjectBooks, FinishOrderBooks DEF MatcherStep
    <3>2. CASE Commit(s)
      BY <2>2, <3>2, CommitBooks
    <3>3. CASE Crash(s)
      BY <2>2, <3>3, RollbackBooks DEF Crash
    <3>4. s \notin Placing /\ s \notin Cancellers
      BY <2>2, SessionsAreApart
    <3>. QED  BY <1>3, <3>1, <3>2, <3>3, <3>4 DEF Step
  <2>. QED  BY <2>1, <2>2
<1>. QED  BY <1>1, <1>2, <1>3 DEF Next

\* The invariant the books rest on.
THEOREM SessionsBooks ==
  ASSUME OneMatcher
  PROVE  Spec => []Books
<1>1. Init => Books
  BY InitBooks
<1>2. Shape /\ Shape' /\ Books /\ [Next]_vars => Books'
  BY StepBooks
<1>3. Spec => []Shape
  BY SessionsShape
<1>. QED  BY <1>1, <1>2, <1>3, PTL DEF Spec

\* An order says it filled what its fills sum to, no more than was asked, and all of it when it
\* says so, whatever requests and cancellations commit while the pass goes on with the order
\* rows it loaded, and wherever it crashes.
THEOREM FillsAddUp ==
  ASSUME OneMatcher
  PROVE  Spec => []OrdersMatchFills
<1>1. Shape /\ Books => OrdersMatchFills
  <2>. SUFFICES ASSUME Shape, Books, NEW o \in DOMAIN db.status
                PROVE  /\ db.filled[o] = Sum(db.fill, Fills(db, o)) /\ db.filled[o] <= Ask[o].qty
                       /\ db.status[o] = "FILLED" => db.filled[o] = Ask[o].qty
    BY DEF OrdersMatchFills
  <2>1. db.filled[o] \in Nat /\ db.filled[o] <= Ask[o].qty
    BY DEF Shape, TablesTyped, RowsWhole, Table
  <2>. QED  BY <2>1 DEF Books, OrdersSum
<1>2. Spec => []Shape /\ []Books
  BY SessionsShape, SessionsBooks
<1>. QED  BY <1>1, <1>2, PTL

\* Every fill has moved its cash, once, and nothing else has: a crash between a fill and its
\* entry leaves neither; and cash is never negative, though requests are granted cash that
\* the pass is spending.
THEOREM LedgerAddsUp ==
  ASSUME OneMatcher
  PROVE  Spec => []LedgerSettlesFills
<1>1. Books => LedgerSettlesFills
  BY DEF Books, Settled, Trades, EntriesMatch, LedgerSettlesFills
<1>2. Spec => []Books
  BY SessionsBooks
<1>. QED  BY <1>1, <1>2, PTL

\* A position is what its lots add up to and what was held plus bought less sold, and at most
\* one is open, though lots and position are written in steps apart.
THEOREM LotsAddUp ==
  ASSUME OneMatcher
  PROVE  Spec => []PositionsMatchLots
<1>1. Shape /\ Books => PositionsMatchLots
  <2>. SUFFICES ASSUME Shape, Books PROVE PositionsMatchLots
    OBVIOUS
  <2>1. /\ RowsApart(db) /\ RowsSum(db, 0, 0) /\ OpenQty(db) + 0 = Held + Capital - Cash(db)
    BY DEF Books, Settled, Trades
  <2>2. OpenQty(db) \in Nat /\ \A r : LotsOpen(db, r) \in Nat
    BY BooksAreNumbers DEF Shape
  <2>3. \A r \in DOMAIN db.row : db.row[r] = LotsOpen(db, r)
    BY <2>1, <2>2 DEF RowsSum
  <2>. QED  BY <2>1, <2>2, <2>3 DEF PositionsMatchLots, RowsApart
<1>2. Spec => []Shape /\ []Books
  BY SessionsShape, SessionsBooks
<1>. QED  BY <1>1, <1>2, PTL

\* A pass that has inserted a fill can pay for it, or has the lots to deliver: the ledger and
\* consume_fifo never refuse it, however much requests were promised meanwhile.
THEOREM PassesSettle ==
  ASSUME OneMatcher
  PROVE  Spec => []PassesNeverRaise
<1>1. Shape /\ Books => PassesNeverRaise
  <2>. SUFFICES ASSUME Shape, Books, NEW m \in Matchers, pc[m] = "settle"
                PROVE  IF Ask[Turn(m)].side = "BUY" THEN Cash(View(m)) >= mem[m].qty
                       ELSE LotsOpen(View(m), OpenRow(View(m))) >= mem[m].qty
    BY DEF PassesNeverRaise
  <2>. DEFINE v == View(m)
  <2>1. First(mem[m].todo) = Turn(m) /\ mem[m].qty \in Nat /\ TablesTyped(v)
    BY TurnIsCommitted, MatcherIs, ViewTyped DEF Filling, MatcherOK
  <2>2. TradesAt(v, "settle", mem[m])
    BY DEF Books, Pass, PassOK
  <2>3. /\ mem[m].qty > 0 /\ RowsSum(v, 0, 0)
        /\ Ask[Turn(m)].side = "BUY" => mem[m].qty <= Cash(v)
        /\ Ask[Turn(m)].side # "BUY" => mem[m].qty <= OpenQty(v)
    BY <2>1, <2>2 DEF TradesAt, Trades
  <2>4. /\ Cash(v) \in Int /\ OpenQty(v) \in Nat /\ \A r : LotsOpen(v, r) \in Nat
        /\ OpenRow(v) # 0 => OpenRow(v) \in DOMAIN v.row /\ OpenQty(v) = v.row[OpenRow(v)]
    BY <2>1, BooksAreNumbers
  <2>. HIDE DEF v
  <2>5. CASE Ask[Turn(m)].side = "BUY"
    BY <2>1, <2>3, <2>4, <2>5 DEF v
  <2>6. CASE Ask[Turn(m)].side # "BUY"
    <3>1. OpenRow(v) # 0
      BY <2>1, <2>3, <2>6 DEF OpenQty
    <3>2. OpenQty(v) = LotsOpen(v, OpenRow(v))
      BY <2>3, <2>4, <3>1 DEF RowsSum
    <3>. QED  BY <2>1, <2>3, <2>4, <2>6, <3>2 DEF v
  <2>. QED  BY <2>5, <2>6
<1>2. Spec => []Shape /\ []Books
  BY SessionsShape, SessionsBooks
<1>. QED  BY <1>1, <1>2, PTL

===============================================================================
