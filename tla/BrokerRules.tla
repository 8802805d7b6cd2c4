----------------------------- MODULE BrokerRules -----------------------------
(***************************************************************************)
(* The rules of the simulated broker, as operators on one portfolio's      *)
(* books: what an order may ask, what a quote does to it, what a fill      *)
(* costs, and how cash, orders and lots change together.                   *)
(*                                                                         *)
(* The books of a portfolio are a record                                   *)
(*   cash     the sum of the ledger's entries (Ledger.balance)             *)
(*   orders   the order rows; an order's id is its place in the sequence   *)
(*   holding  per instrument: its lots, oldest first, one element per unit *)
(*            still open and that unit's cost (so FIFO is order in the     *)
(*            sequence and the projected quantity is its length); the      *)
(*            realized profit, fees paid and buy-side lot fees of all its  *)
(*            position rows; and what its BUY, SELL and FEE entries sum to *)
(*                                                                         *)
(* Cash, prices and quantities are counted in their smallest units, so the *)
(* products below need no rounding of their own.  0 is "no price", as it   *)
(* is to the code's `or`; None is a missing expiry.                        *)
(***************************************************************************)
EXTENDS Integers, Sequences, FiniteSets

CONSTANTS
  Instruments,      \* the tradable instruments
  RoundTheClock,    \* those whose market never closes (crypto)
  Scale,            \* what "basis points" divide by: 10_000 in the code
  SlippageBps, CommissionBps, MinCommission,  \* the portfolio's cost columns
  ImpactBps, Depth, \* market impact: ImpactBps once a notional exceeds Depth
  Lot,              \* smallest quantity units in one whole share
  AllowFractional   \* the portfolio's allow_fractional column

ASSUME RulesAssumption ==
  /\ RoundTheClock \subseteq Instruments
  /\ Scale \in Nat \ {0} /\ Lot \in Nat \ {0}
  /\ SlippageBps \in Nat /\ CommissionBps \in Nat /\ MinCommission \in Nat
  /\ ImpactBps \in Nat /\ Depth \in Nat
  /\ AllowFractional \in BOOLEAN

None == 0 - 1

OpenStatuses == {"ACCEPTED", "PARTIALLY_FILLED"}
Statuses == OpenStatuses \cup {"FILLED", "CANCELED", "EXPIRED", "REJECTED"}
Limited == {"LIMIT", "STOP_LIMIT"}
Stopped == {"STOP", "STOP_LIMIT"}

OrderRow ==
  [inst : Instruments, side : {"BUY", "SELL"}, type : {"MARKET"} \cup Limited \cup Stopped,
   tif : {"DAY", "GTC", "IOC"}, client : Nat, qty : Nat \ {0}, limit : Nat, stop : Nat,
   status : Statuses, filled : Nat, value : Nat, reserved : Nat, armed : BOOLEAN,
   expires : Int]

Holding ==
  [lots : Seq(Nat), realized : Int, fees : Nat, lotFees : Nat, traded : Int]

Books ==
  [cash : Nat, orders : Seq(OrderRow), holding : [Instruments -> Holding]]

EmptyBooks(capital) ==
  [cash |-> capital, orders |-> << >>,
   holding |-> [i \in Instruments |->
                  [lots |-> << >>, realized |-> 0, fees |-> 0, lotFees |-> 0, traded |-> 0]]]

Larger(a, b) == IF a >= b THEN a ELSE b
Smaller(a, b) == IF a <= b THEN a ELSE b

-----------------------------------------------------------------------------
(* Costs. *)

\* Round half up to a whole unit of a value given in 1/Scale units.
Quantize(n) == (2 * n + Scale) \div (2 * Scale)

Commission(notional) ==
  IF notional = 0 THEN 0 ELSE Larger(Quantize(notional * CommissionBps), MinCommission)

BuyCost(qty, price) == qty * price + Commission(qty * price)

\* Participation in the instrument's volume, as a step instead of a root.
Impact(qty, reference) == IF qty * reference > Depth THEN ImpactBps ELSE 0

FillPrice(reference, side, qty) ==
  LET drift == SlippageBps + Impact(qty, reference)
  IN  Larger(1, Quantize(reference * (IF side = "BUY" THEN Scale + drift ELSE Scale - drift)))

\* Fault: the commission is left out of what is held back.
Reservation_Bare(qty, reference) == qty * FillPrice(reference, "BUY", 0)

\* Taken before the size of the fill is known: no participation, no impact.
Reservation(qty, reference) == BuyCost(qty, FillPrice(reference, "BUY", 0))

WholeUnits(qty) == IF AllowFractional THEN qty ELSE qty - (qty % Lot)

-----------------------------------------------------------------------------
(* The trading calendar: even instants lie in a session, odd ones between  *)
(* the close of one session and the open of the next.                      *)

IsOpen(i, t) == i \in RoundTheClock \/ t % 2 = 0
SessionClose(t) == IF t % 2 = 0 THEN t + 1 ELSE t + 2

Expiry(tif, t) == CASE tif = "GTC" -> None
                    [] tif = "IOC" -> t
                    [] OTHER       -> SessionClose(t)

IsExpired(r, t) == r.tif # "GTC" /\ r.expires # None /\ t >= r.expires

-----------------------------------------------------------------------------
(* What the books already promise. *)

IsOpenOrder(r) == r.status \in OpenStatuses
Working(d, i) == {o \in DOMAIN d.orders : IsOpenOrder(d.orders[o]) /\ d.orders[o].inst = i}

\* One element per unit of quantity the open sells of i have yet to deliver.
Committed(d, i) ==
  UNION {{o} \X (d.orders[o].filled + 1 .. d.orders[o].qty) :
           o \in {p \in Working(d, i) : d.orders[p].side = "SELL"}}

\* One element per unit of cash the open orders hold back.
ReservedCash(d) ==
  UNION {{o} \X (1 .. d.orders[o].reserved) :
           o \in {p \in DOMAIN d.orders : IsOpenOrder(d.orders[p])}}

Held(d, i) == Len(d.holding[i].lots)

\* Fault: resting sells claim nothing, as before _sellable_qty.
Sellable_Held(d, i) == Held(d, i)

Sellable(d, i) == Larger(0, Held(d, i) - Cardinality(Committed(d, i)))

\* Fault: open orders hold nothing back.
BuyingPower_Cash(d) == d.cash

BuyingPower(d) == d.cash - Cardinality(ReservedCash(d))

\* What the units in ls cost: one element per unit of cash.
Cost(ls) == Cardinality(UNION {{u} \X (1 .. ls[u]) : u \in DOMAIN ls})

-----------------------------------------------------------------------------
(* Placing an order. *)

ValidRequest(r) ==
  /\ WholeUnits(r.qty) > 0
  /\ r.type \in Limited => r.limit > 0
  /\ r.type \in Stopped => r.stop > 0
  /\ r.type = "MARKET" => r.limit = 0 /\ r.stop = 0

\* `limit_price or reference_price`
PricedAt(r) == IF r.limit > 0 THEN r.limit ELSE r.ref

Rejects(d, r, active, t) ==
  \/ ~active
  \/ r.tif = "IOC" /\ ~IsOpen(r.inst, t)
  \/ r.side = "SELL" /\ WholeUnits(r.qty) > Sellable(d, r.inst)
  \/ /\ r.side = "BUY" /\ PricedAt(r) > 0
     /\ Reservation(WholeUnits(r.qty), PricedAt(r)) > BuyingPower(d)

NewOrder(r, t) ==
  [inst |-> r.inst, side |-> r.side, type |-> r.type, tif |-> r.tif, client |-> r.client,
   qty |-> WholeUnits(r.qty), limit |-> r.limit, stop |-> r.stop, status |-> "ACCEPTED",
   filled |-> 0, value |-> 0, armed |-> FALSE, expires |-> Expiry(r.tif, t),
   reserved |-> IF r.side = "BUY" /\ PricedAt(r) > 0
                THEN Reservation(WholeUnits(r.qty), PricedAt(r)) ELSE 0]

Refused(row) == [row EXCEPT !.status = "REJECTED", !.reserved = 0]

\* Fault: only an order still open answers for its client id.
IsDuplicate_Open(d, r) ==
  r.client # 0 /\ \E o \in DOMAIN d.orders :
    d.orders[o].client = r.client /\ IsOpenOrder(d.orders[o])

\* A client id that is already on an order returns that order: no new row.
IsDuplicate(d, r) == r.client # 0 /\ \E o \in DOMAIN d.orders : d.orders[o].client = r.client

Placed(d, r, active, t) ==
  IF IsDuplicate(d, r) THEN d
  ELSE LET row == NewOrder(r, t)
       IN  [d EXCEPT !.orders = Append(@, IF Rejects(d, r, active, t) THEN Refused(row) ELSE row)]

\* Fault: a closed order goes on reserving.
Closed_Reserving(d, o, status) == [d EXCEPT !.orders[o].status = status]

Closed(d, o, status) ==
  [d EXCEPT !.orders[o].status = status, !.orders[o].reserved = 0]

-----------------------------------------------------------------------------
(* What a quote does to an order. *)

SidePrice(r, q) ==
  LET book == IF r.side = "BUY" THEN q.ask ELSE q.bid
  IN  IF book > 0 THEN book ELSE q.price

StopTriggered(r, q) ==
  r.stop > 0 /\ IF r.side = "BUY" THEN q.price >= r.stop ELSE q.price <= r.stop

\* The row with its stop elected if this quote elects it.
Elected(r, q) == [r EXCEPT !.armed = @ \/ (r.type \in Stopped /\ StopTriggered(r, q))]

\* Fault: the limit is worked whether or not the stop was elected.
Reference_Unelected(r, q) ==
  LET price == SidePrice(r, q)
      beyond == r.type \in Limited /\ (IF r.side = "BUY" THEN price > r.limit ELSE price < r.limit)
  IN  IF q.price <= 0 \/ beyond THEN 0 ELSE price

\* The reference price at which q fills r, 0 if it does not.
Reference(r, q) ==
  LET price == SidePrice(r, q)
      waiting == r.type \in Stopped /\ ~r.armed
      beyond == r.type \in Limited /\ (IF r.side = "BUY" THEN price > r.limit ELSE price < r.limit)
  IN  IF q.price <= 0 \/ waiting \/ beyond THEN 0 ELSE price

\* Fault: priced without the impact the execution will add.
Affordable_NoImpact(d, qty, reference) ==
  LET price == FillPrice(reference, "BUY", 0)
      fits == {a \in 0 .. d.cash \div price : WholeUnits(a) = a /\ BuyCost(a, price) <= d.cash}
  IN  IF BuyCost(qty, price) <= d.cash THEN {qty}
      ELSE {a \in fits : \A b \in fits : b <= a}

\* Fault: shrunk to what cash covers, whole shares or not.
Affordable_Odd(d, qty, reference) ==
  LET price == FillPrice(reference, "BUY", qty)
      fits == {a \in 0 .. d.cash \div price : BuyCost(a, price) <= d.cash}
  IN  IF BuyCost(qty, price) <= d.cash THEN {qty}
      ELSE {a \in fits : \A b \in fits : b <= a}

\* The quantities a buy of qty may shrink to: the largest cash covers.
Affordable(d, qty, reference) ==
  LET price == FillPrice(reference, "BUY", qty)
      fits == {a \in 0 .. d.cash \div price : WholeUnits(a) = a /\ BuyCost(a, price) <= d.cash}
  IN  IF BuyCost(qty, price) <= d.cash THEN {qty}
      ELSE {a \in fits : \A b \in fits : b <= a}

\* What of r this tick executes at that reference (no size is quoted).
Executable(d, r, reference) ==
  LET qty == WholeUnits(r.qty - r.filled)
  IN  IF r.side = "BUY" THEN Affordable(d, qty, reference)
      ELSE {Smaller(qty, Held(d, r.inst))}

\* The ledger refuses to go below zero, a fill to exceed its order.
FillRaises(d, r, qty, reference) ==
  LET notional == qty * FillPrice(reference, r.side, qty)
      fee == Commission(notional)
  IN  \/ qty > r.qty - r.filled
      \/ IF r.side = "BUY" THEN d.cash < notional + fee ELSE d.cash + notional < fee

FilledRow(r, qty, price, fee) ==
  LET done == r.filled + qty >= r.qty
  IN  [r EXCEPT !.filled = @ + qty, !.value = @ + qty * price,
                !.status = IF done THEN "FILLED" ELSE "PARTIALLY_FILLED",
                !.reserved = IF done THEN 0 ELSE Larger(0, @ - (qty * price + fee))]

Bought(h, qty, price, fee) ==
  [h EXCEPT !.lots = @ \o [u \in 1 .. qty |-> price],
            !.fees = @ + fee, !.lotFees = @ + fee, !.traded = @ - qty * price - fee]

\* Fault: the newest units leave, the oldest are costed.
Sold_Newest(h, qty, price, fee) ==
  [h EXCEPT !.lots = SubSeq(@, 1, Len(@) - qty),
            !.realized = @ + qty * price - Cost(SubSeq(h.lots, 1, qty)) - fee,
            !.fees = @ + fee, !.traded = @ + qty * price - fee]

Sold(h, qty, price, fee) ==
  [h EXCEPT !.lots = SubSeq(@, qty + 1, Len(@)),
            !.realized = @ + qty * price - Cost(SubSeq(h.lots, 1, qty)) - fee,
            !.fees = @ + fee, !.traded = @ + qty * price - fee]

Executed(d, o, qty, reference) ==
  LET r == d.orders[o]
      price == FillPrice(reference, r.side, qty)
      fee == Commission(qty * price)
      buy == r.side = "BUY"
  IN  [cash |-> IF buy THEN d.cash - qty * price - fee ELSE d.cash + qty * price - fee,
       orders |-> [d.orders EXCEPT ![o] = FilledRow(r, qty, price, fee)],
       holding |-> [d.holding EXCEPT ![r.inst] =
                      IF buy THEN Bought(@, qty, price, fee) ELSE Sold(@, qty, price, fee)]]

-----------------------------------------------------------------------------
(* Recording a position held elsewhere: an order born filled, without fee. *)

SeedRow(s) ==
  [inst |-> s.inst, side |-> "BUY", type |-> "MARKET", tif |-> "DAY", client |-> 0,
   qty |-> s.qty, limit |-> 0, stop |-> 0, status |-> "FILLED", filled |-> s.qty,
   value |-> s.qty * s.basis, reserved |-> 0, armed |-> FALSE, expires |-> None]

\* Only a seeded order has neither an expiry nor the GTC that explains its absence.
IsSeed(r) == r.expires = None /\ r.tif # "GTC"

\* Fault: nobody looks at the cash.
CanSeed_Unfunded(d, s) == s.qty > 0 /\ s.basis > 0

CanSeed(d, s) == s.qty > 0 /\ s.basis > 0 /\ s.qty * s.basis <= d.cash

Seeded(d, s) ==
  [cash |-> d.cash - s.qty * s.basis,
   orders |-> Append(d.orders, SeedRow(s)),
   holding |-> [d.holding EXCEPT ![s.inst] = Bought(@, s.qty, s.basis, 0)]]

=============================================================================
