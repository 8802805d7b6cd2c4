-------------------------------- MODULE Broker --------------------------------
(***************************************************************************)
(* BrokerService over one portfolio.  Every call runs in a database        *)
(* session that commits when it returns and rolls back when it raises.     *)
(* All calls but on_quote are one step here; on_quote is taken order by    *)
(* order, db being what its session sees and saved what is committed, so   *)
(* that what one order's fill does to the next one is visible, and so is   *)
(* what an exception throws away.  Sessions run one after the other in     *)
(* this module; Sessions.tla is about the ones that overlap.               *)
(***************************************************************************)
EXTENDS BrokerRules

CONSTANTS
  InitialCapital,   \* the deposit create_portfolio posts
  Requests,         \* what place_order may be asked
  Seeds,            \* what seed_holding may be asked
  Quotes,           \* what on_quote may be given
  MaxOrders,        \* bound: order rows
  MaxTime           \* bound: instants of the calendar

ASSUME BrokerAssumption ==
  /\ InitialCapital \in Nat \ {0}
  /\ \A r \in Requests :
       /\ r.inst \in Instruments /\ r.side \in {"BUY", "SELL"}
       /\ r.type \in {"MARKET"} \cup Limited \cup Stopped /\ r.tif \in {"DAY", "GTC", "IOC"}
       /\ r.qty \in Nat /\ r.limit \in Nat /\ r.stop \in Nat /\ r.ref \in Nat /\ r.client \in Nat
  /\ \A s \in Seeds : s.inst \in Instruments /\ s.qty \in Nat /\ s.basis \in Nat
  /\ Quotes # {} /\ Instruments # {}
  /\ \A q \in Quotes : q.price \in Nat /\ q.bid \in Nat /\ q.ask \in Nat
  /\ MaxOrders \in Nat /\ MaxTime \in Nat

VARIABLES
  now,      \* the clock
  active,   \* portfolio.is_active
  db,       \* the books as the running session sees them
  saved,    \* the books as committed; equal to db when no session runs
  pass      \* on_quote in progress: its instrument, quote and orders to visit

vars == <<now, active, db, saved, pass>>

Idle == [busy |-> FALSE, inst |-> CHOOSE i \in Instruments : TRUE,
         quote |-> CHOOSE q \in Quotes : TRUE, todo |-> {}]

Init ==
  /\ now = 0
  /\ active = TRUE
  /\ db = EmptyBooks(InitialCapital)
  /\ saved = db
  /\ pass = Idle

\* A call that succeeds in a session of its own.
Commit(books) == db' = books /\ saved' = books

-----------------------------------------------------------------------------

Tick ==
  /\ ~pass.busy /\ now < MaxTime
  /\ now' = now + 1
  /\ UNCHANGED <<active, db, saved, pass>>

PauseOrResume ==
  /\ ~pass.busy
  /\ active' = ~active
  /\ UNCHANGED <<now, db, saved, pass>>

PlaceOrder(r) ==
  /\ ~pass.busy /\ Len(db.orders) < MaxOrders
  /\ ValidRequest(r)
  /\ Commit(Placed(db, r, active, now))
  /\ UNCHANGED <<now, active, pass>>

\* Fault: an order is canceled whatever became of it meanwhile.
CancelOrder_Any(o) ==
  /\ ~pass.busy
  /\ Commit(Closed(db, o, "CANCELED"))
  /\ UNCHANGED <<now, active, pass>>

CancelOrder(o) ==
  /\ ~pass.busy
  /\ IsOpenOrder(db.orders[o])
  /\ Commit(Closed(db, o, "CANCELED"))
  /\ UNCHANGED <<now, active, pass>>

SeedHolding(s) ==
  /\ ~pass.busy /\ Len(db.orders) < MaxOrders
  /\ CanSeed(db, s)
  /\ Commit(Seeded(db, s))
  /\ UNCHANGED <<now, active, pass>>

-----------------------------------------------------------------------------
(* The matching pass: a paused portfolio's orders are left alone, and those *)
(* of a market that is closed.  on_quote then reads the open orders of the *)
(* instrument once and visits them in the order of their ids.              *)

BeginPass(i, q) ==
  /\ ~pass.busy /\ Working(db, i) # {}
  /\ active /\ IsOpen(i, now)
  /\ pass' = [busy |-> TRUE, inst |-> i, quote |-> q, todo |-> Working(db, i)]
  /\ UNCHANGED <<now, active, db, saved>>

\* The pass turns to o, the lowest id it has not visited.
Turn(o) == pass.busy /\ o \in pass.todo /\ \A p \in pass.todo : o <= p

Row(o) == Elected(db.orders[o], pass.quote)
Kept(o) == [db EXCEPT !.orders[o] = Row(o)]
Price(o) == Reference(Row(o), pass.quote)
Triggers(o) == Turn(o) /\ ~IsExpired(db.orders[o], now) /\ Price(o) > 0

Leaving(o, books) ==
  /\ db' = books
  /\ pass' = [pass EXCEPT !.todo = @ \ {o}]
  /\ UNCHANGED <<now, active, saved>>

\* Fault: an expired order is passed over and left open.
ExpireOrder_Skips(o) ==
  /\ Turn(o) /\ IsExpired(db.orders[o], now)
  /\ Leaving(o, db)

ExpireOrder(o) ==
  /\ Turn(o) /\ IsExpired(db.orders[o], now)
  /\ Leaving(o, Closed(db, o, "EXPIRED"))

\* The quote does not fill the order: an IOC order is done, others rest.
RestOrder(o) ==
  /\ Turn(o) /\ ~IsExpired(db.orders[o], now) /\ Price(o) = 0
  /\ Leaving(o, IF Row(o).tif = "IOC" THEN Closed(Kept(o), o, "EXPIRED") ELSE Kept(o))

\* It would fill, but there is nothing left to buy or sell with.
StarveOrder(o) ==
  /\ Triggers(o) /\ 0 \in Executable(db, Row(o), Price(o))
  /\ Leaving(o, Closed(Kept(o), o, "EXPIRED"))

FillOrder(o) ==
  /\ Triggers(o)
  /\ \E qty \in Executable(db, Row(o), Price(o)) \ {0} :
       /\ ~FillRaises(db, Row(o), qty, Price(o))
       /\ Leaving(o, Executed(Kept(o), o, qty, Price(o)))

\* A fill that raises takes the whole session with it.
Raises(o) ==
  /\ Triggers(o)
  /\ \E qty \in Executable(db, Row(o), Price(o)) \ {0} : FillRaises(db, Row(o), qty, Price(o))

AbortPass(o) ==
  /\ Raises(o)
  /\ db' = saved
  /\ pass' = Idle
  /\ UNCHANGED <<now, active, saved>>

EndPass ==
  /\ pass.busy /\ pass.todo = {}
  /\ Commit(db)
  /\ pass' = Idle
  /\ UNCHANGED <<now, active>>

PassStep ==
  \/ \E o \in pass.todo :
       ExpireOrder(o) \/ RestOrder(o) \/ StarveOrder(o) \/ FillOrder(o) \/ AbortPass(o)
  \/ EndPass

Next ==
  \/ Tick
  \/ PauseOrResume
  \/ \E r \in Requests : PlaceOrder(r)
  \/ \E o \in DOMAIN db.orders : CancelOrder(o)
  \/ \E s \in Seeds : SeedHolding(s)
  \/ \E i \in Instruments, q \in Quotes : BeginPass(i, q)
  \/ PassStep

Spec == Init /\ [][Next]_vars

\* Time goes on.  The match job runs every few minutes while the portfolio is active
\* and the market open (SF: pauses, closes and other calls may come between); a
\* session, once begun, runs to its end.
FairSpec ==
  /\ Spec
  /\ WF_vars(PassStep)
  /\ SF_vars(Tick)
  /\ \A i \in Instruments : SF_vars(\E q \in Quotes : BeginPass(i, q))

-----------------------------------------------------------------------------
(* Properties. *)

Passes == [busy : BOOLEAN, inst : Instruments, quote : Quotes, todo : SUBSET (1 .. MaxOrders)]

\* Types, and the ids a pass still has to visit are rows of its own instrument.
TypeOK ==
  /\ now \in 0 .. MaxTime /\ active \in BOOLEAN
  /\ db \in Books /\ saved \in Books
  /\ pass \in Passes
  /\ pass.todo \subseteq DOMAIN db.orders /\ Len(db.orders) <= MaxOrders

RowReconciles(r) ==
  /\ r.filled <= r.qty
  /\ r.status = "FILLED" <=> r.filled = r.qty
  /\ r.status = "PARTIALLY_FILLED" => r.filled > 0
  /\ r.status \in {"ACCEPTED", "REJECTED"} => r.filled = 0
  /\ ~IsOpenOrder(r) => r.reserved = 0

RowsReconcile(d) == \A o \in DOMAIN d.orders : RowReconciles(d.orders[o])

\* What reconcile.py asserts of every order row: never filled past its quantity,
\* FILLED exactly when all of it is done, nothing reserved once it is closed.
OrdersReconcile == RowsReconcile(db) /\ RowsReconcile(saved)

\* Open sells of an instrument never ask for more than the portfolio holds of it
\* (_sellable_qty), at any point of any pass: so no sell ever finds its position
\* gone, and a sell's clamp to the position never bites.
SellsCovered ==
  \A i \in Instruments : \A d \in {db, saved} : Cardinality(Committed(d, i)) <= Held(d, i)

\* Cash moved by an instrument's trades, plus what its open lots cost (price and
\* buy commission), is exactly the profit realized on it.
BooksBalance ==
  \A i \in Instruments : \A d \in {db, saved} :
    LET h == d.holding[i] IN h.traded + Cost(h.lots) + h.lotFees = h.realized

\* However far a quote is from the price an order was granted at, and whatever its
\* size does to its own price, settling a buy never raises (_affordable_qty).
BuysNeverRaise == \A o \in pass.todo : Raises(o) => db.orders[o].side = "SELL"

\* While every buy is limited, nothing is seeded, size has no impact and no sale costs
\* more than it brings in, the cash open orders hold back is there: what place_order
\* granted, on_quote can pay.
ReservationsCovered == BuyingPower(db) >= 0 /\ BuyingPower(saved) >= 0

\* ... and therefore no limited buy is cut short or starved by another one.
GrantedBuysFillWhole ==
  [][ \A o \in pass.todo \ pass'.todo :
        Triggers(o) /\ db.orders[o].side = "BUY" => db'.orders[o].status = "FILLED" ]_<<db, pass>>

\* A stop never trades before a quote has elected it, and stays elected: election
\* and execution are different events, possibly many ticks apart (matching.arms).
StopsElectedFirst ==
  [][ \A o \in DOMAIN saved.orders :
        LET a == saved.orders[o] b == saved'.orders[o]
        IN  /\ a.armed => b.armed
            /\ a.type \in Stopped /\ b.filled > a.filled => b.armed ]_saved

OneRowPerClient(d) ==
  \A o, p \in DOMAIN d.orders :
    d.orders[o].client # 0 /\ d.orders[o].client = d.orders[p].client => o = p

\* A retried placement finds the order its first attempt left: no client id is
\* ever on two orders, so a retried cycle does not trade twice.
RetriesAreOnce == OneRowPerClient(db) /\ OneRowPerClient(saved)

\* In a whole-unit portfolio placed orders fill in whole shares, even those that
\* sell a position with the odd fraction seed_holding brought in.
WholeSharesTrade ==
  ~AllowFractional =>
    \A o \in DOMAIN db.orders : ~IsSeed(db.orders[o]) => db.orders[o].filled % Lot = 0

\* The order book promises what OrderBook says, session by session.
Book == INSTANCE OrderBook WITH
  book <- [o \in DOMAIN saved.orders |->
             [status |-> saved.orders[o].status, qty |-> saved.orders[o].qty,
              filled |-> saved.orders[o].filled]]

KeepsTheOrderBook == Book!Spec

\* An order that has outlived its session is closed by a pass after the next open,
\* unless its portfolio is paused for good (BrokerService.on_quote, MatchingPass._match).
ExpiredOrdersClose ==
  []<>active => \A o \in 1 .. MaxOrders :
    (o <= Len(saved.orders) /\ IsOpenOrder(saved.orders[o]) /\ IsExpired(saved.orders[o], now))
      ~> (o <= Len(saved.orders) /\ ~IsOpenOrder(saved.orders[o]))

-----------------------------------------------------------------------------
(* What the repository says of itself and the code does not do. *)

\* test_broker_service.py: "an IOC order expires when it cannot fill".
IocExpiresOnlyIfItCannotFill ==
  [][ \A o \in pass.todo :
        /\ Turn(o) /\ db.orders[o].tif = "IOC" /\ Price(o) > 0
        /\ 0 \notin Executable(db, Row(o), Price(o))
        => db'.orders[o].status # "EXPIRED" ]_<<db, pass>>

\* _sellable_qty: a raise out of the matching pass rolls back the other orders' fills,
\* on this pass and every one after it; it must not happen for a sell either.
PassNeverRaises == \A o \in pass.todo : ~Raises(o)
=============================================================================
