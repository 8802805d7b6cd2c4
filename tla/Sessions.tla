------------------------------ MODULE Sessions ------------------------------
(***************************************************************************)
(* Database sessions that overlap over one portfolio and one instrument:   *)
(* matching passes, requests that place an order and requests that cancel  *)
(* one.  PostgreSQL runs them READ COMMITTED:                              *)
(*   - a query sees what is committed and the session's own writes;        *)
(*   - an UPDATE waits while another session has changed the row, and then *)
(*     writes the columns this session changed over what the other wrote;  *)
(*   - an INSERT of a key another session has inserted waits for it, and   *)
(*     raises IntegrityError once that key is committed;                   *)
(*   - an order row once loaded is not read again: the session goes on     *)
(*     with the values it saw (SQLAlchemy's identity map).                 *)
(* Prices are 1 and trades are free here; what orders cost, and when a     *)
(* quote fills them, is the business of BrokerRules and Broker.            *)
(***************************************************************************)
EXTENDS Integers, FiniteSets

CONSTANTS
  Orders,       \* the order ids, Nat: those there are and those requests place
  Ask,          \* what each asks: [side, qty, client]
  Placing,      \* the orders that requests place, each in a session of its own
  Matchers,     \* sessions of MatchingPass
  Cancellers,   \* sessions that cancel an order
  Capital,      \* cash at the beginning
  Held,         \* quantity held at the beginning
  MaxPasses     \* bound: passes each matcher makes

ASSUME SessionsAssumption ==
  /\ Orders \subseteq Nat /\ Placing \subseteq Orders
  /\ \A o \in Orders : Ask[o].side \in {"BUY", "SELL"} /\ Ask[o].qty \in Nat /\ Ask[o].client \in Nat
  /\ \A o, p \in Orders \ Placing : Ask[o].client = Ask[p].client => o = p \/ Ask[o].client = 0
  /\ Capital \in Nat /\ Held \in Nat /\ MaxPasses \in Nat

Sessions == Matchers \cup Placing \cup Cancellers

ASSUME SessionsAreApart ==
  /\ IsFiniteSet(Sessions)
  /\ Matchers \cap Placing = {} /\ Matchers \cap Cancellers = {} /\ Placing \cap Cancellers = {}

VARIABLES
  db,       \* what is committed: a table is a function from keys to values
  own,      \* per session, its uncommitted writes in the same tables
  pc,       \* per session, where it is
  mem,      \* per session, what it read and still relies on
  passes    \* per matcher, the passes begun

vars == <<db, own, pc, mem, passes>>

Tables == {"status", "filled", "reserved",  \* columns of an order, by order
           "fill", "entry",      \* quantity of a fill, amount of its ledger entry, by <<order, seq>>
           "lot", "row"}         \* open quantity by <<position, lot>>; quantity by position

Nothing == [t \in Tables |-> << >>]
Blank == [todo |-> {}, loaded |-> << >>, order |-> 0, qty |-> 0, seq |-> 0, row |-> 0, held |-> 0]

OpenStatuses == {"ACCEPTED", "PARTIALLY_FILLED"}
Terminal == {"FILLED", "CANCELED", "EXPIRED", "REJECTED"}

\* Fault: what is taken is not capped at what is there.
Minus_Uncapped(a, b) == a - b

Smaller(a, b) == IF a <= b THEN a ELSE b
Minus(a, b) == IF a >= b THEN a - b ELSE 0

\* A table with the rows of f over those of g, and with one more row.
Over(f, g) == [k \in DOMAIN f \cup DOMAIN g |-> IF k \in DOMAIN f THEN f[k] ELSE g[k]]
With(f, k, value) == [x \in {k} \cup DOMAIN f |-> IF x = k THEN value ELSE f[x]]

\* The sum of f over the keys in S, where f is positive: one element per unit.
Units(f, S) == UNION {{k} \X (1 .. f[k]) : k \in S}
Sum(f, S) == Cardinality(Units(f, S))

\* The keys of table t, committed or not; new ids are higher than those there are.
Keys(t) == DOMAIN db[t] \cup UNION {DOMAIN own[s][t] : s \in Sessions}
NextId(S) == 1 + (CHOOSE n \in {0} \cup S : \A k \in S : k <= n)

\* What session s sees, table by table: its own writes over what is committed.
View(s) == [t \in Tables |-> Over(own[s][t], db[t])]

OpenOrders(v) == {o \in DOMAIN v.status : v.status[o] \in OpenStatuses}
Fills(v, o) == {k \in DOMAIN v.fill : k[1] = o}
Paid(v) == [k \in DOMAIN v.entry |-> 0 - v.entry[k]]
Cash(v) == Capital + Sum(v.entry, DOMAIN v.entry) - Sum(Paid(v), DOMAIN v.entry)
Reserved(v) == Sum(v.reserved, OpenOrders(v))
Owed(v) == [o \in {p \in OpenOrders(v) : Ask[p].side = "SELL"} |-> Ask[o].qty - v.filled[o]]
Committed(v) == Sum(Owed(v), DOMAIN Owed(v))

\* A position row is CLOSED, for good, when its quantity has gone to 0; the OPEN one, or 0.
OpenRow(v) == IF \E r \in DOMAIN v.row : v.row[r] > 0
              THEN CHOOSE r \in DOMAIN v.row : v.row[r] > 0 ELSE 0
OpenQty(v) == IF OpenRow(v) = 0 THEN 0 ELSE v.row[OpenRow(v)]

Lots(v, r) == {l \in DOMAIN v.lot : l[1] = r}
LotsOpen(v, r) == Sum(v.lot, Lots(v, r))

Others(s) == Sessions \ {s}
Locked(t, k, s) == \E x \in Others(s) : k \in DOMAIN own[x][t]
OrderLocked(o, s) == \E t \in {"status", "filled", "reserved"} : Locked(t, o, s)

\* Only a column that differs from what was loaded is written.
Put(columns, o, new, old) == IF new = old THEN columns ELSE With(columns, o, new)

Init ==
  /\ db = [Nothing EXCEPT
             !.status = [o \in Orders \ Placing |-> "ACCEPTED"],
             !.filled = [o \in Orders \ Placing |-> 0],
             !.reserved = [o \in Orders \ Placing |-> IF Ask[o].side = "BUY" THEN Ask[o].qty ELSE 0],
             !.lot = IF Held > 0 THEN With(<< >>, <<1, 1>>, Held) ELSE << >>,
             !.row = IF Held > 0 THEN With(<< >>, 1, Held) ELSE << >>]
  /\ own = [s \in Sessions |-> Nothing]
  /\ pc = [s \in Sessions |-> IF s \in Matchers THEN "idle" ELSE "start"]
  /\ mem = [s \in Sessions |-> Blank]
  /\ passes = [m \in Matchers |-> 0]

-----------------------------------------------------------------------------
(* Sessions end: commit, rollback, or the process dies (which rolls back). *)

Rest(s) == IF s \in Matchers THEN "idle" ELSE "done"

\* Fault: the session is left open, its rows locked.
Close_Holding(s) ==
  /\ pc' = [pc EXCEPT ![s] = Rest(s)]
  /\ mem' = [mem EXCEPT ![s] = Blank]
  /\ UNCHANGED <<own, passes>>

Close(s) ==
  /\ own' = [own EXCEPT ![s] = Nothing]
  /\ pc' = [pc EXCEPT ![s] = Rest(s)]
  /\ mem' = [mem EXCEPT ![s] = Blank]
  /\ UNCHANGED passes

\* Fault: what was flushed before the exception stays.
Rollback_Flushed(s) == db' = View(s) /\ Close(s)

Rollback(s) == UNCHANGED db /\ Close(s)

Commit(s) ==
  /\ \/ pc[s] = "commit"
     \/ pc[s] = "turn" /\ mem[s].todo = {}
  /\ db' = View(s)
  /\ Close(s)

Crash(s) == pc[s] \notin {"idle", "start", "done"} /\ Rollback(s)

\* s goes on at `next`, remembering m.
Goes(s, next, m) ==
  /\ pc' = [pc EXCEPT ![s] = next]
  /\ mem' = [mem EXCEPT ![s] = m]
  /\ UNCHANGED <<db, passes>>

-----------------------------------------------------------------------------
(* A matching pass: on_quote over the orders that were open when it began. *)

BeginPass(m) ==
  /\ pc[m] = "idle" /\ passes[m] < MaxPasses /\ OpenOrders(db) # {}
  /\ passes' = [passes EXCEPT ![m] = @ + 1]
  /\ pc' = [pc EXCEPT ![m] = "turn"]
  /\ mem' = [mem EXCEPT ![m].todo = OpenOrders(db),
                        ![m].loaded = [o \in OpenOrders(db) |->
                          [status |-> db.status[o], filled |-> db.filled[o], reserved |-> db.reserved[o]]]]
  /\ UNCHANGED <<db, own>>

Turn(m) == CHOOSE o \in mem[m].todo : \A p \in mem[m].todo : o <= p
Left(m) == Ask[Turn(m)].qty - mem[m].loaded[Turn(m)].filled

\* The quote does not fill the order.
RestOrder(m) ==
  /\ pc[m] = "turn" /\ mem[m].todo # {}
  /\ Goes(m, "turn", [mem[m] EXCEPT !.todo = @ \ {Turn(m)}])
  /\ UNCHANGED own

\* Fault: what was granted is taken for available.
Executable_Granted(m) == Left(m)

\* A buy shrinks to the cash, a sell to the position, as they are now.
Executable(m) ==
  Minus(Smaller(Left(m), IF Ask[Turn(m)].side = "BUY" THEN Cash(View(m)) ELSE OpenQty(View(m))), 0)

SizeOrder(m) ==
  /\ pc[m] = "turn" /\ mem[m].todo # {}
  /\ Goes(m, IF Executable(m) > 0 THEN "number" ELSE "finish",
          [mem[m] EXCEPT !.qty = Executable(m)])
  /\ UNCHANGED own

NumberFill(m) ==
  /\ pc[m] = "number"
  /\ Goes(m, "insert", [mem[m] EXCEPT !.seq = Cardinality(Fills(View(m), Turn(m))) + 1])
  /\ UNCHANGED own

InsertFill(m) ==
  LET key == <<Turn(m), mem[m].seq>>
  IN  /\ pc[m] = "insert" /\ ~Locked("fill", key, m)
      /\ IF key \in DOMAIN db.fill THEN Rollback(m)
         ELSE /\ own' = [own EXCEPT ![m].fill = With(@, key, mem[m].qty)]
              /\ Goes(m, "settle", mem[m])

\* The ledger refuses to go below zero; the position is looked up after it is paid for.
SettleBuy(m) ==
  /\ pc[m] = "settle" /\ Ask[Turn(m)].side = "BUY"
  /\ IF Cash(View(m)) < mem[m].qty THEN Rollback(m)
     ELSE /\ own' = [own EXCEPT ![m].entry = With(@, <<Turn(m), mem[m].seq>>, 0 - mem[m].qty)]
          /\ Goes(m, "project", [mem[m] EXCEPT !.row = OpenRow(View(m))])

\* What a sale of mem.qty leaves of lot l: the oldest lots go first.
LeftOf(m, v, l) ==
  LET older == {k \in Lots(v, l[1]) : k[2] < l[2]}
  IN  Minus(v.lot[l], Minus(mem[m].qty, Sum(v.lot, older)))

\* consume_fifo refuses to take more than the lots hold; lots another session has
\* changed are waited for.
SettleSell(m) ==
  LET v == View(m)
      r == OpenRow(v)
      touched == {l \in Lots(v, r) : LeftOf(m, v, l) # v.lot[l]}
  IN  /\ pc[m] = "settle" /\ Ask[Turn(m)].side = "SELL"
      /\ IF r = 0 \/ LotsOpen(v, r) < mem[m].qty THEN Rollback(m)
         ELSE /\ \A l \in touched : ~Locked("lot", l, m)
              /\ own' = [own EXCEPT ![m].lot = Over([l \in touched |-> LeftOf(m, v, l)], @),
                                    ![m].entry = With(@, <<Turn(m), mem[m].seq>>, mem[m].qty)]
              /\ Goes(m, "project", [mem[m] EXCEPT !.row = r])

\* Fault: the sum is taken of the lots as committed.
LotsSeen_Committed(m, lots) == db.lot

\* The lots a session sums: those it wrote over those committed.
LotsSeen(m, lots) == Over(lots, db.lot)

\* A buy adds a lot, to the position it found open or to a new one; only one may be
\* open.  Then the position's quantity becomes the sum of its lots.
Project(m) ==
  LET new == mem[m].row = 0
      r == IF new THEN NextId(Keys("row")) ELSE mem[m].row
      n == NextId({l[2] : l \in Keys("lot")})
      lots == IF Ask[Turn(m)].side = "BUY" THEN With(own[m].lot, <<r, n>>, mem[m].qty)
                                           ELSE own[m].lot
      seen == [View(m) EXCEPT !.lot = LotsSeen(m, lots)]
  IN  /\ pc[m] = "project"
      /\ IF new THEN \A x \in Others(m) : DOMAIN own[x].row \subseteq DOMAIN db.row
                ELSE ~Locked("row", r, m)
      /\ IF new /\ OpenRow(View(m)) # 0 THEN Rollback(m)
         ELSE /\ own' = [own EXCEPT ![m].lot = lots, ![m].row = With(@, r, LotsOpen(seen, r))]
              /\ Goes(m, "finish", mem[m])

\* record_fill, or expiry when there was nothing to fill with, on the row as loaded.
FinishOrder(m) ==
  LET o == Turn(m)
      was == mem[m].loaded[o]
      filled == was.filled + mem[m].qty
      status == IF mem[m].qty = 0 THEN "EXPIRED"
                ELSE IF filled >= Ask[o].qty THEN "FILLED" ELSE "PARTIALLY_FILLED"
      reserved == IF status \in Terminal THEN 0 ELSE Minus(was.reserved, mem[m].qty)
  IN  /\ pc[m] = "finish" /\ ~OrderLocked(o, m)
      /\ own' = [own EXCEPT ![m].status = Put(@, o, status, was.status),
                            ![m].filled = Put(@, o, filled, was.filled),
                            ![m].reserved = Put(@, o, reserved, was.reserved)]
      /\ Goes(m, "turn", [mem[m] EXCEPT !.todo = @ \ {o}, !.qty = 0, !.seq = 0, !.row = 0])

MatcherStep(m) ==
  \/ RestOrder(m) \/ SizeOrder(m) \/ NumberFill(m) \/ InsertFill(m)
  \/ SettleBuy(m) \/ SettleSell(m) \/ Project(m) \/ FinishOrder(m)

-----------------------------------------------------------------------------
(* A request that places order p.                                          *)

SameClient(o, p) == Ask[o].client # 0 /\ Ask[o].client = Ask[p].client

\* An order already committed under the client id is the answer.
Deduplicate(p) ==
  /\ pc[p] = "start"
  /\ Goes(p, IF \E o \in DOMAIN db.status : SameClient(o, p) THEN "done" ELSE "insert", mem[p])
  /\ UNCHANGED own

\* Fault: client ids are not unique in the table.
Taken_Never(p) == FALSE

Taken(p) == \E o \in DOMAIN db.status : SameClient(o, p)

InsertOrder(p) ==
  /\ pc[p] = "insert"
  /\ \A x \in Others(p) : \A o \in DOMAIN own[x].status \ DOMAIN db.status : ~SameClient(o, p)
  /\ IF Taken(p) THEN Rollback(p)
     ELSE /\ own' = [own EXCEPT ![p].status = With(@, p, "NEW"), ![p].filled = With(@, p, 0),
                                ![p].reserved = With(@, p, 0)]
          /\ Goes(p, "read", mem[p])

\* Cash, or the position, is read first ...
ReadHeld(p) ==
  /\ pc[p] = "read"
  /\ Goes(p, "decide", [mem[p] EXCEPT !.held =
       IF Ask[p].side = "BUY" THEN Cash(View(p)) ELSE OpenQty(View(p))])
  /\ UNCHANGED own

\* ... and what open orders have claimed of it second, in a query of its own.
Decide(p) ==
  LET claimed == IF Ask[p].side = "BUY" THEN Reserved(View(p)) ELSE Committed(View(p))
      granted == Ask[p].qty + claimed <= mem[p].held
  IN  /\ pc[p] = "decide"
      /\ own' = [own EXCEPT
           ![p].status = With(@, p, IF granted THEN "ACCEPTED" ELSE "REJECTED"),
           ![p].reserved = With(@, p, IF granted /\ Ask[p].side = "BUY" THEN Ask[p].qty ELSE 0)]
      /\ Goes(p, "commit", mem[p])

PlacerStep(p) == Deduplicate(p) \/ InsertOrder(p) \/ ReadHeld(p) \/ Decide(p)

-----------------------------------------------------------------------------
(* A request that cancels an order.                                        *)

\* Only an open order can be canceled: otherwise ValidationError.
ReadOrder(c) ==
  /\ pc[c] = "start"
  /\ \E o \in DOMAIN db.status :
       Goes(c, IF db.status[o] \in OpenStatuses THEN "write" ELSE "done",
            [mem[c] EXCEPT !.order = o, !.loaded = With(<< >>, o,
               [status |-> db.status[o], filled |-> db.filled[o], reserved |-> db.reserved[o]])])
  /\ UNCHANGED own

\* Fault: the whole row is written back.
WriteCancel_WholeRow(c) ==
  LET o == mem[c].order
  IN  /\ pc[c] = "write" /\ ~OrderLocked(o, c)
      /\ own' = [own EXCEPT ![c].status = With(@, o, "CANCELED"), ![c].reserved = With(@, o, 0),
                            ![c].filled = With(@, o, mem[c].loaded[o].filled)]
      /\ Goes(c, "commit", mem[c])

WriteCancel(c) ==
  LET o == mem[c].order
  IN  /\ pc[c] = "write" /\ ~OrderLocked(o, c)
      /\ own' = [own EXCEPT ![c].status = With(@, o, "CANCELED"),
                            ![c].reserved = Put(@, o, 0, mem[c].loaded[o].reserved)]
      /\ Goes(c, "commit", mem[c])

-----------------------------------------------------------------------------

Step(s) ==
  \/ s \in Matchers /\ MatcherStep(s)
  \/ s \in Placing /\ PlacerStep(s)
  \/ s \in Cancellers /\ (ReadOrder(s) \/ WriteCancel(s))
  \/ Commit(s)

Next ==
  \/ \E m \in Matchers : BeginPass(m)
  \/ \E s \in Sessions : Step(s) \/ Crash(s)

Spec == Init /\ [][Next]_vars

\* The event loop and the database let every session that can go on go on.
FairSpec == Spec /\ \A s \in Sessions : WF_vars(Step(s))

-----------------------------------------------------------------------------
(* Properties of what is committed.                                        *)

\* Types; and what is on the books is never negative, nor is an order's NEW row committed.
TypeOK ==
  /\ DOMAIN db = Tables /\ DOMAIN db.status \subseteq Orders
  /\ \A o \in DOMAIN db.status : db.status[o] \in Terminal \cup OpenStatuses
  /\ DOMAIN db.filled = DOMAIN db.status /\ DOMAIN db.reserved = DOMAIN db.status
  /\ \A t \in Tables \ {"status", "entry"} : \A k \in DOMAIN db[t] : db[t][k] \in Nat
  /\ pc \in [Sessions -> {"idle", "turn", "number", "insert", "settle", "project", "finish",
                          "start", "read", "decide", "write", "commit", "done"}]

\* reconcile.py over the orders, and test_no_order_fills_beyond_its_quantity: what an order
\* says it filled is what its fills sum to, within what was asked, however a cancellation
\* and a pass that both loaded the row earlier write it back.  (reconcile.py also asks that
\* a closed order reserves nothing: a pass that fills an order in part, over a cancellation,
\* writes reserved but not the status it did not change; see TerminalIsFinal.)
OrdersMatchFills ==
  \A o \in DOMAIN db.status :
    /\ db.filled[o] = Sum(db.fill, Fills(db, o)) /\ db.filled[o] <= Ask[o].qty
    /\ db.status[o] = "FILLED" => db.filled[o] = Ask[o].qty

\* Every fill has moved its cash, once, and nothing else has; cash is never negative.
LedgerSettlesFills ==
  /\ DOMAIN db.entry = DOMAIN db.fill
  /\ \A k \in DOMAIN db.fill :
       db.entry[k] = IF Ask[k[1]].side = "BUY" THEN 0 - db.fill[k] ELSE db.fill[k]
  /\ Cash(db) >= 0

\* A position is what its lots add up to, and what was held plus bought less sold;
\* at most one is open.
PositionsMatchLots ==
  /\ \A r \in DOMAIN db.row : db.row[r] = LotsOpen(db, r)
  /\ \A q, r \in DOMAIN db.row : db.row[q] > 0 /\ db.row[r] > 0 => q = r
  /\ OpenQty(db) = Held + Capital - Cash(db)

\* Requests may be granted cash or shares that a pass is spending at that moment, so more
\* may be promised than there is: a pass sizes by what there is, and never raises.
PassesNeverRaise ==
  \A m \in Matchers : pc[m] = "settle" =>
    IF Ask[Turn(m)].side = "BUY" THEN Cash(View(m)) >= mem[m].qty
    ELSE LotsOpen(View(m), OpenRow(View(m))) >= mem[m].qty

\* Two attempts of one placement, the second sent before the first was answered, leave
\* one order.
RetriesAreOnce == \A o, p \in DOMAIN db.status : SameClient(o, p) => o = p

\* Sessions wait for each other's rows but never for ever: all end.
SessionsEnd ==
  \A s \in Sessions : pc[s] \notin {"idle", "done"} ~> pc[s] \in {"idle", "done"}

-----------------------------------------------------------------------------
(* What the repository says of itself and the code does not do.            *)

\* LEGAL_TRANSITIONS: nothing leads out of a terminal status.
TerminalIsFinal ==
  [][ \A o \in DOMAIN db.status :
        db.status[o] \in Terminal => db'.status[o] = db.status[o] ]_db

\* test_no_order_fills_beyond_its_quantity, when passes overlap too.
NoOrderOverfills ==
  \A o \in DOMAIN db.status : Sum(db.fill, Fills(db, o)) <= Ask[o].qty
=============================================================================
