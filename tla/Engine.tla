------------------------------- MODULE Engine -------------------------------
(***************************************************************************)
(* Decision cycles, protective stops and matching passes over portfolios   *)
(* that hold the same instruments: engine/runner.py, engine/cycle.py,      *)
(* engine/triggers.py, workers/matching.py and workers/scheduler.py.       *)
(*                                                                         *)
(* A cycle holds the locks of its portfolio over four steps that anything  *)
(* else may come between: it reads the state and decides (with minutes of  *)
(* model calls inside), it reads what is pending, it checks and flushes    *)
(* its orders, and it commits.  A pass that acts on stops places their     *)
(* orders, in any portfolio, and works and commits later.  Nobody sees     *)
(* what another session has not committed, so two of them may be granted   *)
(* the same shares.  What happens inside one fill is Broker's and          *)
(* Sessions' subject.                                                      *)
(*                                                                         *)
(* Quantities are in units of 1/Lot share.  Prices, stops and trailing     *)
(* levels are ranks 0 .. Top, 0 meaning "none": no stop, or no quote an    *)
(* order can be matched against (closed venue, stale or missing quote).    *)
(***************************************************************************)
EXTENDS Integers, Sequences, FiniteSets, SequencesExt

CONSTANTS
  Portfolios, Instruments,
  Whole,       \* the portfolios that trade whole shares only
  Managed,     \* the portfolios cycles run for
  Callers,     \* who asks for cycles: cron jobs and requests
  Matchers,    \* who runs passes: the scheduled job, POST /match, a cycle's end
  Process,     \* the server process each of them runs in
  Lot,         \* units in a share
  Top,         \* the highest rank of a price
  LadderPart,  \* a trim sells one part in LadderPart
  Seeded,      \* Seeded[p]: quantities a position of p may begin with, under a stop
  BuySizes,    \* what an entry may be sized to
  LimitSides,  \* the sides users place limit orders on
  MaxQty, MaxOrders   \* bounds of the model: units per position, open orders per portfolio

ASSUME EngineAssumption ==
  /\ Whole \subseteq Portfolios /\ Managed \subseteq Portfolios
  /\ Portfolios # {} /\ IsFiniteSet(Instruments)
  /\ LadderPart \in Nat \ {0} /\ Top \in Nat \ {0}
  /\ MaxQty \in Nat /\ MaxOrders \in Nat /\ Lot \in 1 .. MaxQty
  /\ Seeded \in [Portfolios -> SUBSET (0 .. MaxQty)] /\ BuySizes \subseteq 1 .. MaxQty
  /\ LimitSides \subseteq {"BUY", "SELL"} /\ DOMAIN Process = Callers \cup Matchers

VARIABLES
  active,    \* portfolios that are not paused
  quote,     \* quote[i]: the price orders of i can be matched at now, or 0
  book,      \* book[p]: the open positions and open orders of p, as committed
  held,      \* held[s]: portfolios whose asyncio lock process s holds
  advisory,  \* portfolios whose advisory lock some transaction holds
  turn,      \* turn[c]: the cycle caller c is in
  pass       \* pass[w]: the pass w has placed stop orders in

vars == <<active, quote, book, held, advisory, turn, pass>>

-----------------------------------------------------------------------------
(* Books. *)

Closed == [qty |-> 0, stop |-> 0, laddered |-> FALSE]
Positions == [qty : 0 .. MaxQty, stop : 0 .. Top, laddered : BOOLEAN]
Kinds == {"exit", "trim", "entry", "stop", "limit"}
Rows == [inst : Instruments, side : {"BUY", "SELL"}, qty : 1 .. MaxQty, kind : Kinds]

WholeUnits(p, qty) == IF p \in Whole THEN qty - (qty % Lot) ELSE qty

\* What the orders at the places in S ask for, one element per unit.
Total(rows, S) == Cardinality(UNION {{n} \X (1 .. rows[n].qty) : n \in S})

\* The places of the orders on instrument i, and what they ask for together.
On(rows, i, side) == {n \in DOMAIN rows : rows[n].inst = i /\ rows[n].side = side}
Asked(rows, i, side) == Total(rows, On(rows, i, side))

Pending(p) == {r.inst : r \in Range(book[p].orders)}

Sellable(p, i) == book[p].pos[i].qty - Asked(book[p].orders, i, "SELL")

Sell(i, qty, kind) == [inst |-> i, side |-> "SELL", qty |-> qty, kind |-> kind]
Buy(i, qty, kind) == [inst |-> i, side |-> "BUY", qty |-> qty, kind |-> kind]

\* Room the bound leaves for n more orders of p.
FitsOrders(p, n) == Len(book[p].orders) + n <= MaxOrders

-----------------------------------------------------------------------------
(* Cycles and their locks. *)

Plan(exit, stop, entry) == [exit |-> exit, stop |-> stop, entry |-> entry]
NoPlan == Plan([i \in Instruments |-> "none"], [i \in Instruments |-> 0], [i \in Instruments |-> 0])
Plans == [exit : [Instruments -> {"none", "full", "trim"}],
          stop : [Instruments -> 0 .. Top], entry : [Instruments -> {0} \cup BuySizes]]

\* What a cycle has flushed: orders, positions marked as trimmed, stops moved (0 for none), and
\* of which instruments the position it read was closed by others since.
Nothing == [rows |-> << >>, marked |-> {}, stops |-> [i \in Instruments |-> 0], gone |-> {}]
Placements == [rows : Seq(Rows), marked : SUBSET Instruments,
               stops : [Instruments -> 0 .. Top], gone : SUBSET Instruments]

Idle == [at |-> "idle", p |-> CHOOSE p \in Portfolios : TRUE, plan |-> NoPlan, pending |-> {},
         new |-> Nothing]
Turns == [at : {"idle", "reading", "deciding", "placing", "committing"}, p : Portfolios,
          plan : Plans, pending : SUBSET Instruments, new : Placements]
InCycle(c) == turn[c].at # "idle"

\* Fault: the advisory lock is left out, as on SQLite, with two processes.
Acquire_NoAdvisory(c, p) ==
  /\ turn[c].at = "idle"
  /\ p \notin held[Process[c]] /\ p \in active
  /\ turn' = [turn EXCEPT ![c] = [Idle EXCEPT !.at = "reading", !.p = p]]
  /\ held' = [held EXCEPT ![Process[c]] = @ \cup {p}]
  /\ advisory' = advisory \cup {p}
  /\ UNCHANGED <<active, quote, book, pass>>

\* run_due and POST /cycles.  The lock of this process is waited for, that of the database is
\* not: a cycle in another process, or a paused portfolio, ends the call with an error.
Acquire(c, p) ==
  /\ turn[c].at = "idle"
  /\ p \notin held[Process[c]] /\ p \notin advisory /\ p \in active
  /\ turn' = [turn EXCEPT ![c] = [Idle EXCEPT !.at = "reading", !.p = p]]
  /\ held' = [held EXCEPT ![Process[c]] = @ \cup {p}]
  /\ advisory' = advisory \cup {p}
  /\ UNCHANGED <<active, quote, book, pass>>

\* Fault: the stop follows the price down.
Decisions_Falling(pos) ==
  {d \in Plans : \A i \in Instruments :
     /\ d.exit[i] # "none" => pos[i].qty > 0
     /\ d.exit[i] = "trim" => ~pos[i].laddered
     /\ d.stop[i] > 0 => pos[i].qty > 0
     /\ d.entry[i] > 0 => d.exit[i] # "full"}

\* What `decide` may answer for positions pos: it exits and ratchets only what is held,
\* trims only once, raises stops only, and buys nothing it exits in full.
Decisions(pos) ==
  {d \in Plans : \A i \in Instruments :
     /\ d.exit[i] # "none" => pos[i].qty > 0
     /\ d.exit[i] = "trim" => ~pos[i].laddered
     /\ d.stop[i] > 0 => pos[i].qty > 0 /\ d.stop[i] > pos[i].stop
     /\ d.entry[i] > 0 => d.exit[i] # "full"}

\* _state and decide: the positions are read here and not again before orders are sized.
Decide(c) ==
  /\ turn[c].at = "reading"
  /\ \E d \in Decisions(book[turn[c].p].pos) :
       turn' = [turn EXCEPT ![c].plan = d, ![c].at = "deciding"]
  /\ UNCHANGED <<active, quote, book, held, advisory, pass>>

\* Fault: what is working is not looked up.
ReadPending_Nothing(c) ==
  /\ turn[c].at = "deciding"
  /\ turn' = [turn EXCEPT ![c].pending = {}, ![c].at = "placing"]
  /\ UNCHANGED <<active, quote, book, held, advisory, pass>>

\* The start of _execute: instruments with a working order are left alone.
ReadPending(c) ==
  /\ turn[c].at = "deciding"
  /\ turn' = [turn EXCEPT ![c].pending = Pending(turn[c].p), ![c].at = "placing"]
  /\ UNCHANGED <<active, quote, book, held, advisory, pass>>

Unlock(c) ==
  /\ held' = [held EXCEPT ![Process[c]] = @ \ {turn[c].p}]
  /\ advisory' = advisory \ {turn[c].p}

-----------------------------------------------------------------------------
(* Placing what was decided. *)

ExitQty(p, i, how) ==
  LET qty == book[p].pos[i].qty
  IN  WholeUnits(p, IF how = "full" THEN qty ELSE (qty + LadderPart - 1) \div LadderPart)

ExitRow(p, i, how) == Sell(i, ExitQty(p, i, how), IF how = "full" THEN "exit" ELSE "trim")

\* The orders of a cycle, in the order it places them; a rejected order opens nothing.
ExitRows(p, d, exits) ==
  SetToSeq({ExitRow(p, i, d.exit[i]) : i \in {j \in exits : ExitQty(p, j, d.exit[j]) <= Sellable(p, j)}})
EntryRows(p, d, granted) == SetToSeq({Buy(i, WholeUnits(p, d.entry[i]), "entry") : i \in granted})

\* _execute and what follows, up to the commit.  The portfolio row was loaded under the lock,
\* so that it was active then is all that counts.  An order that rounds to nothing raises:
\* run() records the failure and lets what came before it commit.
Execute(c) ==
  LET p == turn[c].p
      d == turn[c].plan
      pos == book[p].pos
      asked == {i \in Instruments : d.exit[i] # "none" /\ i \notin turn[c].pending /\ pos[i].qty > 0}
      badExit == {i \in asked : ExitQty(p, i, d.exit[i]) = 0}
      wanted == {i \in Instruments : d.entry[i] > 0 /\ i \notin turn[c].pending}
      badEntry == {i \in wanted : WholeUnits(p, d.entry[i]) = 0}
  IN  /\ turn[c].at = "placing"
      /\ \E exits \in SUBSET (asked \ badExit), entries \in SUBSET (wanted \ badEntry),
            granted \in SUBSET wanted :
           /\ badExit = {} => exits = asked
           /\ badExit # {} => entries = {}
           /\ badExit = {} /\ badEntry = {} => entries = wanted
           /\ granted \subseteq entries
           /\ FitsOrders(p, Cardinality(exits) + Cardinality(granted))
           /\ turn' = [turn EXCEPT ![c] = [Idle EXCEPT !.at = "committing", !.p = p, !.new =
                [rows |-> ExitRows(p, d, exits) \o EntryRows(p, d, granted),
                 marked |-> {i \in exits : d.exit[i] = "trim"},
                 stops |-> [i \in Instruments |-> IF badExit = {} /\ pos[i].qty > 0 THEN d.stop[i] ELSE 0],
                 gone |-> {}]]]
      /\ UNCHANGED <<active, quote, book, held, advisory, pass>>

\* Fault: a trimmed position is not marked.
Marked_Not(pos, new) ==
  [i \in Instruments |->
     [pos[i] EXCEPT !.stop = IF new.stops[i] > 0 /\ i \notin new.gone THEN new.stops[i] ELSE @]]

\* Trimmed positions are marked as such, whatever became of the order, and stops move: of the
\* rows the cycle read, not of those opened since.
Marked(pos, new) ==
  [i \in Instruments |->
     IF i \in new.gone THEN pos[i]
     ELSE [pos[i] EXCEPT !.laddered = @ \/ i \in new.marked,
                         !.stop = IF new.stops[i] > 0 THEN new.stops[i] ELSE @]]

Commit(c) ==
  LET p == turn[c].p
      new == turn[c].new
  IN  /\ turn[c].at = "committing"
      /\ FitsOrders(p, Len(new.rows))
      /\ book' = [book EXCEPT ![p] = [pos |-> Marked(@.pos, new), orders |-> @.orders \o new.rows]]
      /\ turn' = [turn EXCEPT ![c] = Idle]
      /\ Unlock(c)
      /\ UNCHANGED <<active, quote, pass>>

-----------------------------------------------------------------------------
(* Passes. *)

NoRows == [q \in Portfolios |-> << >>]
NoPass == [at |-> "idle", p |-> CHOOSE p \in Portfolios : TRUE, rows |-> NoRows]
Passes == [at : {"idle", "placed"}, p : Portfolios, rows : [Portfolios -> Seq(Rows)]]

\* The process dies: its transactions roll back, its locks are gone.
Crash(s) ==
  LET dead == {c \in Callers : Process[c] = s}
      lost == {w \in Matchers : Process[w] = s}
  IN  /\ (\E c \in dead : InCycle(c)) \/ \E w \in lost : pass[w].at = "placed"
      /\ turn' = [c \in Callers |-> IF c \in dead THEN Idle ELSE turn[c]]
      /\ pass' = [w \in Matchers |-> IF w \in lost THEN NoPass ELSE pass[w]]
      /\ held' = [held EXCEPT ![s] = {}]
      /\ advisory' = advisory \ {turn[c].p : c \in {x \in dead : InCycle(x)}}
      /\ UNCHANGED <<active, quote, book>>

\* Fault: a price at the stop has not reached it.
Breached_Below(q, i) ==
  LET pos == book[q].pos[i]
  IN  pos.qty > 0 /\ pos.stop > quote[i] /\ i \notin Pending(q)

Breached(q, i) ==
  LET pos == book[q].pos[i]
  IN  pos.qty > 0 /\ pos.stop > 0 /\ pos.stop >= quote[i] /\ i \notin Pending(q)

\* The stops a pass over p acts on: those of every portfolio, on the instruments where p has one.
Hits(p) ==
  {x \in Portfolios \X {i \in Instruments : quote[i] > 0 /\ book[p].pos[i].qty > 0 /\ book[p].pos[i].stop > 0} :
     Breached(x[1], x[2])}

\* Fault: a quantity that rounds to nothing is placed all the same.
Raises_Never(p) == FALSE

\* A quantity that rounds to nothing makes place_order raise out of the pass.
Raises(p) == \E x \in Hits(p) : WholeUnits(x[1], book[x[1]].pos[x[2]].qty) = 0

\* A paused holder's stop order is refused, and so is one larger than what is sellable.
StopRows(q, hits) ==
  SetToSeq({Sell(i, WholeUnits(q, book[q].pos[i].qty), "stop") :
              i \in {j \in Instruments : /\ <<q, j>> \in hits /\ q \in active
                                         /\ WholeUnits(q, book[q].pos[j].qty) <= Sellable(q, j)}})

\* The stops first: their orders are placed in the pass's own session.  A raise rolls it back.
Look(w, p) ==
  /\ pass[w].at = "idle" /\ p \in active
  /\ Hits(p) # {} /\ ~Raises(p)
  /\ pass' = [pass EXCEPT ![w] =
                 [at |-> "placed", p |-> p, rows |-> [q \in Portfolios |-> StopRows(q, Hits(p))]]]
  /\ UNCHANGED <<active, quote, book, held, advisory, turn>>

-----------------------------------------------------------------------------
(* on_quote, order by order: positions, orders still open, instruments whose *)
(* position was closed.                                                      *)

\* Fault: an order that finds nothing to sell goes on resting.
Left_Resting(r, sold) == IF sold < r.qty THEN <<[r EXCEPT !.qty = @ - sold]>> ELSE << >>

\* What is left open of a sell: nothing when it is done or found nothing to sell.
Left(r, sold) == IF 0 < sold /\ sold < r.qty THEN <<[r EXCEPT !.qty = @ - sold]>> ELSE << >>

\* A sell is cut to the position; the last unit closes it.
Sold(p, pos, r) == IF WholeUnits(p, r.qty) < pos.qty THEN WholeUnits(p, r.qty) ELSE pos.qty
Less(pos, sold) == IF sold < pos.qty THEN [pos EXCEPT !.qty = @ - sold] ELSE Closed

Stage(p, now, r, fate) ==
  LET sold == Sold(p, now.pos[r.inst], r)
  IN  CASE fate = "rest" -> [now EXCEPT !.orders = Append(@, r)]
        [] fate = "expire" -> now
        [] fate = "fill" /\ r.side = "BUY" -> [now EXCEPT !.pos[r.inst].qty = @ + r.qty]
        [] fate = "fill" /\ r.side = "SELL" ->
             [pos |-> [now.pos EXCEPT ![r.inst] = Less(@, sold)],
              orders |-> now.orders \o Left(r, sold),
              gone |-> IF sold = now.pos[r.inst].qty THEN now.gone \cup {r.inst} ELSE now.gone]

Stages(p, pos, orders, fate) ==
  LET now[n \in 0 .. Len(orders)] ==
        IF n = 0 THEN [pos |-> pos, orders |-> << >>, gone |-> {}]
        ELSE Stage(p, now[n - 1], orders[n], fate[n])
  IN  now

\* What may become of the orders: those of instruments without a quote rest, a stop order
\* placed in this very pass fills, a market order fills or has expired, a limit may rest.
Fates(p, orders) ==
  {fate \in [1 .. Len(orders) -> {"fill", "expire", "rest"}] : \A n \in DOMAIN fate :
     /\ quote[orders[n].inst] = 0 => fate[n] = "rest"
     /\ quote[orders[n].inst] > 0 /\ orders[n].kind # "limit" => fate[n] # "rest"
     /\ quote[orders[n].inst] > 0 /\ n > Len(book[p].orders) => fate[n] = "fill"}

\* A cycle that is about to commit holds rows of positions that are closed now.
Told(p, gone) ==
  [c \in Callers |-> IF turn[c].at = "committing" /\ turn[c].p = p
                     THEN [turn[c] EXCEPT !.new.gone = @ \cup gone] ELSE turn[c]]

\* p's open orders are worked, its own stop orders last, and everything is committed.
Works(p, own) ==
  LET orders == book[p].orders \o own[p]
  IN  \E fate \in Fates(p, orders) :
        LET done == Stages(p, book[p].pos, orders, fate)[Len(orders)]
        IN  /\ \A i \in Instruments : done.pos[i].qty <= MaxQty
            /\ book' = [q \in Portfolios |->
                           IF q = p THEN [pos |-> done.pos, orders |-> done.orders]
                           ELSE [book[q] EXCEPT !.orders = @ \o own[q]]]
            /\ turn' = Told(p, done.gone)

Work(w) ==
  /\ pass[w].at = "placed"
  /\ Works(pass[w].p, pass[w].rows)
  /\ pass' = [pass EXCEPT ![w] = NoPass]
  /\ UNCHANGED <<active, quote, held, advisory>>

\* A pass that finds no stop to act on places nothing: with nothing of its own to commit late,
\* it is one step.
Match(p) ==
  /\ p \in active /\ Hits(p) = {}
  /\ Works(p, NoRows)
  /\ UNCHANGED <<active, quote, held, advisory, pass>>

-----------------------------------------------------------------------------
(* The rest of the system. *)

NewQuote(i, price) ==
  /\ quote' = [quote EXCEPT ![i] = price]
  /\ UNCHANGED <<active, book, held, advisory, turn, pass>>

PauseOrResume(p) ==
  /\ active' = IF p \in active THEN active \ {p} ELSE active \cup {p}
  /\ UNCHANGED <<quote, book, held, advisory, turn, pass>>

\* A user's resting limit order, good till canceled.
PlaceLimit(p, r) ==
  /\ p \in active /\ FitsOrders(p, 1)
  /\ WholeUnits(p, r.qty) = r.qty
  /\ r.side = "SELL" => r.qty <= Sellable(p, r.inst)
  /\ book' = [book EXCEPT ![p].orders = Append(@, r)]
  /\ UNCHANGED <<active, quote, held, advisory, turn, pass>>

CancelLimit(p, n) ==
  /\ book[p].orders[n].kind = "limit"
  /\ book' = [book EXCEPT ![p].orders = RemoveAt(@, n)]
  /\ UNCHANGED <<active, quote, held, advisory, turn, pass>>

-----------------------------------------------------------------------------

Init ==
  /\ active = Portfolios
  /\ quote = [i \in Instruments |-> 0]
  /\ \E qty \in [Portfolios -> [Instruments -> 0 .. MaxQty]] :
       /\ \A p \in Portfolios, i \in Instruments : qty[p][i] \in Seeded[p]
       /\ book = [p \in Portfolios |->
                    [pos |-> [i \in Instruments |->
                                [Closed EXCEPT !.qty = qty[p][i], !.stop = IF qty[p][i] = 0 THEN 0 ELSE 1]],
                     orders |-> << >>]]
  /\ held = [s \in Range(Process) |-> {}]
  /\ advisory = {}
  /\ turn = [c \in Callers |-> Idle]
  /\ pass = [w \in Matchers |-> NoPass]

Limits == [inst : Instruments, side : LimitSides, qty : {Lot}, kind : {"limit"}]

CycleStep(c) == \/ \E p \in Managed : Acquire(c, p)
                \/ Decide(c) \/ ReadPending(c) \/ Execute(c) \/ Commit(c)

Next ==
  \/ \E c \in Callers : CycleStep(c)
  \/ \E s \in Range(Process) : Crash(s)
  \/ \E w \in Matchers : Work(w) \/ \E p \in Portfolios : Look(w, p)
  \/ \E p \in Portfolios : Match(p)
  \/ \E p \in Managed : PauseOrResume(p)
  \/ \E p \in Managed : \E r \in Limits : PlaceLimit(p, r)
  \/ \E p \in Managed : \E n \in DOMAIN book[p].orders : CancelLimit(p, n)
  \/ \E i \in Instruments, price \in 0 .. Top : NewQuote(i, price)

Spec == Init /\ [][Next]_vars

Starts(p) == Match(p) \/ \E w \in Matchers : Look(w, p)
Ends(p) == \E w \in Matchers : pass[w].p = p /\ Work(w)

\* The scheduler keeps firing the match job while the server is up, and a pass now and then
\* lives to its end.
FairSpec == Spec /\ \A p \in Portfolios : SF_vars(Starts(p)) /\ SF_vars(Ends(p))

-----------------------------------------------------------------------------
(* Properties. *)

TypeOK ==
  /\ active \subseteq Portfolios
  /\ quote \in [Instruments -> 0 .. Top]
  /\ DOMAIN book = Portfolios
  /\ \A p \in Portfolios : /\ book[p].pos \in [Instruments -> Positions]
                           /\ book[p].orders \in Seq(Rows)
  /\ held \in [Range(Process) -> SUBSET Portfolios]
  /\ advisory \subseteq Portfolios
  /\ turn \in [Callers -> Turns]
  /\ pass \in [Matchers -> Passes]

\* Whoever asks, from whichever process, and whichever process dies: a portfolio has at most
\* one cycle between its lock and its commit (EngineRunner.run_portfolio).
OneCycleEach ==
  \A c, e \in Callers : InCycle(c) /\ InCycle(e) /\ turn[c].p = turn[e].p => c = e

\* Cycles that follow each other before fills arrive do not buy the same name again: at most
\* one of a portfolio's entries for an instrument is working (DecisionCycle._pending_instruments).
EntriesDoNotStack ==
  \A p \in Portfolios :
    LET rows == book[p].orders
    IN  \A m, n \in DOMAIN rows :
          rows[m].kind = "entry" /\ rows[n].kind = "entry" /\ rows[m].inst = rows[n].inst => m = n

\* A stop is never lowered: over cycles, crashes and passes it falls only as the position it
\* protects is closed, to none (update_stop, DecisionCycle._apply_stops).
StopsOnlyRise ==
  [][\A p \in Portfolios, i \in Instruments :
       LET now == book[p].pos[i]
           next == book'[p].pos[i]
       IN  next.stop < now.stop => next.stop = 0 /\ ~next.laddered]_vars

Trims(rows, i) == Cardinality({n \in DOMAIN rows : rows[n].inst = i /\ rows[n].kind = "trim"})

\* The position a cycle is about to mark or move the stop of was closed meanwhile.
Gone(p, i) == \E c \in Callers : turn[c].at = "committing" /\ turn[c].p = p /\ i \in turn[c].new.gone

\* A position is trimmed once: a trim is committed only for one that is not marked, marks it
\* unless it is gone, and the mark stays until the position is gone (DecisionCycle._place_exit).
TrimsOnce ==
  [][\A p \in Portfolios, i \in Instruments :
       LET now == book[p].pos[i]
           next == book'[p].pos[i]
       IN  /\ Trims(book'[p].orders, i) > Trims(book[p].orders, i) =>
                ~now.laddered /\ (next.laddered \/ Gone(p, i))
           /\ now.laddered /\ ~next.laddered => next.stop = 0]_vars

\* A pass over p works the market orders of i.
Workable(p, i) == p \in active /\ quote[i] > 0 /\ ~Raises(p)

\* A position whose stop the price has reached, that nothing keeps the pass from selling.
Exposed(p, i) ==
  /\ Workable(p, i)
  /\ book[p].pos[i].stop > 0 /\ book[p].pos[i].stop >= quote[i]
  /\ book[p].pos[i].qty > 0 /\ i \notin Pending(p)

\* A breached stop is acted on between cycles: as long as the match job keeps running, no
\* position stays exposed (MatchingPass._match, StopTrigger.on_quote).
BreachesEnd == \A p \in Portfolios, i \in Instruments : []<>~Exposed(p, i)

\* Exits, trims and stops that sessions were granted beside each other ask for more than is held.
Oversold(p, i) ==
  /\ Workable(p, i)
  /\ Total(book[p].orders, {n \in On(book[p].orders, i, "SELL") : book[p].orders[n].kind # "limit"})
       > book[p].pos[i].qty

\* Shares promised twice, by a cycle, a pass and a user that do not see each other's orders, do
\* not stay so: passes sell what is there and expire the rest, which would sell what is bought
\* later (BrokerService.on_quote).
OversoldEnds == \A p \in Portfolios, i \in Instruments : []<>~Oversold(p, i)

=============================================================================
