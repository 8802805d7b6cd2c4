------------------------------- MODULE MCBroker -------------------------------
EXTENDS Broker

Ask(inst, side, type, tif, qty, limit, stop, ref, client) ==
  [inst |-> inst, side |-> side, type |-> type, tif |-> tif, qty |-> qty,
   limit |-> limit, stop |-> stop, ref |-> ref, client |-> client]

At(price) == [price |-> price, bid |-> 0, ask |-> 0]

\* Quantities are in half shares.  Two buys, one of them retried under its id, and
\* two sells that together ask for more than either buy brings in.
TradeRequests ==
  {Ask("eq", "BUY", "MARKET", "DAY", 4, 0, 0, 1, 0),
   Ask("eq", "BUY", "LIMIT", "GTC", 2, 2, 0, 0, 7),
   Ask("eq", "SELL", "MARKET", "DAY", 3, 0, 0, 0, 0),
   Ask("eq", "SELL", "STOP_LIMIT", "GTC", 2, 2, 1, 0, 0)}
TradeQuotes == {At(1), At(3), [price |-> 2, bid |-> 1, ask |-> 2]}
\* A share and a half.
TradeSeeds == {[inst |-> "eq", qty |-> 3, basis |-> 1]}

\* Only limited buys, of two instruments that compete for the same cash.
LimitRequests ==
  {Ask("eq", "BUY", "LIMIT", "DAY", 2, 3, 0, 0, 0),
   Ask("btc", "BUY", "LIMIT", "GTC", 2, 3, 0, 0, 0),
   Ask("eq", "BUY", "STOP_LIMIT", "DAY", 1, 4, 4, 0, 0),
   Ask("btc", "SELL", "LIMIT", "DAY", 2, 3, 0, 0, 0)}
LimitQuotes == {At(3), At(4)}

\* Immediate-or-cancel buys, one of them on a market that never closes.
IocRequests ==
  {Ask("eq", "BUY", "LIMIT", "IOC", 1, 3, 0, 0, 0),
   Ask("btc", "BUY", "MARKET", "IOC", 1, 0, 0, 2, 0)}

NoSeeds == {}
=============================================================================
