---------------------------- MODULE MCProviders ----------------------------
(***************************************************************************)
(* Two requests about ETFs on one router: the paths and lists of fmp and     *)
(* finnhub as Adapters has them, with limits small enough to be met. The    *)
(* assumptions check what the adapters make of answers, for all answers of  *)
(* up to Rows rows.                                                         *)
(***************************************************************************)
EXTENDS Providers, Adapters

CONSTANT Rows

Capabilities == {"quotes", "universe"}
MCWants == [r \in {"r1", "r2"} |-> IF r = "r1" THEN "quotes" ELSE "universe"]
MCRanked == SelectSeq(ByPriority, LAMBDA p : p \in {"fmp", "finnhub"})
MCAvailable == RouterOf([p \in Range(Keys) |-> {"api_key"}]) \cap {"fmp", "finnhub"}
MCPaths == [p \in {"fmp", "finnhub"} |-> [c \in Capabilities |-> PathsFor(p, c, "etf")]]
MCBuilt == {<<p, c>> \in {"fmp", "finnhub"} \X Capabilities : HasBuiltIn(p, c, "etf")}
MCPerMinute == [p \in {"fmp", "finnhub"} |-> IF p = "fmp" THEN 1 ELSE 0]
MCPerDay == [p \in {"fmp", "finnhub"} |-> IF p = "fmp" THEN 2 ELSE 0]
MCSlots == [p \in {"fmp", "finnhub"} |-> IF p = "fmp" THEN 2 ELSE 1]

MCCore == <<"AAPL", "MSFT">>
MCEtfs == <<[symbol |-> "SPY", traded |-> {}]>>
MCCommodities == <<[symbol |-> "GCUSD", traded |-> {}]>>
MCTraded == [p \in {"fmp", "binance", "cryptocom"} |-> 2]

Answers(Row) == UNION {[1..n -> Row] : n \in 0..Rows}
Maybe(S) == {{}} \cup {{x} : x \in S}

-----------------------------------------------------------------------------

\* Without any credential there is a crypto venue for prices and history, and no equity venue; with
\* all of them several serve equities, commodities have fmp alone (services/providers.py).
ASSUME WhatIsThere ==
  LET keyless == RouterOf([p \in Range(Keys) |-> {}])
  IN  /\ \A c \in {"universe", "quotes", "bars", "stream"} :
           Range(ForCapability(c, "crypto")) \subseteq keyless /\ Head(ForCapability(c, "crypto")) = "binance"
      /\ \A c \in {"quotes", "bars"} : ForCapability(c, "stock")[1] = "alpaca" /\ ForCapability(c, "stock")[2] = "fmp"
      /\ \A c \in {"universe", "quotes", "bars"} :
           Range(ForCapability(c, "stock")) \cap keyless = {} /\ ForCapability(c, "commodity") = <<"fmp">>

\* Half of alpaca's pair of keys in the environment seeds nothing, so that no provider becomes
\* available by halves (seed_from_env).
ASSUME SeedsAreWhole ==
  \A fields \in SUBSET {"api_key", "api_key_id", "secret_key"} :
    \A p \in Range(Keys) : Seeded([q \in Range(Keys) |-> fields])[p] \in {{}, Registered[p].fields}

\* Bars are the newest of what is readable and not after the end, in the order of their days
\* (get_bars of every adapter).
ASSUME BarsAreTheNewest ==
  \A rows \in Answers([date : Maybe(1..3), close : Maybe({1})]), days \in 1..2, end \in Maybe({2}) :
    LET bars == FmpBars(rows, days, end)
        fit == {n \in DOMAIN rows : Readable(rows[n]) /\ \A d \in rows[n].date, e \in end : d <= e}
    IN  /\ Len(bars) = Min({days, Cardinality(fit)})
        /\ \A m, n \in DOMAIN bars : m < n => Value(bars[m].date) <= Value(bars[n].date)
        /\ \A b \in Range(bars) : \E n \in fit : rows[n] = b
        /\ \A n \in fit : rows[n] \notin Range(bars) => \A b \in Range(bars) : Value(rows[n].date) <= Value(b.date)

\* The calendar days asked for hold the sessions wanted, five a week and ten holidays a year.
ASSUME EnoughDaysAreAsked ==
  \A days \in 1..520 : LET span == 0 - FirstDay(0, days) IN ((5 * span) \div 7) - (span \div 36) >= days

\* A symbol of ours finds its way to a crypto venue and back.
ASSUME SymbolsComeBack ==
  \A p \in {"binance", "cryptocom"}, base \in {"BTC", "ETH"} : Canonical(p, Venue(p, <<base, "USD">>)) = <<base, "USD">>

\* A universe has no symbol twice, is ranked by what is traded, and takes a coin's best dollar pair
\* (list_universe of Binance).
ASSUME UniverseIsRanked ==
  \A rows \in Answers([symbol : {"BTC", "DAI"} \X {"USDT", "USDC", "EUR"}, traded : Maybe(1..3)]) :
    LET listed == BinanceUniverse(rows)
    IN  /\ \A m, n \in DOMAIN listed : m < n => /\ listed[m].symbol # listed[n].symbol
                                                /\ Value(listed[m].traded) >= Value(listed[n].traded)
        /\ \A row \in Range(rows) : (\E v \in row.traded : v >= 2) /\ row.symbol[1] = "BTC" /\ row.symbol[2] \in Dollars =>
              \E entry \in Range(listed) : entry.symbol = <<"BTC", "USD">> /\ Value(entry.traded) >= Value(row.traded)

\* But a coin can be listed by a pair that its quotes are never asked for: the venue then answers,
\* without it, and the next venue is not asked (to_venue, get_quotes).
ASSUME ListedMayHaveNoQuote ==
  LET row == [symbol |-> <<"BTC", "USDC">>, traded |-> {3}, price |-> {1}, previous |-> {}]
  IN  /\ BinanceUniverse(<<row>>)[1].symbol = <<"BTC", "USD">>
      /\ BinanceQuotes(<<row>>, {<<"BTC", "USD">>}) = << >>

\* A quote of Crypto.com and its ticks are of the pair asked for, at the last price told.
ASSUME QuotesAreOfThePair ==
  \A rows \in Answers([symbol : {"BTC", "ETH"} \X {"USD", "EUR"}, price : Maybe(0..1), ratio : Maybe({-100, 25})]) :
    LET wanted == {<<"BTC", "USD">>}
        quotes == CryptoComQuotes(rows, wanted)
    IN  /\ (DOMAIN quotes = wanted) = (\E tick \in CryptoComTicks("ticker", rows, wanted) : TRUE)
        /\ \A s \in DOMAIN quotes : \A x \in quotes[s].previous : x < quotes[s].price

\* No quote is at or below zero, and a previous close is a price, or missing.
ASSUME QuotesArePrices ==
  \A rows \in Answers([symbol : {"", "SPY"}, price : Maybe({0, 2}), previous : Maybe({0, 1}), change : Maybe({-1, 3})]) :
    \A s \in DOMAIN FmpQuotes(rows) : /\ s # "" /\ FmpQuotes(rows)[s].price > 0
                                     /\ \A x \in FmpQuotes(rows)[s].previous : x > 0

\* Where the screener is refused, no core name is lost and none is there twice.
ASSUME CoreIsKept ==
  \A actives \in Answers([symbol : {"", "AAPL", "GME"}, price : Maybe({1, 3})]) :
    LET listed == FmpUniverse("stock", [ok |-> FALSE, rows |-> << >>], actives)
    IN  /\ Range(MCCore) \subseteq {entry.symbol : entry \in Range(listed)}
        /\ Cardinality({entry.symbol : entry \in Range(listed)}) = Len(listed)

\* A headline is not attributed to a company nobody asked about (Alpha Vantage's _parse_news).
ASSUME NewsIsAboutTheWanted ==
  \A tickers \in Answers([symbol : {"AAPL", "GME"}, score : 0..1]) :
    Subject([tickers |-> tickers], {"AAPL"}) \subseteq {"AAPL"}

\* A stream is subscribed to only after the credentials were accepted, and five frames decide.
ASSUME StreamsAuthenticate ==
  \A frames \in [1..5 -> {<< >>, <<"other">>, <<"error", "authenticated">>, <<"authenticated">>}] :
    Verdict(frames) = LET answers == {n \in 1..5 : frames[n] \notin {<< >>, <<"other">>}}
                      IN  IF answers = {} THEN "unanswered" ELSE Head(frames[Min(answers)])
=============================================================================
