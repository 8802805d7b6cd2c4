------------------------------ MODULE Adapters ------------------------------
(***************************************************************************)
(* The adapters: what each vendor offers (providers/base.py, registry.py,   *)
(* services/providers.py) and what its answers become (providers/impl).     *)
(*                                                                         *)
(* An answer is a sequence of rows. A field of a row that may be missing or *)
(* unreadable is a set: {} or the one number it holds. A row that is no     *)
(* object at all is one with every field missing. A symbol of a crypto      *)
(* venue is a pair, its base and what it is quoted in.                      *)
(***************************************************************************)
EXTENDS Integers, Sequences, FiniteSets, FiniteSetsExt, SequencesExt

CONSTANTS
  CoreStocks, CoreEtfs, Commodities,   \* lists built into the fmp adapter
  Pegged,                              \* bases that are dollars themselves, or leveraged tokens
  MinPrice, MinTraded                  \* MinTraded[p]: what has to trade in a day to be listed

-----------------------------------------------------------------------------
(* Who offers what. *)

Adapter(rank, capabilities, classes, fields, minute, day, concurrency) ==
  [rank |-> rank, capabilities |-> capabilities, classes |-> classes, fields |-> fields,
   minute |-> minute, day |-> day, concurrency |-> concurrency]

Equities == {"stock", "etf"}

Alpaca == Adapter(10, {"quotes", "bars", "stream"}, Equities, {"api_key_id", "secret_key"}, 200, 0, 4)
AlphaVantage == Adapter(60, {"quotes", "news"}, Equities, {"api_key"}, 5, 25, 1)
Binance == Adapter(5, {"universe", "quotes", "bars", "stream"}, {"crypto"}, {}, 1000, 0, 6)
CryptoCom == Adapter(10, {"universe", "quotes", "bars", "stream"}, {"crypto"}, {}, 100, 0, 4)
Finnhub == Adapter(40, {"quotes", "news"}, Equities, {"api_key"}, 60, 0, 4)
Fmp == Adapter(20, {"universe", "quotes", "bars", "news", "corporate_actions"},
               Equities \cup {"commodity"}, {"api_key"}, 300, 0, 4)
Polygon == Adapter(50, {"quotes", "bars"}, Equities, {"api_key"}, 5, 0, 1)

\* In the order in which providers/impl registers them.
Keys == <<"alpaca", "alphavantage", "binance", "cryptocom", "finnhub", "fmp", "polygon">>
Registered == [alpaca |-> Alpaca, alphavantage |-> AlphaVantage, binance |-> Binance,
               cryptocom |-> CryptoCom, finnhub |-> Finnhub, fmp |-> Fmp, polygon |-> Polygon]

Supports(p, capability, class) ==
  capability \in Registered[p].capabilities /\ class \in Registered[p].classes

\* missing_credentials is empty: a keyless provider always is available.
Complete(p, stored) == Registered[p].fields \subseteq stored[p]

\* A stable sort, as Python's.
SortBy(rows, Key(_)) ==
  LET order == SetToSortSeq(DOMAIN rows,
                 LAMBDA m, n : Key(rows[m]) < Key(rows[n]) \/ (Key(rows[m]) = Key(rows[n]) /\ m < n))
  IN  [n \in DOMAIN rows |-> rows[order[n]]]

ByPriority == SortBy(Keys, LAMBDA p : Registered[p].rank)

\* for_capability, and the router of a user who stored these credentials.
ForCapability(capability, class) == SelectSeq(ByPriority, LAMBDA p : Supports(p, capability, class))
RouterOf(stored) == {p \in Range(Keys) : Complete(p, stored)}

\* seed_from_env: a provider with a required field missing is not seeded at all.
Seeded(env) ==
  [p \in Range(Keys) |-> IF Registered[p].fields # {} /\ Complete(p, env) THEN env[p] \cap Registered[p].fields ELSE {}]

\* The endpoints tried for a capability, one after the other, and whether a built-in list is the
\* last of them: only fmp has more than one.
PathsFor(p, capability, class) ==
  IF ~Supports(p, capability, class) \/ (p = "fmp" /\ capability = "universe" /\ class = "commodity") THEN << >>
  ELSE IF p # "fmp" THEN <<capability>>
  ELSE IF capability = "quotes" THEN <<"batch-quote", "quote">>
  ELSE IF capability = "universe" /\ class = "stock" THEN <<"company-screener", "most-actives">>
  ELSE IF capability = "universe" THEN <<"company-screener">> ELSE <<capability>>
HasBuiltIn(p, capability, class) == p = "fmp" /\ Supports(p, capability, class) /\ capability = "universe"

-----------------------------------------------------------------------------
(* Values. *)

Positive(value) == {x \in value : x > 0}
Value(some) == CHOOSE x \in some : TRUE

\* The last row of a symbol wins.
LastOf(rows) ==
  [s \in {rows[n].symbol : n \in DOMAIN rows} |-> rows[Max({n \in DOMAIN rows : rows[n].symbol = s})]]

\* The first row of a symbol wins, in the order of their first appearance.
FirstOf(rows) ==
  LET firsts == SetToSortSeq({Min({n \in DOMAIN rows : rows[n].symbol = s}) : s \in {rows[n].symbol : n \in DOMAIN rows}}, <)
  IN  [n \in DOMAIN firsts |-> rows[firsts[n]]]

\* Most traded first; what has no such number counts as none.
ByVolume(entries) == SortBy(entries, LAMBDA entry : 0 - SumSet(entry.traded))

-----------------------------------------------------------------------------
(* Bars: unreadable rows are dropped, those after the end too, and the newest days remain. *)

Newest(rows, days) == SubSeq(rows, Max({1, Len(rows) - days + 1}), Len(rows))

Readable(row) == row.date # {} /\ row.close # {}
BarsOf(rows, days, end) ==
  Newest(SortBy(SelectSeq(rows, LAMBDA row : Readable(row) /\ \A d \in row.date, e \in end : d <= e),
                LAMBDA row : Value(row.date)), days)

FmpBars(rows, days, end) == BarsOf(rows, days, end)
PolygonBars(rows, days, end, today) == BarsOf(rows, days, IF end = {} THEN {today} ELSE end)

\* Alpaca answers in pages and is trusted with the end.
AlpacaBars(pages, days) == BarsOf(FlattenSeq(pages), days, {})

\* Alpaca and Polygon are asked for calendar days: 1.6 for each session and 10 more.
FirstDay(last, days) == last - ((8 * days) \div 5 + 10)

\* The crypto venues are asked for a number of candles up to now, whatever the end is.
Asked(days, most) == Min({Max({days, 30}), most})
BinanceBars(history, days, end) == BarsOf(Newest(history, Asked(days, 1000)), days, end)
CryptoComBars(history, days, end) == BarsOf(Newest(history, Asked(days, 300)), days, end)

-----------------------------------------------------------------------------
(* Quotes. *)

\* FMP: a previous close is told, or follows from the change of the day. Its answer is not held
\* against what was asked for, neither in batches nor one by one.
FmpQuotes(rows) ==
  LET priced == SelectSeq(rows, LAMBDA row : row.symbol # "" /\ Positive(row.price) # {})
  IN  [s \in DOMAIN LastOf(priced) |->
         LET row == LastOf(priced)[s]
             told == IF row.previous # {} THEN row.previous
                     ELSE {x - c : x \in row.price, c \in row.change}
         IN  [price |-> Value(row.price), previous |-> Positive(told)]]

\* Alpaca: the last trade, or the close of the day when there is none; a trade at zero is none.
SnapshotPrice(row) == Positive(IF row.trade \ {0} # {} THEN row.trade ELSE row.daily)
AlpacaQuotes(rows) ==
  LET priced == SelectSeq(rows, LAMBDA row : SnapshotPrice(row) # {})
  IN  [s \in DOMAIN LastOf(priced) |->
         LET row == LastOf(priced)[s]
         IN  [price |-> Value(SnapshotPrice(row)), previous |-> Positive(row.previous),
              bid |-> Positive(row.bid), ask |-> Positive(row.ask)]]

\* The others are asked symbol by symbol: answers[s] is the one row.
QuotesEach(answers) ==
  [s \in {s \in DOMAIN answers : Positive(answers[s].price) # {}} |->
     [price |-> Value(answers[s].price), previous |-> Positive(answers[s].previous)]]
FinnhubQuotes(answers) == QuotesEach(answers)

\* What it calls the price is the close of the session before, and the previous close its open.
PolygonQuotes(answers) ==
  QuotesEach([s \in DOMAIN answers |-> [price |-> answers[s].close, previous |-> answers[s].open]])

\* Throttled in prose, with status 200: the first such answer fails the request.
Advisory(answer) == CASE answer = "note" -> "limited" [] answer = "message" -> "error" [] OTHER -> "ok"
AlphaVantageQuotes(answers) ==
  LET refused == {Advisory(answers[s].advisory) : s \in DOMAIN answers} \ {"ok"}
  IN  [refused |-> refused,
       quotes |-> QuotesEach([s \in IF refused = {} THEN DOMAIN answers ELSE {} |-> answers[s]])]

Dollars == {"USDT", "USDC", "FDUSD", "BUSD", "TUSD", "USD"}

\* to_canonical and to_venue.
Canonical(p, symbol) == IF p = "binance" /\ symbol[2] \in Dollars THEN <<symbol[1], "USD">> ELSE symbol
Venue(p, symbol) ==
  LET dollar == IF p = "binance" THEN "USDT" ELSE "USD"
  IN  <<symbol[1], IF symbol[2] = "" \/ (p = "binance" /\ symbol[2] = "USD") THEN dollar ELSE symbol[2]>>

\* All tickers of a venue come at once; those of the pairs asked for are kept. No two symbols
\* wanted are of one pair.
Tickers(p, rows, wanted) ==
  LET priced == LastOf(SelectSeq(rows, LAMBDA row : Positive(row.price) # {}))
  IN  [s \in {s \in wanted : Venue(p, s) \in DOMAIN priced} |-> priced[Venue(p, s)]]

BinanceQuotes(rows, wanted) ==
  LET theirs == Tickers("binance", rows, wanted)
  IN  [s \in DOMAIN theirs |-> [price |-> Value(theirs[s].price), previous |-> Positive(theirs[s].previous)]]

\* Crypto.com tells a ratio, in percent here; at -100 there was no price before. Rounded.
PreviousClose(price, ratio) == {(100 * price) \div (100 + r) : r \in {r \in ratio : r > -100}}
CryptoComQuotes(rows, wanted) ==
  LET theirs == Tickers("cryptocom", rows, wanted)
  IN  [s \in DOMAIN theirs |-> [price |-> Value(theirs[s].price),
                               previous |-> PreviousClose(Value(theirs[s].price), theirs[s].ratio)]]

-----------------------------------------------------------------------------
(* Streams. *)

\* What the frames until the answer to the credentials say: the first word of either kind counts,
\* a frame that cannot be read is one of the five.
Verdict(frames) ==
  LET told == SelectSeq(FlattenSeq(SubSeq(frames, 1, Min({5, Len(frames)}))),
                        LAMBDA message : message \in {"error", "authenticated"})
  IN  IF told = << >> THEN (IF Len(frames) < 5 THEN "waiting" ELSE "unanswered") ELSE Head(told)

\* The midpoint stands in for the price: here a sum, in halves.
AlpacaTick(message) ==
  {[symbol |-> message.symbol, halves |-> b + a] : b \in Positive(message.bid), a \in Positive(message.ask)}

\* A tick of a pair that was not subscribed to is dropped; Crypto.com sends several in a message,
\* and only those of a ticker channel are ticks.
TickOf(p, message, wanted) ==
  {[symbol |-> s, price |-> x] :
     s \in {s \in wanted : Venue(p, s) = message.symbol}, x \in Positive(message.price)}
BinanceTick(message, wanted) == TickOf("binance", message, wanted)
CryptoComTicks(channel, messages, wanted) ==
  IF channel # "ticker" THEN {} ELSE UNION {TickOf("cryptocom", message, wanted) : message \in Range(messages)}

-----------------------------------------------------------------------------
(* Universes. *)

\* The best dollar pair of a base stands for it; of equals the first.
BinanceUniverse(rows) ==
  LET listed == SelectSeq(rows, LAMBDA row :
                  /\ row.symbol[2] \in Dollars /\ row.symbol[1] \notin Pegged
                  /\ \E v \in row.traded : v >= MinTraded["binance"])
      named == [n \in DOMAIN listed |-> [symbol |-> Canonical("binance", listed[n].symbol), traded |-> listed[n].traded]]
      best(s) == {Max({Value(named[n].traded) : n \in {n \in DOMAIN named : named[n].symbol = s}})}
      firsts == FirstOf(named)
  IN  ByVolume([n \in DOMAIN firsts |-> [firsts[n] EXCEPT !.traded = best(firsts[n].symbol)]])

\* Only pairs against the dollar itself.
CryptoComUniverse(rows) ==
  ByVolume(SelectSeq(rows, LAMBDA row :
    /\ row.symbol[2] = "USD" /\ row.symbol[1] \notin Pegged \cup {""}
    /\ \E v \in row.traded : v >= MinTraded["cryptocom"]))

\* FMP: what the screener has, with its dollar volume,
Screened(rows, least) ==
  LET valued == [n \in DOMAIN rows |-> [symbol |-> rows[n].symbol,
                   traded |-> {x * v : x \in rows[n].price, v \in rows[n].volume}]]
  IN  ByVolume(SelectSeq(valued, LAMBDA entry : entry.symbol # "" /\ \E v \in entry.traded : v >= least))

\* or the core and what is traded most today,
Activity(rows) ==
  LET actives == SelectSeq(rows, LAMBDA row : row.symbol # "" /\ \E x \in row.price : x >= MinPrice)
      symbols == CoreStocks \o [n \in DOMAIN actives |-> actives[n].symbol]
  IN  FirstOf([n \in DOMAIN symbols |-> [symbol |-> symbols[n], traded |-> {}]])

\* by how the screener answered: an answer of another shape is an error of the adapter.
FmpUniverse(class, screener, actives) ==
  CASE class = "commodity" -> Commodities
    [] class = "etf" -> IF screener.ok THEN Screened(screener.rows, 0) ELSE CoreEtfs
    [] class = "stock" -> IF screener.ok THEN Screened(screener.rows, MinTraded["fmp"]) ELSE Activity(actives)
    [] OTHER -> << >>

\* company_names: one request each, and a failed one is a name less.
CompanyNames(symbols, profile) ==
  [s \in {s \in symbols : profile[s].ok /\ profile[s].name # {}} |-> Value(profile[s].name)]

-----------------------------------------------------------------------------
(* News and corporate actions. *)

Reportable(item) == item.published # {} /\ item.headline
NewestFirst(items) == SortBy(items, LAMBDA item : 0 - Value(item.published))

FmpNews(rows) == SelectSeq(rows, Reportable)
\* The limit is one of rows, before those that cannot be read are dropped.
FinnhubNews(answers, symbols, limit) ==
  NewestFirst(FlattenSeq([n \in DOMAIN symbols |->
    SelectSeq(SubSeq(answers[symbols[n]], 1, Min({limit, Len(answers[symbols[n]])})), Reportable)]))

\* The ticker of highest relevance among those asked for, the first of equals.
Subject(item, wanted) ==
  LET theirs == SelectSeq(item.tickers, LAMBDA tagged : tagged.symbol \in wanted)
      top == {n \in DOMAIN theirs : \A m \in DOMAIN theirs : theirs[m].score <= theirs[n].score}
  IN  IF theirs = << >> THEN {} ELSE {theirs[Min(top)].symbol}
AlphaVantageNews(rows, wanted, limit) ==
  NewestFirst(SelectSeq(SubSeq(rows, 1, Min({limit, Len(rows)})),
                        LAMBDA item : Reportable(item) /\ Subject(item, wanted) # {}))

Since(rows, since) == SelectSeq(rows, LAMBDA row : row.date # {} /\ \A d \in row.date, s \in since : d >= s)
\* Splits with two numbers that are not zero, dividends of more than nothing, in the order of their dates.
CorporateActions(splits, dividends, since) ==
  SortBy(SelectSeq(Since(splits, since), LAMBDA row : row.numerator \ {0} # {} /\ row.denominator \ {0} # {})
         \o SelectSeq(Since(dividends, since),
              LAMBDA row : Positive(IF row.adjusted \ {0} # {} THEN row.adjusted ELSE row.amount) # {}),
         LAMBDA row : Value(row.date))

=============================================================================
