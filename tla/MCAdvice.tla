------------------------------ MODULE MCAdvice ------------------------------
EXTENDS Advice, TLC

Plain == [close |-> 4, gap |-> 2, passes |-> TRUE, leveraged |-> FALSE, long |-> TRUE,
          cheap |-> TRUE, score |-> 1, cap |-> 8, risk |-> 1]
Flat == [weight |-> 4, entry |-> 4, peak |-> 4, stop |-> 1, days |-> 5, laddered |-> FALSE]
Empty == [s \in {} |-> Flat]
Book == [held |-> Empty, cooling |-> {}, turnover |-> 0, cashLow |-> FALSE]

\* Three names the rules rank 2, 3, 1.
Ranked(caps) == [s \in Symbols |-> [Plain EXCEPT !.score = CASE s = 1 -> 1 [] s = 2 -> 3 [] s = 3 -> 2,
                                                !.cap = caps[s]]]
View(market, book, panic) == [market |-> market, book |-> book, panic |-> panic, tracked |-> Symbols]

Buying == {View(Ranked(caps), [Book EXCEPT !.turnover = t], FALSE) : caps \in {<<8, 4, 8>>, <<4, 8, 8>>}, t \in {0, 10}}
          \cup {View(Ranked(<<8, 4, 8>>), [Book EXCEPT !.cooling = {2}], FALSE),
                View(Ranked(<<8, 4, 8>>), [Book EXCEPT !.cashLow = TRUE], TRUE)}
\* A name that fails the screen is held, young or old, under a stop the price may have reached.
Holding3(h, close, long) ==
  View([Ranked(<<8, 8, 4>>) EXCEPT ![3] = [Plain EXCEPT !.passes = FALSE, !.close = close, !.long = long]],
       [Book EXCEPT !.held = 3 :> h], FALSE)
Holdings == {Holding3([Flat EXCEPT !.stop = 4, !.days = days], 4, TRUE) : days \in {0, 5}}
            \cup {Holding3([Flat EXCEPT !.days = 9, !.weight = w], close, long) :
                    w \in {4, 12}, close \in {4, 6}, long \in BOOLEAN}
MCScenes == Buying \cup Holdings

MCSaid == {[s |-> s, take |-> TRUE, finite |-> TRUE, raw |-> 1] : s \in {2, 3}}
          \cup {[s |-> 2, take |-> FALSE, finite |-> TRUE, raw |-> 2],
                [s |-> 1, take |-> TRUE, finite |-> TRUE, raw |-> 3]}
MCQuick == <<"fast", "spare">>
MCDeep == <<"slow">>
OnePermit == [e \in {"fast", "spare", "slow"} |-> 1]
=============================================================================
