------------------------------ MODULE Strategy ------------------------------
(***************************************************************************)
(* The rules layer, as the pure function it is in engine/strategy.py: what *)
(* to exit, which stops to raise, what to buy and how much, from one look   *)
(* at the book and the market (analytics/exits.py, screen.py, sizing.py,    *)
(* policy.py, engine/universe.py).                                          *)
(*                                                                         *)
(* Weights are whole numbers of some small share of equity, prices and days *)
(* are small numbers.  The statistics over price series are inputs: of each *)
(* instrument a record `market[s]` says what the rules read of it.          *)
(***************************************************************************)
EXTENDS Integers, Sequences, FiniteSets, FiniteSetsExt, Functions

CONSTANTS
  Symbols,       \* numbered in the order of the alphabet
  Full,          \* full confidence; a verdict may ask for part of it
  Calm, Panic,   \* exposures of the regimes, in parts of Calm
  MaxGross, MaxPositions, MinWeight,   \* SizingConfig
  Band, RelativeBand,                  \* TurnoverConfig: units; current \div RelativeBand
  TurnoverCap,
  MinHold, TimeStop,                   \* ExitConfig: days
  LadderAt,                            \* ExitConfig: multiples of the initial risk
  MaxSymbols, Always, Never            \* UniverseSpec

ASSUME StrategyAssumption ==
  /\ Full \in Nat \ {0} /\ Calm \in Nat \ {0} /\ Panic \in 0 .. Calm
  /\ MaxGross \in Nat /\ MaxPositions \in Nat /\ MinWeight \in Nat /\ TurnoverCap \in Nat
  /\ Symbols \subseteq Nat /\ IsFiniteSet(Symbols) /\ Band \in Nat /\ RelativeBand \in Nat \ {0}
  /\ MaxSymbols \in Nat /\ Always \subseteq Symbols /\ Never \subseteq Symbols

\* What the rules read of an instrument: close and ATR, whether it passes the quality screen,
\* is leveraged, trends upward and is cheap to trade against its stop, how it scores, the
\* smallest of its three size caps, and the price distance of one unit of initial risk.
Market == [close : Nat, gap : Nat, passes : BOOLEAN, leveraged : BOOLEAN, long : BOOLEAN,
           cheap : BOOLEAN, score : Nat, cap : Nat, risk : Nat]

\* PortfolioState: of each holding its weight, entry, peak and age; what was sold within the
\* cooldown; what was traded in the last month; whether cash is under the guardrails' floor.
Holding == [weight : Nat, entry : Nat, peak : Nat, stop : Nat, days : Nat, laddered : BOOLEAN]

Plus(n) == IF n > 0 THEN n ELSE 0
Distance(x, y) == IF x > y THEN x - y ELSE y - x
Weight(book, s) == IF s \in DOMAIN book.held THEN book.held[s].weight ELSE 0

\* The sum of the amounts w[n] of the n in S: one element per unit.
SumOf(w, S) == Cardinality(UNION {{n} \X (1 .. w[n]) : n \in S})

Invested(book) == SumOf([s \in DOMAIN book.held |-> book.held[s].weight], DOMAIN book.held)

\* The elements of S, each behind those that come before it.
InOrder(S, before) ==
  [n \in 1 .. Cardinality(S) |->
     CHOOSE s \in S : Cardinality({t \in S : <<t, s>> \in before}) = n - 1]

\* What of seq is at the positions T, in its order.
AtPositions(seq, T) ==
  LET order == InOrder(T, {p \in T \X T : p[1] < p[2]})
  IN  [n \in DOMAIN order |-> seq[order[n]]]

-----------------------------------------------------------------------------
(* Universe and screen. *)

\* Fault: what is held has to find its place in the alphabet.
Resolved_Unpinned(tracked, held) ==
  LET kept == {s \in tracked \cup Always \cup held : s \notin Never \/ s \in held}
      order == InOrder(kept, {p \in kept \X kept : p[1] < p[2]})
  IN  SubSeq(order, 1, Min({Cardinality(kept), MaxSymbols}))

\* Names always wanted or held come first, each kind in the order of the symbols.
Before(kept, pinned) ==
  {p \in kept \X kept : \/ p[1] \in pinned /\ p[2] \notin pinned
                        \/ (p[1] \in pinned <=> p[2] \in pinned) /\ p[1] < p[2]}

\* resolve: what does not fit is not looked at.
Resolved(tracked, held) ==
  LET kept == {s \in tracked \cup Always \cup held : s \notin Never \/ s \in held}
  IN  SubSeq(InOrder(kept, Before(kept, Always \cup held)), 1, Min({Cardinality(kept), MaxSymbols}))

\* screen, as the positions it leaves: what is held always survives, to stay manageable.
Screened(cohort, market, held) ==
  {n \in DOMAIN cohort : \/ cohort[n] \in held
                         \/ market[cohort[n]].passes /\ ~market[cohort[n]].leveraged}

-----------------------------------------------------------------------------
(* Exits. *)

UpdateStop(h, m) == Max({h.stop, Max({h.peak, m.close}) - m.gap})

\* r_multiple >= n, without the division; no risk was defined means no multiple.
Reaches(h, m, n) == m.risk > 0 /\ m.close - h.entry >= n * m.risk
BelowHalf(h, m) == m.risk = 0 \/ 2 * (m.close - h.entry) < m.risk

\* evaluate_exit, in its order: the protective stop ignores the minimum hold.
Exit(h, m, panic) ==
  CASE m.close <= h.stop -> "full"
    [] m.close > h.stop /\ h.days < MinHold -> "none"
    [] OTHER ->
         IF panic \/ ~m.long THEN "full"
         ELSE IF ~h.laddered /\ Reaches(h, m, LadderAt) THEN "trim"
         ELSE IF h.days >= TimeStop /\ BelowHalf(h, m) THEN "full"
         ELSE "none"

-----------------------------------------------------------------------------
(* Sizes. *)

\* size_position: confidence and regime scale what the caps left.
Size(m, exposure, confidence) ==
  LET weight == (m.cap * exposure * Min({Full, Plus(confidence)})) \div (Calm * Full)
  IN  IF weight < MinWeight THEN 0 ELSE weight

NeedsRebalance(current, target) ==
  LET drift == Distance(target, current)
  IN  drift >= Band /\ ~(current > 0 /\ drift * RelativeBand < current)

\* Fault: every candidate is held against all the room.
FitToBudget_Each(sized, room) ==
  AtPositions(sized, {n \in DOMAIN sized : sized[n].weight <= Min({MaxGross, Plus(room)})})

\* fit_to_budget: in the order of rank, the first that does not fit is cut to what is left of
\* the room, if that is worth a position, and nothing follows it.
FitToBudget(sized, room) ==
  LET all == Min({MaxGross, Plus(room)})
      weights == [n \in DOMAIN sized |-> sized[n].weight]
      most == Min({Len(sized), MaxPositions})
      whole == Max({k \in 0 .. most : SumOf(weights, 1 .. k) <= all})
      left == all - SumOf(weights, 1 .. whole)
  IN  SubSeq(sized, 1, whole) \o
        IF whole < most /\ left >= MinWeight
        THEN << [s |-> sized[whole + 1].s, weight |-> left] >> ELSE << >>

\* The last filter takes, in order, what trades no more than those before it left of the
\* month, and passes over what would.
Takes(traded, left, taken) ==
  \A n \in DOMAIN traded :
    n \in taken <=> traded[n] + SumOf(traded, {k \in taken : k < n}) <= left

WithinTurnover(fitted, book) ==
  LET traded == [n \in DOMAIN fitted |-> Distance(fitted[n].weight, Weight(book, fitted[n].s))]
  IN  AtPositions(fitted, CHOOSE taken \in SUBSET DOMAIN fitted :
                            Takes(traded, Plus(TurnoverCap - book.turnover), taken))

\* What a candidate is sized to, or 0 if a rule skips it; a symbol nobody spoke of has full
\* confidence.
Sized(s, market, book, exposure, confidence, exiting) ==
  LET m == market[s]
      target == Size(m, exposure, IF s \in DOMAIN confidence THEN confidence[s] ELSE Full)
  IN  IF /\ s \notin exiting /\ ~m.leveraged /\ s \notin book.cooling
         /\ m.long /\ m.score > 0 /\ exposure > 0
         /\ m.cheap /\ NeedsRebalance(Weight(book, s), target)
      THEN target ELSE 0

\* _pick_entries: those that may be bought, by score, and as they were screened among equals.
Entries(cohort, screened, market, book, exposure, confidence, exiting) ==
  LET target == [s \in Range(cohort) |-> Sized(s, market, book, exposure, confidence, exiting)]
      score == [n \in DOMAIN cohort |-> market[cohort[n]].score]
      scored == {n \in screened : target[cohort[n]] > 0}
      ranked == InOrder(scored, {p \in scored \X scored :
                                   \/ score[p[1]] > score[p[2]]
                                   \/ score[p[1]] = score[p[2]] /\ p[1] < p[2]})
      sized == [n \in DOMAIN ranked |-> [s |-> cohort[ranked[n]], weight |-> target[cohort[ranked[n]]]]]
  IN  WithinTurnover(FitToBudget(sized, MaxGross - Invested(book)), book)

-----------------------------------------------------------------------------

\* decide, over the instruments of cohort: only names the cohort has features of are managed.
Decision(cohort, market, book, panic, confidence) ==
  LET managed == DOMAIN book.held \cap Range(cohort)
      exits == [s \in managed |-> Exit(book.held[s], market[s], panic)]
      stops == [s \in managed |-> UpdateStop(book.held[s], market[s])]
      exiting == {s \in managed : exits[s] = "full"}
      screened == Screened(cohort, market, DOMAIN book.held)
  IN  [exits |-> [s \in {t \in managed : exits[t] # "none"} |-> exits[s]],
       stops |-> [s \in {t \in managed : stops[t] > book.held[t].stop} |-> stops[s]],
       entries |-> Entries(cohort, screened, market, book, IF panic THEN Panic ELSE Calm,
                         confidence, exiting)]

=============================================================================
