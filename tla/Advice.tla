------------------------------- MODULE Advice -------------------------------
(***************************************************************************)
(* How a model is asked about what the rules propose, and what its answer   *)
(* may change: ai/pipeline.py, deliberation.py, analysts.py, client.py and  *)
(* guardrails.py, called by DecisionCycle._decide.                          *)
(*                                                                         *)
(* A cycle decides by the rules, asks analysts about each candidate at the  *)
(* same time, asks the deep model in one or more rounds, clamps what it     *)
(* said and decides again with the confidence that is left.  Every call     *)
(* walks a ladder of endpoints and formats and holds a permit of the        *)
(* endpoint's governor while it is out.  Rate windows are Providers'        *)
(* subject: here they are part of waiting for a permit.                     *)
(***************************************************************************)
EXTENDS Strategy

CONSTANTS
  Scenes,      \* what a portfolio may look like: [market, book, panic, tracked]
  Deliberate,  \* "single_call", "firm_debate" or "multi_round_debate"
  Rounds,      \* of a multi-round debate
  Kinds,       \* analysts whose capability some provider has
  Quick, Deep, \* the endpoints of the two tiers, the primary first
  Rungs,       \* formats an endpoint is asked for, from JSON schema down to a plain prompt
  Permits,     \* Permits[e]: concurrent calls endpoint e allows
  PoolSize,    \* analyst calls of a cycle at a time
  Said,        \* verdicts the model may return
  MaxSaid, MaxCycles, LastDay   \* bounds of the model

Endpoints == Range(Quick) \cup Range(Deep)
Lists == UNION {[1 .. n -> Said] : n \in 0 .. MaxSaid}

ASSUME AdviceAssumption ==
  /\ Deliberate \in {"single_call", "firm_debate", "multi_round_debate"}
  /\ Rounds \in Nat \ {0} /\ Rungs \in Nat \ {0} /\ PoolSize \in Nat \ {0}
  /\ Permits \in [Endpoints -> Nat \ {0}]
  /\ Quick \in Seq(Endpoints) \ {<< >>} /\ Deep \in Seq(Endpoints) \ {<< >>}
  /\ \A v \in Said : v.take \in BOOLEAN /\ v.finite \in BOOLEAN /\ v.raw \in Int
  /\ \A sc \in Scenes : /\ sc.market \in [Symbols -> Market]
                        /\ sc.book.held \in [DOMAIN sc.book.held -> Holding]
                        /\ DOMAIN sc.book.held \subseteq Symbols /\ sc.tracked \subseteq Symbols
                        /\ sc.book.turnover \in Nat
  /\ MaxSaid \in Nat /\ MaxCycles \in Nat /\ LastDay \in Nat \ {0}

VARIABLES
  scene,    \* the portfolio and market the cycles look at
  day,      \* today
  cycle,    \* the cycle: its number, stage, what the rules propose, round, what the model said so far
  calls,    \* calls to models that are under way, of this cycle or of one that failed
  permits,  \* permits[e]: free permits of the governor of e
  leaked,   \* leaked[e]: permits of e no call will give back
  notes,    \* AnalystCache: <<symbol, kind, day>>
  outcome   \* of the last cycle: whether advice was used, what was said, the confidence

vars == <<scene, day, cycle, calls, permits, leaked, notes, outcome>>

-----------------------------------------------------------------------------
(* The decision, before and after advice. *)

NoConfidence == [s \in {} |-> 0]
Held(sc) == DOMAIN sc.book.held

\* What comes first in the universe.
Pinned(sc) == Held(sc) \cup (Always \ Never)

Cohort(sc) == Resolved(sc.tracked, Held(sc))
Decide(sc, confidence) == Decision(Cohort(sc), sc.market, sc.book, sc.panic, confidence)
Proposed(sc) == Decide(sc, NoConfidence)
NoProposal == [exits |-> NoConfidence, stops |-> NoConfidence, entries |-> << >>]
Candidates(d) == {e.s : e \in Range(d.entries)}

\* Fault: the model's number is taken as it is.
Confidence_Raw(v) == IF v.take THEN v.raw ELSE 0

\* _confidence: no bet, or no number, is zero; any other number is clamped.
Confidence(v) == IF v.take /\ v.finite THEN Min({Full, Plus(v.raw)}) ELSE 0

\* The first verdict on a candidate is the one that counts.
First(verdicts, s) ==
  verdicts[CHOOSE n \in DOMAIN verdicts :
             verdicts[n].s = s /\ \A k \in 1 .. n - 1 : verdicts[k].s # s]

\* guardrails.apply: verdicts on exits, on strangers and second ones are dropped; a position
\* too many or a name in cooldown is zero.
Clamped(verdicts, sc, d) ==
  LET full == Cardinality(Held(sc)) >= MaxPositions
  IN  [s \in ({v.s : v \in Range(verdicts)} \cap Candidates(d)) \ DOMAIN d.exits |->
         IF s \in sc.book.cooling \/ (full /\ s \notin Held(sc)) THEN 0
         ELSE Confidence(First(verdicts, s))]

\* Fault: candidates the model left out keep the size the rules gave them.
Guarded_Named(verdicts, sc, d) ==
  LET conf == Clamped(verdicts, sc, d)
  IN  [s \in DOMAIN conf |-> IF sc.book.cashLow THEN 0 ELSE conf[s]]

\* ... candidates it left out are zero, and so is everything when cash is under its floor.
Guarded(verdicts, sc, d) ==
  LET conf == Clamped(verdicts, sc, d)
  IN  [s \in Candidates(d) \cup DOMAIN conf |->
         IF sc.book.cashLow \/ s \notin DOMAIN conf THEN 0 ELSE conf[s]]

\* apply_deweighting: what the model has earned out of sample, in parts of Full.
Deweighted(conf, earned) == [s \in DOMAIN conf |-> (conf[s] * earned) \div Full]

-----------------------------------------------------------------------------
(* Cycles. *)

NoOutcome == [used |-> FALSE, said |-> << >>, confidence |-> NoConfidence]
Ended == {"idle", "done", "failed"}
Stages == Ended \cup {"analysts", "deep", "judged"}
Running == cycle.at \notin Ended

Call(n, on, what) ==
  [by |-> n, tier |-> on, what |-> what, at |-> "queued", ep |-> 1, rung |-> 1]
DeepCall(n) == [Call(n, "deep", << >>) EXCEPT !.at = "waiting"]
Tier(c) == IF c.tier = "deep" THEN Deep ELSE Quick
Endpoint(c) == Tier(c)[c.ep]
Mine(c) == c.by = cycle.n

Finish(used, said, confidence) ==
  /\ cycle' = [cycle EXCEPT !.at = "done", !.said = << >>]
  /\ outcome' = [used |-> used, said |-> said, confidence |-> confidence]

\* What a cycle that is done answers: the rules' proposal, or what they decide again.
Answered == IF outcome.used THEN Decide(scene, outcome.confidence) ELSE cycle.proposal

\* A new cycle: nothing to judge ends it; what the cache has of today is not asked for again.
Start ==
  LET begun == [n |-> cycle.n + 1, at |-> "analysts", proposal |-> Proposed(scene),
                round |-> 0, said |-> << >>]
      judged == Candidates(begun.proposal)
  IN  /\ ~Running /\ cycle.n < MaxCycles
      /\ cycle' = IF judged = {} THEN [begun EXCEPT !.at = "done"] ELSE begun
      /\ outcome' = NoOutcome
      /\ calls' = calls \cup IF Deliberate = "single_call" THEN {}
                             ELSE {Call(begun.n, "quick", key) :
                                     key \in {<<s, k, day>> : s \in judged, k \in Kinds} \ notes}
      /\ UNCHANGED <<scene, day, permits, leaked, notes>>

\* The analysts are done: the deep model is asked.
AskDeep ==
  /\ cycle.at = "analysts" /\ \A c \in calls : ~Mine(c)
  /\ cycle' = [cycle EXCEPT !.at = "deep", !.round = 1]
  /\ calls' = calls \cup {DeepCall(cycle.n)}
  /\ UNCHANGED <<scene, day, permits, leaked, notes, outcome>>

\* An exception: out of gather or out of the deep call it fails the cycle, and analysts that
\* are still out go on; of a cycle already failed it changes nothing.
Raise(c) ==
  IF Mine(c) THEN cycle' = [cycle EXCEPT !.at = "failed", !.said = << >>] /\ outcome' = NoOutcome
  ELSE UNCHANGED <<cycle, outcome>>

-----------------------------------------------------------------------------
(* Calls. *)

Replace(c, d) == calls' = (calls \ {c}) \cup {d}
Drop(c) == calls' = calls \ {c}

\* The pool's semaphore.
Enter(c) ==
  /\ c.at = "queued"
  /\ Cardinality({d \in calls : d.by = c.by /\ d.tier = "quick" /\ d.at # "queued"}) < PoolSize
  /\ Replace(c, [c EXCEPT !.at = "waiting"])
  /\ UNCHANGED <<scene, day, cycle, permits, leaked, notes, outcome>>

\* governor.acquire returns, and the request is out.
Post(c) ==
  /\ c.at = "waiting" /\ permits[Endpoint(c)] > 0
  /\ permits' = [permits EXCEPT ![Endpoint(c)] = @ - 1]
  /\ Replace(c, [c EXCEPT !.at = "posted"])
  /\ UNCHANGED <<scene, day, cycle, leaked, notes, outcome>>

\* A prompt of more tokens than the window ever holds: acquire raises, the permit goes back.
Oversized(c) ==
  /\ c.at = "waiting" /\ permits[Endpoint(c)] > 0
  /\ Drop(c) /\ Raise(c)
  /\ UNCHANGED <<scene, day, permits, leaked, notes>>

Release(c) == permits' = [permits EXCEPT ![Endpoint(c)] = @ + 1] /\ UNCHANGED leaked

\* Fault: a refusal of the format keeps its permit.
Rejected_Holding(c) ==
  /\ c.at = "posted" /\ c.rung < Rungs
  /\ Replace(c, [c EXCEPT !.at = "waiting", !.rung = @ + 1])
  /\ UNCHANGED <<scene, day, cycle, permits, leaked, notes, outcome>>

\* 400 to a format: the next rung, on the same endpoint.
Rejected(c) ==
  /\ c.at = "posted" /\ c.rung < Rungs
  /\ Release(c)
  /\ Replace(c, [c EXCEPT !.at = "waiting", !.rung = @ + 1])
  /\ UNCHANGED <<scene, day, cycle, notes, outcome>>

\* 429, an HTTP error or none at all: the next endpoint of the tier, from its first rung.
NextEndpoint(c) ==
  /\ c.at = "posted" /\ c.ep < Len(Tier(c))
  /\ Release(c)
  /\ Replace(c, [c EXCEPT !.at = "waiting", !.ep = @ + 1, !.rung = 1])
  /\ UNCHANGED <<scene, day, cycle, notes, outcome>>

\* A reply that is no JSON, though its status is 200: the permit goes back, the error goes up.
Unreadable(c) ==
  /\ c.at = "posted"
  /\ Release(c) /\ Drop(c) /\ Raise(c)
  /\ UNCHANGED <<scene, day, notes>>

\* The request cannot even be built (a malformed address, say), which is no HTTPError: nothing
\* gives the permit back.
Broken(c) ==
  /\ c.at = "posted"
  /\ leaked' = [leaked EXCEPT ![Endpoint(c)] = @ + 1]
  /\ Drop(c) /\ Raise(c)
  /\ UNCHANGED <<scene, day, permits, notes>>

\* An analyst's answer: a note, text that is none, or an error of the last endpoint.
Noted(c) ==
  /\ c.at = "posted" /\ c.tier = "quick"
  /\ Release(c) /\ Drop(c)
  /\ notes' \in {notes, notes \cup {c.what}}
  /\ UNCHANGED <<scene, day, cycle, outcome>>

\* No deep endpoint answered, or what it said cannot be read: the rules stand as they are.
Unadvised(c) ==
  /\ c.at = "posted" /\ c.tier = "deep"
  /\ Release(c) /\ Drop(c)
  /\ Finish(FALSE, << >>, NoConfidence)
  /\ UNCHANGED <<scene, day, notes>>

LastRound == IF Deliberate = "multi_round_debate" THEN Rounds ELSE 1

\* Verdicts, and a round to go: the model is asked to attack them.
Rebutted(c) ==
  /\ c.at = "posted" /\ c.tier = "deep" /\ cycle.round < LastRound
  /\ Release(c)
  /\ \E said \in Lists :
       /\ cycle.round > 1 => said # << >>
       /\ cycle' = [cycle EXCEPT !.round = @ + 1, !.said = said]
  /\ Replace(c, DeepCall(cycle.n))
  /\ UNCHANGED <<scene, day, notes, outcome>>

\* The last verdicts; a later round without any leaves those before it.
Advised(c) ==
  /\ c.at = "posted" /\ c.tier = "deep"
  /\ Release(c) /\ Drop(c)
  /\ \E said \in Lists :
       /\ cycle.round = LastRound \/ (cycle.round > 1 /\ said = << >>)
       /\ cycle' = [cycle EXCEPT !.at = "judged",
                                 !.said = IF cycle.round > 1 /\ said = << >> THEN @ ELSE said]
  /\ UNCHANGED <<scene, day, notes, outcome>>

\* The calls are recorded, the verdicts clamped and weighed by what the model has earned, and
\* the rules are asked again.
Redecide ==
  /\ cycle.at = "judged"
  /\ \E earned \in 0 .. Full :
       Finish(TRUE, cycle.said, Deweighted(Guarded(cycle.said, scene, cycle.proposal), earned))
  /\ UNCHANGED <<scene, day, calls, permits, leaked, notes>>

NextDay ==
  /\ day < LastDay /\ day' = day + 1
  /\ UNCHANGED <<scene, cycle, calls, permits, leaked, notes, outcome>>

-----------------------------------------------------------------------------

Init ==
  /\ scene \in Scenes
  /\ day = 1
  /\ cycle = [n |-> 0, at |-> "idle", proposal |-> NoProposal, round |-> 0, said |-> << >>]
  /\ calls = {}
  /\ permits = Permits
  /\ leaked = [e \in Endpoints |-> 0]
  /\ notes = {}
  /\ outcome = NoOutcome

Progress(c) == Enter(c) \/ Post(c)
Answer(c) == \/ Rejected(c) \/ NextEndpoint(c) \/ Unreadable(c) \/ Broken(c)
             \/ Noted(c) \/ Unadvised(c) \/ Rebutted(c) \/ Advised(c)

Next ==
  \/ Start \/ AskDeep \/ Redecide \/ NextDay
  \/ \E c \in calls : Progress(c) \/ Oversized(c) \/ Answer(c)

Spec == Init /\ [][Next]_vars

\* Requests time out, so that each is answered; a free permit goes to a waiter at last.
FairSpec ==
  /\ Spec
  /\ WF_vars(AskDeep) /\ WF_vars(Redecide)
  /\ WF_vars(\E c \in calls : Progress(c))
  /\ WF_vars(\E c \in calls : Answer(c))

-----------------------------------------------------------------------------
(* Properties. *)

Confidences == UNION {[d -> 0 .. Full] : d \in SUBSET Symbols}

TypeOK ==
  /\ scene \in Scenes /\ day \in 1 .. LastDay
  /\ cycle.n \in 0 .. MaxCycles /\ cycle.at \in Stages /\ cycle.said \in Lists
  /\ \A c \in calls : /\ c.by \in 1 .. cycle.n /\ c.tier \in {"quick", "deep"}
                      /\ c.at \in {"queued", "waiting", "posted"}
                      /\ c.ep \in DOMAIN Tier(c) /\ c.rung \in 1 .. Rungs
  /\ \A e \in Endpoints : /\ permits[e] \in 0 .. Permits[e] /\ leaked[e] \in 0 .. Permits[e]
  /\ notes \subseteq Symbols \X Kinds \X (1 .. LastDay)
  /\ outcome.confidence \in Confidences

\* The model's word on a candidate is its first verdict, and no word is a veto.
Endorsed(s) ==
  \E n \in DOMAIN outcome.said :
    /\ outcome.said[n].s = s /\ outcome.said[n].take
    /\ \A k \in 1 .. n - 1 : outcome.said[k].s # s

\* Whatever else it says, through all rounds, a candidate of the rules that the model did not
\* endorse is not bought (guardrails.apply, AIPipeline.run, DecisionCycle._decide).
VetoHolds ==
  outcome.used =>
    \A s \in Candidates(cycle.proposal) : ~Endorsed(s) => s \notin Candidates(Answered)

\* With advice or without, what is bought fits the gross exposure beside what is held, and all
\* that is traded fits the month's turnover (fit_to_budget, TurnoverBudget in _pick_entries).
EntriesFitTheBook ==
  cycle.at = "done" =>
    LET book == scene.book
        bought == Answered.entries
        at == [n \in DOMAIN bought |-> Weight(book, bought[n].s)]
        added == [n \in DOMAIN bought |-> Plus(bought[n].weight - at[n])]
        traded == [n \in DOMAIN bought |-> Distance(bought[n].weight, at[n])]
    IN  /\ SumOf(added, DOMAIN bought) <= Plus(MaxGross - Invested(book))
        /\ SumOf(traded, DOMAIN bought) <= Plus(TurnoverCap - book.turnover)

\* As long as what is held and always wanted fits the universe, a holding at or under its stop
\* is sold whole by every cycle that ends, whatever the screen thinks of it and the model says
\* (universe.resolve, screen, evaluate_exit, guardrails.apply).
StopsAreHonoured ==
  cycle.at = "done" /\ Cardinality(Pinned(scene)) <= MaxSymbols =>
    \A s \in Held(scene) :
      scene.market[s].close <= scene.book.held[s].stop =>
        s \in DOMAIN Answered.exits /\ Answered.exits[s] = "full"

\* A cycle ends, used or not, as long as no endpoint has lost all its permits to requests that
\* could not be built (AIClient._call, AnalystPool.run).
CyclesEnd == (\A e \in Endpoints : [](leaked[e] < Permits[e])) => []<>~Running

=============================================================================
