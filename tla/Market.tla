------------------------------- MODULE Market -------------------------------
(***************************************************************************)
(* The instrument and bar store and the passes that fill it:               *)
(* marketdata/service.py, refresh.py and jobs.py, the market routes, and   *)
(* the scheduler's market job.  What a pass records goes to the bus (Feed) *)
(* while its transaction is still open.                                    *)
(*                                                                         *)
(* A pass walks sessions one after the other; what a session wrote is seen *)
(* by others when it commits.  Between two of its requests anything else   *)
(* may happen: the date changes, quotes are asked for, the process dies.   *)
(*                                                                         *)
(* Of an instrument's history the newest stored bar is kept, as an age in  *)
(* trading days: 0 is today, Never is no bar at all.  The row of an        *)
(* instrument says what it knows of its bars (`last` for first_bar_date    *)
(* and last_bar_date, written together) and whether its price is fresh.    *)
(***************************************************************************)
EXTENDS Feed, Functions

CONSTANTS
  Instruments,
  Classes,     \* the asset classes, in the order a pass walks them
  ClassOf,     \* ClassOf[i]: the asset class of instrument i
  Owners,      \* how many owners of portfolios there are
  StaleAfter,  \* bars older than this are asked for again (MAX_STALE_DAYS + 1)
  Old,         \* bound of the model: the oldest age told from older ones
  Discovers    \* whether scheduled passes discover (market_discovery_enabled)

ASSUME MarketAssumption ==
  /\ Classes \in Seq(Range(Classes))
  /\ ClassOf \in [Instruments -> Range(Classes)] /\ Range(ClassOf) = Range(Classes)
  /\ Owners \in Nat /\ StaleAfter \in Nat /\ Old \in Nat /\ Old > StaleAfter
  /\ Discovers \in BOOLEAN

Never == Old + 1
Ages == 0 .. Never

VARIABLES
  rows,     \* rows[i]: the committed row of instrument i
  bars,     \* bars[i]: the age of its newest committed bar
  running,  \* what the single-flight job says of itself
  pass      \* the pass in flight

marketVars == <<rows, bars, running, pass>>
vars == <<rows, bars, running, pass, sent, subs, stream>>

-----------------------------------------------------------------------------
(* Rows and objects. *)

Absent == [there |-> FALSE, last |-> Never, priced |-> FALSE]
New == [Absent EXCEPT !.there = TRUE]
Row == [there : BOOLEAN, last : Ages, priced : BOOLEAN]

Tracked == {i \in Instruments : rows[i].there}
Newer(a, b) == IF a < b THEN a ELSE b
Older(age) == IF age < Old THEN age + 1 ELSE age
NoBars == [i \in Instruments |-> Never]

IsStale(row) == row.last > StaleAfter

\* A pass: where it is, the sessions it still has to open, whether symbols were named for it,
\* the objects it holds, the instruments it has to ask for, and the bars its session stored.
Stages == {"idle", "between", "discovering", "refreshing"}
NoPass == [at |-> "idle", plan |-> << >>, named |-> FALSE, listed |-> {},
           held |-> [i \in Instruments |-> Absent], todo |-> {}, stored |-> NoBars]
InSession == pass.at \in {"discovering", "refreshing"}

-----------------------------------------------------------------------------
(* Starting passes. *)

Refreshing == <<"load">> \o [n \in 1 .. Owners |-> "refresh"]
\* All classes once for each owner.
Discovering == [n \in 1 .. Owners * Len(Classes) |-> Classes[1 + ((n - 1) % Len(Classes))]]

Begin(plan, named) ==
  /\ ~running
  /\ running' = TRUE
  /\ pass' = [NoPass EXCEPT !.at = "between", !.plan = plan, !.named = named]
  /\ UNCHANGED <<rows, bars, stream>>

\* POST /market/sync, by name or over the listings; it records that it began.
Sync(named) == Begin(Classes, named) /\ Publish(1)

\* POST /market/refresh.
Refresh == Begin(Refreshing, FALSE) /\ UNCHANGED <<sent, subs>>

\* The scheduler's job; while a pass runs it does nothing.
Scheduled ==
  /\ Begin((IF Discovers THEN Discovering ELSE << >>) \o Refreshing, FALSE)
  /\ UNCHANGED <<sent, subs>>

-----------------------------------------------------------------------------
(* Sessions. *)

Session == Head(pass.plan)

\* The listing of a class does not come: the rest of the pass goes on.
ListingFails ==
  /\ pass.at = "between" /\ pass.plan # << >> /\ Session \in Range(Classes) /\ ~pass.named
  /\ pass' = [pass EXCEPT !.plan = Tail(@)]
  /\ UNCHANGED <<rows, bars, running, sent, subs, stream>>

\* discover opens a session and tracks what is listed, or what was named; rows it finds and
\* rows it adds belong to the session.
Discover(listed) ==
  /\ pass.at = "between" /\ pass.plan # << >> /\ Session \in Range(Classes)
  /\ \A i \in listed : ClassOf[i] = Session
  /\ pass.named => listed # {}
  /\ pass' = [pass EXCEPT !.at = "discovering", !.listed = listed, !.todo = listed,
                          !.held = [i \in Instruments |->
                                      IF i \notin listed THEN Absent
                                      ELSE IF rows[i].there THEN rows[i] ELSE New]]
  /\ UNCHANGED <<rows, bars, running, sent, subs, stream>>

\* refresh_all loads what is tracked in a session it closes at once: the objects stay usable
\* and belong to no session any more.
Load ==
  /\ pass.at = "between" /\ pass.plan # << >> /\ Session = "load"
  /\ pass' = [pass EXCEPT !.listed = Tracked, !.held = [i \in Instruments |-> rows[i]],
                          !.plan = IF Tracked = {} THEN << >> ELSE Tail(@)]
  /\ UNCHANGED <<rows, bars, running, sent, subs, stream>>

\* One session for each owner, over the same objects.
OpenRefresh ==
  /\ pass.at = "between" /\ pass.plan # << >> /\ Session = "refresh"
  /\ pass' = [pass EXCEPT !.at = "refreshing", !.todo = pass.listed]
  /\ UNCHANGED <<rows, bars, running, sent, subs, stream>>

\* refresh_bars: what is not stale is skipped unless it was named.
Skip(i) ==
  /\ InSession /\ i \in pass.todo
  /\ ~pass.named /\ ~IsStale(pass.held[i])
  /\ pass' = [pass EXCEPT !.todo = @ \ {i}]
  /\ UNCHANGED <<rows, bars, running, sent, subs, stream>>

\* _store_bars, and an event if sessions are missing between the bars.
Fetch(i, age, gap) ==
  /\ InSession /\ i \in pass.todo
  /\ pass.named \/ IsStale(pass.held[i])
  /\ age # Never \/ ~gap
  /\ pass' = [pass EXCEPT !.todo = @ \ {i}, !.stored[i] = Newer(@, age), !.held[i].last = Newer(@, age)]
  /\ IF gap THEN Publish(1) ELSE UNCHANGED <<sent, subs>>
  /\ UNCHANGED <<rows, bars, running, stream>>

\* No provider answers for the bars of i.
FetchFails(i) ==
  /\ InSession /\ i \in pass.todo
  /\ pass.named \/ IsStale(pass.held[i])
  /\ pass' = [pass EXCEPT !.todo = @ \ {i}]
  /\ Publish(1)
  /\ UNCHANGED <<rows, bars, running, stream>>

\* Fault: what no bars came for in this pass is removed, whatever is stored of it.
Blind_Failed == IF pass.named THEN {i \in pass.listed : pass.stored[i] = Never} ELSE {}

\* What a sync by name removes again, with everything that refers to it.
Blind == IF pass.named THEN {i \in pass.listed : pass.held[i].last = Never} ELSE {}

\* Quotes for the instruments asked: any of them may be in the answer, or no provider answers.
Quoted(asked, priced) ==
  IF asked = {} THEN priced = {} /\ UNCHANGED <<sent, subs>>
  ELSE \/ UNCHANGED <<sent, subs>>
       \/ priced = {} /\ Publish(1)

\* The end of a session of discover: removal, quotes, commit.
CloseDiscover(priced) ==
  LET kept == pass.listed \ Blind
  IN  /\ pass.at = "discovering" /\ pass.todo = {}
      /\ priced \subseteq kept /\ Quoted(kept, priced)
      /\ rows' = [i \in Instruments |->
                    IF i \in Blind THEN Absent
                    ELSE IF i \in kept
                      THEN [pass.held[i] EXCEPT !.priced = rows[i].priced \/ i \in priced]
                    ELSE rows[i]]
      /\ bars' = [i \in Instruments |-> IF i \in Blind THEN Never ELSE Newer(bars[i], pass.stored[i])]
      /\ pass' = [NoPass EXCEPT !.at = "between", !.plan = Tail(pass.plan), !.named = pass.named]
      /\ UNCHANGED <<running, stream>>

\* The end of a session of refresh_all.  Bars were added to the session and are committed;
\* dates and prices were set on objects the session does not know.
CloseRefresh(open, priced) ==
  LET asked == {i \in pass.listed : open \/ ~pass.held[i].priced}
  IN  /\ pass.at = "refreshing" /\ pass.todo = {}
      /\ priced \subseteq asked /\ Quoted(asked, priced)
      /\ bars' = [i \in Instruments |-> Newer(bars[i], pass.stored[i])]
      /\ pass' = [pass EXCEPT !.at = "between", !.plan = Tail(@), !.stored = NoBars,
                              !.held = [i \in Instruments |->
                                         [pass.held[i] EXCEPT !.priced = @ \/ i \in priced]]]
      /\ UNCHANGED <<rows, running, stream>>

Finish ==
  /\ pass.at = "between" /\ pass.plan = << >>
  /\ running' = FALSE
  /\ pass' = NoPass
  /\ UNCHANGED <<rows, bars, sent, subs, stream>>

\* Fault: only a pass that ends well clears the flag.
Fail_Stuck ==
  /\ pass.at # "idle"
  /\ pass' = NoPass
  /\ UNCHANGED <<rows, bars, running, sent, subs, stream>>

\* Anything else that is raised (the database, an adapter) ends the pass; its session rolls
\* back, and what earlier ones committed stays.
Fail ==
  /\ pass.at # "idle"
  /\ running' = FALSE
  /\ pass' = NoPass
  /\ UNCHANGED <<rows, bars, sent, subs, stream>>

-----------------------------------------------------------------------------
(* Everything else. *)

\* The date changes under a pass or between passes.
NewDay ==
  LET aged(r) == [r EXCEPT !.last = Older(@), !.priced = FALSE]
      agedBars(b) == [i \in Instruments |-> Older(b[i])]
  IN  /\ rows' = [i \in Instruments |-> aged(rows[i])]
      /\ bars' = agedBars(bars)
      /\ pass' = [pass EXCEPT !.held = [i \in Instruments |-> aged(@[i])], !.stored = agedBars(@)]
      /\ UNCHANGED <<running, sent, subs, stream>>

\* GET /market/quotes in a session of its own, and the prices cycles and orders ask for.
QuoteRequest(i) ==
  /\ i \in Tracked
  /\ rows' = [rows EXCEPT ![i].priced = TRUE]
  /\ UNCHANGED <<bars, running, pass, sent, subs, stream>>

Restart ==
  /\ running' = FALSE
  /\ pass' = NoPass
  /\ FeedRestart
  /\ UNCHANGED <<rows, bars>>

-----------------------------------------------------------------------------

Init ==
  /\ rows = [i \in Instruments |-> Absent]
  /\ bars = NoBars
  /\ running = FALSE
  /\ pass = NoPass
  /\ FeedInit

PassStep ==
  \/ ListingFails \/ Load \/ OpenRefresh \/ Finish
  \/ \E listed \in SUBSET Instruments : Discover(listed)
  \/ \E i \in Instruments : \/ Skip(i) \/ FetchFails(i)
                            \/ \E age \in Ages, gap \in BOOLEAN : Fetch(i, age, gap)
  \/ \E priced \in SUBSET Instruments : \/ CloseDiscover(priced)
                                        \/ \E open \in BOOLEAN : CloseRefresh(open, priced)

Next ==
  \/ \E named \in BOOLEAN : Sync(named)
  \/ Refresh \/ Scheduled \/ PassStep \/ Fail
  \/ NewDay \/ Restart
  \/ \E i \in Instruments : QuoteRequest(i)
  \/ FeedNext /\ UNCHANGED marketVars

Spec == Init /\ [][Next]_vars

\* Every request has a time limit, and the event loop goes on: a pass takes its next step, a
\* replay ends, a wait is over, a stop is seen.  Nobody has to trade, publish or read.
FairSpec ==
  /\ Spec
  /\ WF_vars(PassStep)
  /\ WF_vars(Replayed /\ UNCHANGED marketVars)
  /\ WF_vars((\E available \in BOOLEAN : Wake(available)) /\ UNCHANGED marketVars)
  /\ WF_vars(EndRead /\ UNCHANGED marketVars)

-----------------------------------------------------------------------------
(* Properties. *)

TypeOK ==
  /\ rows \in [Instruments -> Row] /\ bars \in [Instruments -> Ages]
  /\ running \in BOOLEAN
  /\ pass.at \in Stages /\ pass.named \in BOOLEAN
  /\ Range(pass.plan) \subseteq Range(Classes) \cup {"load", "refresh"}
  /\ pass.listed \subseteq Instruments /\ pass.todo \subseteq pass.listed
  /\ pass.held \in [Instruments -> Row] /\ pass.stored \in [Instruments -> Ages]
  /\ (pass.at # "idle") = running
  /\ FeedTypeOK

\* An instrument whose history is on record keeps it: a sync that asks for it by name and gets
\* nothing, a pass that fails half way and a process that dies leave row and bars in place
\* (MarketDataService._track_symbols, Database.session).
KnownHistoryIsKept ==
  [][\A i \in Instruments : rows[i].last # Never =>
       rows'[i].there /\ rows'[i].last # Never /\ bars'[i] # Never]_vars

\* A pass that began is over some day, and then another may begin, however it ended
\* (MarketSyncJob.start, _run).
PassesEnd == running ~> ~running

\* What refresh.py's comment says of a name whose first fetch failed: a refresh that brings its
\* bars makes it known, so a tracked instrument with bars has them on its row
\* (MarketSync.refresh_all).
RefreshRecovers == \A i \in Instruments : rows[i].there /\ bars[i] # Never => rows[i].last # Never

=============================================================================
