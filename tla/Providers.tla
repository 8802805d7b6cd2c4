----------------------------- MODULE Providers -----------------------------
(***************************************************************************)
(* Requests for market data over providers that may be slow, limited, sick  *)
(* or not entitled: providers/router.py, governor.py, health.py, http.py     *)
(* and the way adapters fall back between paths (impl/fmp.py).               *)
(*                                                                         *)
(* One router, as build_router makes it, and requests that overlap on it.   *)
(* Time is a tick that ages every stamp, penalty and open breaker, so that  *)
(* it need not be bounded; a timestamp is kept as its age.                  *)
(***************************************************************************)
EXTENDS Integers, Sequences, FiniteSets, FiniteSetsExt, SequencesExt

CONSTANTS
  Requests,
  Wants,        \* Wants[r]: the capability request r asks for
  Ranked,       \* the providers, in the order of their priority
  Available,    \* those enabled and with every credential they require
  Paths,        \* Paths[p][c]: the paths p tries for c, in order; no paths: not supported
  Built,        \* <<p, c>> for which p falls back to a list built into the adapter
  PerMinute, PerDay, Slots,      \* RateLimits of each provider; 0 is unmetered
  Minute, Day,                   \* in ticks
  OpenAfter, Cooldown,           \* of the breaker: failures, ticks
  RetryAfter, MaxBackoff         \* ticks a 429 may ask for (0: it names none), and at most

Providers == Range(Ranked)

ASSUME ProvidersAssumption ==
  /\ Ranked \in Seq(Providers) /\ Available \subseteq Providers
  /\ \A p \in Providers : PerMinute[p] \in Nat /\ PerDay[p] \in Nat
  /\ Slots \in [Providers -> Nat \ {0}]
  /\ IsFiniteSet(Requests)
  /\ Minute \in Nat \ {0} /\ Day \in Nat /\ Minute <= Day
  /\ OpenAfter \in Nat \ {0} /\ Cooldown \in Nat /\ MaxBackoff \in Nat /\ RetryAfter \subseteq Nat

VARIABLES
  slots,     \* slots[p]: what is left of p's concurrency
  stamps,    \* stamps[p]: ages of the permits granted within a day, the oldest first
  penalty,   \* penalty[p]: ticks until p may be called again after a 429
  streak,    \* streak[p]: 429s in a row
  failures,  \* failures[p]: failures in a row
  open,      \* open[p]: ticks since the breaker opened, or -1
  denied,    \* denied[p]: paths p's plan does not have
  req        \* req[r]: where request r is

vars == <<slots, stamps, penalty, streak, failures, open, denied, req>>

-----------------------------------------------------------------------------

\* A request: where it is, the candidates left to try, which of the current one's paths is being
\* tried and whether that path was known to be denied, who failed it and who might have served it.
\* A request that got its answer, or that was abandoned, is idle again.
Idle == [at |-> "idle", left |-> {}, path |-> 1, known |-> FALSE, failed |-> {}, chosen |-> {}]
Waiting(r) == req[r].at \in {"permit", "window", "out"}

\* The best ranked of what is left.
Current(r) == Ranked[Min({n \in DOMAIN Ranked : Ranked[n] \in req[r].left})]
PathsOf(r) == Paths[Current(r)][Wants[r]]

Holders(p) == {r \in Requests : req[r].at \in {"window", "out"} /\ Current(r) = p}

\* state and usable: open until the cooldown is over, then half open to everyone.
Usable(p) == open[p] = -1 \/ open[p] >= Cooldown

\* candidates.
Candidates(c) == {p \in Available : Paths[p][c] # << >> /\ Usable(p)}

Within(p, span) == Cardinality({n \in DOMAIN stamps[p] : stamps[p][n] < span})

\* Fault: permits of the day are not counted.
Room_Minute(p) == PerMinute[p] = 0 \/ Within(p, Minute) < PerMinute[p]

\* _wait_needed: no penalty, and room in every window.
Room(p) ==
  /\ penalty[p] = 0
  /\ PerMinute[p] = 0 \/ Within(p, Minute) < PerMinute[p]
  /\ PerDay[p] = 0 \/ Within(p, Day) < PerDay[p]

-----------------------------------------------------------------------------

\* execute: the candidates are looked up once, before anything is awaited.
Begin(r) ==
  LET found == Candidates(Wants[r])
  IN  /\ ~Waiting(r)
      /\ req' = [req EXCEPT ![r] = [Idle EXCEPT !.at = IF found = {} THEN "failed" ELSE "permit",
                                               !.left = found, !.chosen = found]]
      /\ UNCHANGED <<slots, stamps, penalty, streak, failures, open, denied>>

\* acquire: the semaphore,
TakeSlot(r) ==
  /\ req[r].at = "permit" /\ slots[Current(r)] > 0
  /\ slots' = [slots EXCEPT ![Current(r)] = @ - 1]
  /\ req' = [req EXCEPT ![r].at = "window"]
  /\ UNCHANGED <<stamps, penalty, streak, failures, open, denied>>

\* and under the lock, after sleeping as often as it takes, the windows; the call goes out.
Send(r) ==
  /\ req[r].at = "window" /\ Room(Current(r))
  /\ stamps' = IF PerMinute[Current(r)] + PerDay[Current(r)] = 0 THEN stamps
               ELSE [stamps EXCEPT ![Current(r)] = Append(@, 0)]
  /\ req' = [req EXCEPT ![r].at = "out", ![r].path = 1,
                        ![r].known = PathsOf(r)[1] \in denied[Current(r)]]
  /\ UNCHANGED <<slots, penalty, streak, failures, open, denied>>

Release(r) == slots' = [slots EXCEPT ![Current(r)] = @ + 1]

Succeed(r) ==
  LET p == Current(r)
  IN  /\ Release(r)
      /\ streak' = [streak EXCEPT ![p] = 0]
      /\ failures' = [failures EXCEPT ![p] = 0]
      /\ open' = [open EXCEPT ![p] = -1]
      /\ req' = [req EXCEPT ![r] = Idle]
      /\ UNCHANGED <<stamps, penalty>>

\* An answer: a path known to be denied is not even asked.
Answered(r) ==
  /\ req[r].at = "out" /\ ~req[r].known
  /\ Succeed(r)
  /\ UNCHANGED denied

\* The first path before a built-in list is the one whose answer has to have the right shape.
Strict(r) == req[r].path = 1 /\ <<Current(r), Wants[r]>> \in Built

\* What the adapter learns from how a path failed.
PathFails(r, how) ==
  /\ req[r].at = "out"
  /\ req[r].known => how = "error"
  /\ how = "shape" => Strict(r)
  /\ denied' = IF how = "denied"
               THEN [denied EXCEPT ![Current(r)] = @ \cup {PathsOf(r)[req[r].path]}] ELSE denied

LastPath(r) == req[r].path = Len(PathsOf(r))

\* The adapter swallows the error, a 429 too, and tries its next path under the same permit.
TryNextPath(r, how) ==
  /\ PathFails(r, how) /\ ~LastPath(r) /\ how # "shape"
  /\ req' = [req EXCEPT ![r].path = @ + 1,
                        ![r].known = PathsOf(r)[req[r].path + 1] \in denied'[Current(r)]]
  /\ UNCHANGED <<slots, stamps, penalty, streak, failures, open>>

\* ... or answers from what is built in.
UseBuiltIn(r, how) ==
  /\ PathFails(r, how) /\ LastPath(r) /\ how # "shape"
  /\ <<Current(r), Wants[r]>> \in Built
  /\ Succeed(r)

\* record_failure.
Fail(p) ==
  /\ failures' = [failures EXCEPT ![p] = Min({@ + 1, OpenAfter})]
  /\ open' = [open EXCEPT ![p] = IF failures'[p] >= OpenAfter THEN 0 ELSE @]

\* record_rate_limited: what the answer asks for, or twice as long each time, with a cap, which
\* bounds the streak too.
Penalise(p) ==
  /\ streak' = [streak EXCEPT ![p] = IF 2 ^ @ < MaxBackoff THEN @ + 1 ELSE @]
  /\ \E asked \in RetryAfter :
       penalty' = [penalty EXCEPT ![p] = Min({IF asked > 0 THEN asked ELSE 2 ^ streak'[p], MaxBackoff})]

\* Fault: a 429 ends the request, its provider being busy only.
Onward_Limited(r, how) ==
  LET rest == IF how = "limited" THEN {} ELSE req[r].left \ {Current(r)}
  IN  req' = [req EXCEPT ![r] = [Idle EXCEPT !.at = IF rest = {} THEN "failed" ELSE "permit",
                                             !.left = rest, !.chosen = req[r].chosen,
                                             !.failed = req[r].failed \cup {Current(r)}]]

\* The next candidate, or the end.
Onward(r, how) ==
  LET rest == req[r].left \ {Current(r)}
  IN  req' = [req EXCEPT ![r] = [Idle EXCEPT !.at = IF rest = {} THEN "failed" ELSE "permit",
                                             !.left = rest, !.chosen = req[r].chosen,
                                             !.failed = req[r].failed \cup {Current(r)}]]

\* Nothing to fall back to, or an error that no fallback catches.
Raises(r, how) == how = "shape" \/ (LastPath(r) /\ <<Current(r), Wants[r]>> \notin Built)

\* Fault: only an answer gives the slot back.
FailOver_Holding(r, how) ==
  /\ PathFails(r, how) /\ Raises(r, how)
  /\ UNCHANGED slots /\ Fail(Current(r)) /\ Onward(r, how)
  /\ IF how = "limited" THEN Penalise(Current(r)) ELSE UNCHANGED <<penalty, streak>>
  /\ UNCHANGED stamps

\* The adapter raises.
FailOver(r, how) ==
  /\ PathFails(r, how) /\ Raises(r, how)
  /\ Release(r) /\ Fail(Current(r)) /\ Onward(r, how)
  /\ IF how = "limited" THEN Penalise(Current(r)) ELSE UNCHANGED <<penalty, streak>>
  /\ UNCHANGED stamps

\* What is no ProviderError, or a cancellation wherever the request is, gives back what it holds
\* and leaves without a word to the breaker or to the next candidate.
Abandon(r) ==
  /\ Waiting(r)
  /\ IF req[r].at = "permit" THEN UNCHANGED slots ELSE Release(r)
  /\ req' = [req EXCEPT ![r] = Idle]
  /\ UNCHANGED <<stamps, penalty, streak, failures, open, denied>>

\* Fault: a stamp leaves its window only when nobody waits for it.
Aged_Never(ages) == [n \in DOMAIN ages |-> Min({ages[n] + 1, Minute - 1})]

\* prune: as many of the oldest leave as are as old as the longest window.
Aged(ages) ==
  LET gone == Cardinality({n \in DOMAIN ages : ages[n] + 1 >= Day})
  IN  [n \in 1 .. Len(ages) - gone |-> ages[n + gone] + 1]

Tick ==
  /\ stamps' = [p \in Providers |-> Aged(stamps[p])]
  /\ penalty' = [p \in Providers |-> Max({0, penalty[p] - 1})]
  /\ open' = [p \in Providers |-> IF open[p] \in {-1, Cooldown} THEN open[p] ELSE open[p] + 1]
  /\ UNCHANGED <<slots, streak, failures, denied, req>>

-----------------------------------------------------------------------------

Init ==
  /\ slots = Slots
  /\ stamps = [p \in Providers |-> << >>]
  /\ penalty = [p \in Providers |-> 0]
  /\ streak = [p \in Providers |-> 0]
  /\ failures = [p \in Providers |-> 0]
  /\ open = [p \in Providers |-> -1]
  /\ denied = [p \in Providers |-> {}]
  /\ req = [r \in Requests |-> Idle]

Hows == {"error", "denied", "limited", "shape"}
Answer(r) ==
  \/ Answered(r)
  \/ \E how \in Hows : TryNextPath(r, how) \/ UseBuiltIn(r, how) \/ FailOver(r, how)

Next == Tick \/ \E r \in Requests : Begin(r) \/ TakeSlot(r) \/ Send(r) \/ Answer(r) \/ Abandon(r)

Spec == Init /\ [][Next]_vars

\* Calls time out; the semaphore is first come first served; sleepers wake up with a random
\* jitter, so that none of them finds the window full every time there is room in between.
FairSpec ==
  Spec /\ WF_vars(Tick)
       /\ \A r \in Requests : WF_vars(Answer(r)) /\ SF_vars(TakeSlot(r)) /\ SF_vars(Send(r))

-----------------------------------------------------------------------------
(* Properties. *)

\* However many requests overlap and whatever the answers, no governor of a router grants more
\* permits in any minute or in any day than the tier it was given (RateLimitGovernor.acquire).
\* That bounds permits and not calls: one permit covers every HTTP request of an adapter's
\* operation (TryNextPath takes no other), and each router has governors of its own.
PermitsHold ==
  \A p \in Providers : /\ PerMinute[p] > 0 => Within(p, Minute) <= PerMinute[p]
                       /\ PerDay[p] > 0 => Within(p, Day) <= PerDay[p]

\* Slots are neither lost nor made up: what is free and what requests hold is what there was,
\* through failovers, 429s and paths that are denied (RateLimitGovernor.release in execute).
SlotsAreReturned == \A p \in Providers : slots[p] + Cardinality(Holders(p)) = Slots[p]

\* A request fails only after every provider that could have served it when it began has failed
\* it: one exhausted tier degrades to the next candidate (ProviderRouter.execute).
FailsOnlyWhenAllFail ==
  \A r \in Requests : req[r].at = "failed" => req[r].failed = req[r].chosen

\* A request ends, however limited, penalised or broken the providers are
\* (RateLimitGovernor.acquire waits, ProviderRouter.execute falls over).
RequestsEnd == \A r \in Requests : []<>~Waiting(r)

=============================================================================
