---------------------------- MODULE MarketProofs ----------------------------
(***************************************************************************)
(* Theorems about Market, and about Feed as part of it, for every value of *)
(* their constants: any number of readers, any queue size, any number of   *)
(* events at once; any instruments, classes and owners.                    *)
(*                                                                         *)
(* The bus comes first: what readers get, whatever publishes.  Then the    *)
(* store.  KnownHistoryIsKept is about two steps that lie far apart: a     *)
(* sync reads the rows when it opens its session and writes them when it   *)
(* closes it.  The invariant says what the objects it holds still have in  *)
(* common with the rows in between, whatever days and requests went by.    *)
(***************************************************************************)
EXTENDS Market, SequenceTheorems, TLAPS

-----------------------------------------------------------------------------
(* Numbers of events. *)

EventNumbers == 0 .. Numbers - 1

\* Counting on is the same before and after taking the remainder.
LEMMA ModSucc ==
  ASSUME NEW a \in Nat, NEW N \in Nat \ {0}
  PROVE  (a + 1) % N = ((a % N) + 1) % N
<1>. DEFINE q == a \div N
            r == a % N
<1>1. a = N * (a \div N) + (a % N)
  OBVIOUS
<1>2. a % N \in 0 .. N - 1
  OBVIOUS
<1>3. q \in Int /\ r \in Int
  OBVIOUS
<1>. HIDE DEF q, r
<1>4. CASE r + 1 < N
  <2>1. (r + 1) % N = r + 1
    BY <1>2, <1>3, <1>4 DEF r
  <2>2. (N * q + (r + 1)) % N = r + 1
    BY <1>2, <1>3, <1>4 DEF r
  <2>. QED  BY <2>1, <2>2, <1>1, <1>3 DEF q, r
<1>5. CASE r + 1 = N
  <2>1. (r + 1) % N = 0
    BY <1>5
  <2>2. (N * (q + 1)) % N = 0
    BY <1>3
  <2>3. a + 1 = N * (q + 1)
    BY <1>1, <1>3, <1>5 DEF q, r
  <2>. QED  BY <2>1, <2>2, <2>3, <1>1, <1>3 DEF r
<1>. QED  BY <1>2, <1>3, <1>4, <1>5 DEF r

\* The k-th event after the last one sent has the number after the one before it.
LEMMA FollowingCounts ==
  ASSUME sent \in EventNumbers, NEW k \in Nat
  PROVE  /\ (sent + k) % Numbers \in EventNumbers
         /\ (sent + 0) % Numbers = sent
         /\ (sent + (k + 1)) % Numbers = (((sent + k) % Numbers) + 1) % Numbers
<1>1. Numbers \in Nat \ {0} /\ sent \in Nat /\ sent < Numbers
  BY FeedAssumption DEF EventNumbers
<1>2. (sent + k) % Numbers \in EventNumbers
  BY <1>1 DEF EventNumbers
<1>3. (sent + 0) % Numbers = sent
  BY <1>1
<1>4. sent + (k + 1) = (sent + k) + 1 /\ sent + k \in Nat
  BY <1>1
<1>5. (sent + (k + 1)) % Numbers = (((sent + k) % Numbers) + 1) % Numbers
  BY <1>1, <1>4, ModSucc
<1>. QED  BY <1>2, <1>3, <1>5

-----------------------------------------------------------------------------
(* The invariant of the bus. *)

Sub == [at : {"gone", "attached", "dropped"}, queue : Seq(EventNumbers)]

\* What a subscription holds fits its queue and is without gaps; an attached reader has the last
\* event sent, and who is gone has none.
SubInv(sub, last) ==
  /\ sub \in Sub /\ Len(sub.queue) <= QueueSize
  /\ \A n \in 2 .. Len(sub.queue) : sub.queue[n] = (sub.queue[n - 1] + 1) % Numbers
  /\ sub.at = "attached" /\ sub.queue # << >> => sub.queue[Len(sub.queue)] = last
  /\ sub.at = "gone" => sub.queue = << >>

FeedInv ==
  /\ sent \in EventNumbers /\ DOMAIN subs = Subscribers
  /\ \A s \in Subscribers : SubInv(subs[s], sent)

\* A subscription that is gone.
LEMMA GoneHolds ==
  ASSUME NEW last
  PROVE  SubInv(Gone, last)
<1>1. Gone \in Sub /\ Gone.queue = << >> /\ Gone.at = "gone"
  BY DEF Gone, Sub
<1>2. Len(Gone.queue) = 0 /\ 0 <= QueueSize
  BY <1>1, FeedAssumption
<1>. QED  BY <1>1, <1>2 DEF SubInv

\* Events that are published join a queue at its end, as many as fit.
LEMMA OfferedHolds ==
  ASSUME sent \in EventNumbers, NEW n \in Nat, NEW sub, SubInv(sub, sent)
  PROVE  SubInv(Offered(sub, n), (sent + n) % Numbers)
<1>1. CASE sub.at # "attached"
  BY <1>1 DEF SubInv, Offered
<1>2. CASE sub.at = "attached"
  <2>1. PICK len \in Nat, fit \in Nat, queue \in Seq(EventNumbers) :
          len = Len(sub.queue) /\ fit = Fit(sub, n) /\ queue = sub.queue
    <3>1. sub.queue \in Seq(EventNumbers) /\ Len(sub.queue) <= QueueSize
      BY DEF SubInv, Sub
    <3>2. Len(sub.queue) \in Nat
      BY <3>1
    <3>3. Fit(sub, n) \in Nat
      BY <3>1, <3>2, FeedAssumption DEF Fit
    <3>. QED  BY <3>1, <3>2, <3>3
  <2>2. len + fit <= QueueSize /\ fit <= n /\ QueueSize \in Nat
    <3>1. len <= QueueSize /\ QueueSize \in Nat
      BY <2>1, FeedAssumption DEF SubInv
    <3>2. fit = IF n <= QueueSize - len THEN n ELSE QueueSize - len
      BY <2>1 DEF Fit
    <3>. QED  BY <3>1, <3>2
  <2>3. PICK more : more = Following(fit)
    OBVIOUS
  <2>4. /\ more \in Seq(EventNumbers) /\ Len(more) = fit
        /\ \A k \in 1 .. fit : more[k] = (sent + k) % Numbers
    <3>1. more = [k \in 1 .. fit |-> (sent + k) % Numbers]
      BY <2>3 DEF Following
    <3>2. \A k \in 1 .. fit : (sent + k) % Numbers \in EventNumbers
      BY FollowingCounts
    <3>. QED  BY <3>1, <3>2, <2>1
  <2>5. PICK next : next = queue \o more
    OBVIOUS
  <2>6. /\ next \in Seq(EventNumbers) /\ Len(next) = len + fit
        /\ \A k \in 1 .. len : next[k] = queue[k]
        /\ \A k \in 1 .. fit : next[len + k] = (sent + k) % Numbers
    <3>1. /\ next \in Seq(EventNumbers) /\ Len(next) = len + fit
          /\ \A i \in 1 .. len + fit : next[i] = IF i <= len THEN queue[i] ELSE more[i - len]
      <4>1. Len(queue) = len
        BY <2>1
      <4>2. more \in Seq(EventNumbers) /\ Len(more) = fit
        BY <2>4
      <4>. QED  BY <4>1, <4>2, <2>5, ConcatProperties
    <3>2. \A k \in 1 .. len : next[k] = queue[k]
      BY <3>1, <2>1
    <3>3. \A k \in 1 .. fit : next[len + k] = more[k]
      <4>. TAKE k \in 1 .. fit
      <4>1. len + k \in 1 .. len + fit /\ ~(len + k <= len) /\ (len + k) - len = k
        OBVIOUS
      <4>. QED  BY <3>1, <4>1
    <3>. QED  BY <3>1, <3>2, <3>3, <2>4
  <2>7. \A k \in 2 .. len : queue[k] = (queue[k - 1] + 1) % Numbers
    BY <2>1 DEF SubInv
  <2>8. len > 0 => queue[len] = sent
    BY <1>2, <2>1 DEF SubInv
  <2>9. ASSUME NEW i \in 2 .. len + fit
        PROVE  next[i] = (next[i - 1] + 1) % Numbers
    <3>1. CASE i <= len
      <4>1. i \in 2 .. len /\ i - 1 \in 1 .. len /\ i \in 1 .. len
        BY <2>1, <3>1
      <4>. QED  BY <2>6, <2>7, <4>1
    <3>2. CASE i = len + 1
      <4>1. next[i] = (sent + 1) % Numbers
        <5>1. 1 \in 1 .. fit
          BY <2>1, <3>2
        <5>. QED  BY <5>1, <2>6, <3>2
      <4>2. next[i - 1] = sent
        <5>1. i - 1 = len /\ len \in 1 .. len /\ len > 0
          BY <2>1, <3>2
        <5>. QED  BY <5>1, <2>6, <2>8
      <4>. QED  BY <4>1, <4>2
    <3>3. CASE i > len + 1
      <4>1. PICK k \in Nat : k = i - len - 1 /\ k \in 1 .. fit /\ k + 1 \in 1 .. fit
        <5>1. i \in Nat /\ i <= len + fit
          OBVIOUS
        <5>2. i - len - 1 \in Nat /\ i - len - 1 >= 1 /\ (i - len - 1) + 1 <= fit
          BY <5>1, <3>3
        <5>. QED  BY <5>2
      <4>2. i = len + (k + 1) /\ i - 1 = len + k
        BY <2>1, <4>1
      <4>3. next[i] = (sent + (k + 1)) % Numbers /\ next[i - 1] = (sent + k) % Numbers
        BY <2>6, <4>1, <4>2
      <4>. QED  BY <4>1, <4>3, FollowingCounts
    <3>. QED  BY <2>1, <3>1, <3>2, <3>3
  <2>10. fit = n /\ next # << >> => next[Len(next)] = (sent + n) % Numbers
    <3>. SUFFICES ASSUME fit = n, next # << >>
                  PROVE  next[len + fit] = (sent + n) % Numbers
      BY <2>6
    <3>1. CASE n = 0
      <4>1. len > 0 /\ len \in 1 .. len /\ len + fit = len
        <5>1. Len(next) # 0 /\ Len(next) = len + fit /\ fit = 0
          BY <2>6, <3>1, EmptySeq
        <5>. QED  BY <5>1
      <4>2. next[len] = sent
        BY <4>1, <2>6, <2>8
      <4>. QED  BY <3>1, <4>1, <4>2, FollowingCounts
    <3>2. CASE n > 0
      <4>1. n \in 1 .. fit
        BY <3>2
      <4>. QED  BY <4>1, <2>6
    <3>. QED  BY <3>1, <3>2
  <2>11. Offered(sub, n) = [at |-> IF fit < n THEN "dropped" ELSE "attached", queue |-> next]
    <3>1. Fit(sub, n) = fit /\ sub.queue = queue
      BY <2>1
    <3>2. Following(Fit(sub, n)) = more
      BY <3>1, <2>3, Zenon
    <3>3. sub.queue \o Following(Fit(sub, n)) = next
      BY <3>1, <3>2, <2>5, Zenon
    <3>. QED  BY <1>2, <3>1, <3>3, Zenon DEF Offered
  <2>12. /\ Offered(sub, n) \in Sub /\ Offered(sub, n).queue = next
         /\ Offered(sub, n).at = "attached" => fit = n
         /\ Offered(sub, n).at # "gone"
    BY <2>1, <2>2, <2>6, <2>11 DEF Sub
  <2>. QED  BY <2>2, <2>6, <2>9, <2>10, <2>12 DEF SubInv
<1>. QED  BY <1>1, <1>2

-----------------------------------------------------------------------------
(* Steps of the bus. *)

\* Publishing reaches every subscription.
LEMMA PublishStep ==
  ASSUME FeedInv, NEW n \in Nat, Publish(n)
  PROVE  FeedInv'
<1>1. sent' = (sent + n) % Numbers /\ subs' = [s \in Subscribers |-> Offered(subs[s], n)]
  BY DEF Publish
<1>2. sent' \in EventNumbers
  BY <1>1, FollowingCounts DEF FeedInv
<1>3. \A s \in Subscribers : SubInv(subs'[s], sent')
  BY <1>1, OfferedHolds DEF FeedInv
<1>. QED  BY <1>1, <1>2, <1>3 DEF FeedInv, SubInv, EventNumbers, Sub

\* One subscription becomes another.
LEMMA OneSubscription ==
  ASSUME FeedInv, NEW s \in Subscribers, NEW sub, SubInv(sub, sent),
         subs' = [subs EXCEPT ![s] = sub], UNCHANGED sent
  PROVE  FeedInv'
<1>1. DOMAIN subs' = Subscribers /\ subs'[s] = sub /\ \A x \in Subscribers \ {s} : subs'[x] = subs[x]
  BY DEF FeedInv
<1>2. \A x \in Subscribers : SubInv(subs'[x], sent)
  BY <1>1 DEF FeedInv
<1>. QED  BY <1>1, <1>2 DEF FeedInv, SubInv, EventNumbers, Sub

\* A new reader starts with nothing.
LEMMA SubscribeStep ==
  ASSUME FeedInv, NEW s \in Subscribers, Subscribe(s)
  PROVE  FeedInv'
<1>1. PICK old : old = subs[s] /\ SubInv(old, sent) /\ old.at = "gone"
  BY DEF FeedInv, Subscribe
<1>2. PICK new : new = [old EXCEPT !.at = "attached"]
  OBVIOUS
<1>3. subs' = [subs EXCEPT ![s] = new] /\ UNCHANGED sent
  BY <1>1, <1>2 DEF Subscribe
<1>4. new.at = "attached" /\ new.queue = old.queue /\ new \in Sub /\ old.queue = << >>
  BY <1>1, <1>2 DEF SubInv, Sub
<1>5. SubInv(new, sent)
  BY <1>1, <1>4 DEF SubInv
<1>. QED  BY <1>3, <1>5, OneSubscription

\* A reader takes the oldest event: the rest is as it was, and so is the last.
LEMMA ReadStep ==
  ASSUME FeedInv, NEW s \in Subscribers, Read(s)
  PROVE  FeedInv'
<1>1. PICK old : old = subs[s] /\ SubInv(old, sent) /\ old.queue # << >>
  BY DEF FeedInv, Read
<1>2. PICK new : new = [old EXCEPT !.queue = Tail(old.queue)]
  OBVIOUS
<1>3. subs' = [subs EXCEPT ![s] = new] /\ UNCHANGED sent
  BY <1>1, <1>2 DEF Read
<1>4. PICK queue, rest, len : queue = old.queue /\ rest = Tail(queue) /\ len = Len(queue)
  OBVIOUS
<1>. queue \in Seq(EventNumbers)
  BY <1>1, <1>4 DEF SubInv, Sub
<1>. len \in Nat \ {0}
  BY <1>1, <1>4, EmptySeq
<1>5. /\ rest \in Seq(EventNumbers) /\ Len(rest) = len - 1
      /\ \A i \in 1 .. len - 1 : rest[i] = queue[i + 1]
  BY <1>1, <1>4, HeadTailProperties
<1>6. new.at = old.at /\ new.queue = rest /\ new \in Sub
  BY <1>1, <1>2, <1>4, <1>5 DEF SubInv, Sub
<1>7. Len(rest) <= QueueSize
  BY <1>1, <1>4, <1>5, FeedAssumption DEF SubInv
<1>8. \A n \in 2 .. len - 1 : rest[n] = (rest[n - 1] + 1) % Numbers
  <2>. TAKE n \in 2 .. len - 1
  <2>1. rest[n] = queue[n + 1] /\ rest[n - 1] = queue[n]
    <3>1. n \in 1 .. len - 1 /\ n - 1 \in 1 .. len - 1 /\ (n - 1) + 1 = n
      OBVIOUS
    <3>. QED  BY <1>5, <3>1
  <2>2. queue[n + 1] = (queue[n] + 1) % Numbers
    <3>1. n + 1 \in 2 .. len /\ (n + 1) - 1 = n
      OBVIOUS
    <3>2. \A k \in 2 .. len : queue[k] = (queue[k - 1] + 1) % Numbers
      BY <1>1, <1>4 DEF SubInv
    <3>. QED  BY <3>1, <3>2
  <2>. QED  BY <2>1, <2>2
<1>9. old.at = "attached" /\ rest # << >> => rest[Len(rest)] = sent
  <2>. SUFFICES ASSUME old.at = "attached", rest # << >>
                PROVE  rest[len - 1] = sent
    BY <1>5
  <2>1. len - 1 \in 1 .. len - 1 /\ (len - 1) + 1 = len
    BY <1>5, EmptySeq
  <2>2. queue[len] = sent
    BY <1>1, <1>4 DEF SubInv
  <2>. QED  BY <1>5, <2>1, <2>2
<1>10. old.at # "gone"
  BY <1>1 DEF SubInv
<1>11. SubInv(new, sent)
  BY <1>5, <1>6, <1>7, <1>8, <1>9, <1>10 DEF SubInv
<1>. QED  BY <1>3, <1>11, OneSubscription

\* A reader that leaves takes its queue along.
LEMMA LeaveStep ==
  ASSUME FeedInv, NEW s \in Subscribers, Leave(s)
  PROVE  FeedInv'
BY GoneHolds, OneSubscription DEF Leave

\* Every step of the bus, its readers and the quote stream.
LEMMA FeedStep ==
  ASSUME FeedInv, FeedNext
  PROVE  FeedInv'
<1>1. CASE UNCHANGED <<sent, subs>>
  BY <1>1 DEF FeedInv, SubInv, EventNumbers, Sub
<1>2. CASE \E s \in Subscribers : Subscribe(s) \/ Read(s) \/ Leave(s)
  BY <1>2, SubscribeStep, ReadStep, LeaveStep
<1>3. CASE Elsewhere \/ Tick \/ Disconnect \/ EndRead
  BY <1>3, PublishStep DEF Elsewhere, Tick, Disconnect, EndRead
<1>4. ASSUME NEW available, Loop(available)
      PROVE  FeedInv'
  BY <1>1, <1>4, PublishStep DEF Loop
<1>5. CASE \E available \in BOOLEAN : StartStream(available) \/ Wake(available)
  BY <1>4, <1>5 DEF StartStream, Wake
<1>6. CASE StopStream
  BY <1>1, <1>6 DEF StopStream
<1>7. CASE Replayed
  <2>1. 1 \in Nat /\ 0 + 1 \in Nat /\ Snapshot + 1 \in Nat
    BY FeedAssumption
  <2>. QED  BY <1>7, <2>1, PublishStep DEF Replayed, Connect, Disconnect
<1>. QED  BY <1>2, <1>3, <1>5, <1>6, <1>7 DEF FeedNext

\* A restarted process has no readers and nothing sent.
LEMMA FeedBegins ==
  ASSUME sent' = 0 /\ subs' = [s \in Subscribers |-> Gone]
  PROVE  FeedInv'
<1>1. 0 \in EventNumbers
  BY FeedAssumption DEF EventNumbers
<1>2. \A s \in Subscribers : SubInv(subs'[s], sent')
  BY GoneHolds
<1>. QED  BY <1>1, <1>2 DEF FeedInv, SubInv, EventNumbers, Sub

\* At the start nothing was sent and nobody reads.
LEMMA FeedInitHolds == Init => FeedInv
<1>1. 0 \in EventNumbers
  BY FeedAssumption DEF EventNumbers
<1>. QED  BY <1>1, GoneHolds DEF Init, FeedInit, FeedInv

\* What the passes publish.
LEMMA PassFeedStep ==
  ASSUME FeedInv, PassStep
  PROVE  FeedInv'
<1>1. CASE UNCHANGED <<sent, subs>>
  BY <1>1 DEF FeedInv, SubInv, EventNumbers, Sub
<1>2. CASE ListingFails \/ Load \/ OpenRefresh \/ Finish
  BY <1>1, <1>2 DEF ListingFails, Load, OpenRefresh, Finish
<1>3. ASSUME NEW listed, Discover(listed)
      PROVE  FeedInv'
  BY <1>1, <1>3 DEF Discover
<1>4. ASSUME NEW i, Skip(i) \/ FetchFails(i)
      PROVE  FeedInv'
  BY <1>1, <1>4, PublishStep DEF Skip, FetchFails
<1>5. ASSUME NEW i, NEW age, NEW gap, Fetch(i, age, gap)
      PROVE  FeedInv'
  BY <1>1, <1>5, PublishStep DEF Fetch
<1>6. ASSUME NEW asked, NEW priced, Quoted(asked, priced)
      PROVE  FeedInv'
  BY <1>1, <1>6, PublishStep DEF Quoted
<1>7. ASSUME NEW priced, NEW open, CloseDiscover(priced) \/ CloseRefresh(open, priced)
      PROVE  FeedInv'
  BY <1>6, <1>7 DEF CloseDiscover, CloseRefresh
<1>. QED  BY <1>2, <1>3, <1>4, <1>5, <1>7, Zenon DEF PassStep

\* Every step of the system keeps the invariant.
LEMMA FeedSteps ==
  ASSUME FeedInv, [Next]_vars
  PROVE  FeedInv'
<1>1. CASE UNCHANGED <<sent, subs>>
  BY <1>1 DEF FeedInv, SubInv, EventNumbers, Sub
<1>2. ASSUME NEW named, Sync(named)
      PROVE  FeedInv'
  BY <1>2, PublishStep DEF Sync
<1>3. CASE Refresh \/ Scheduled \/ Fail \/ NewDay
  BY <1>1, <1>3 DEF Refresh, Scheduled, Fail, NewDay
<1>4. CASE Restart
  BY <1>4, FeedBegins DEF Restart, FeedRestart
<1>5. ASSUME NEW i, QuoteRequest(i)
      PROVE  FeedInv'
  BY <1>1, <1>5 DEF QuoteRequest
<1>6. CASE UNCHANGED vars
  BY <1>1, <1>6 DEF vars
<1>7. CASE Next
  BY <1>2, <1>3, <1>4, <1>5, <1>7, PassFeedStep, FeedStep, Zenon DEF Next
<1>. QED  BY <1>6, <1>7

-----------------------------------------------------------------------------
(* The theorem of the bus. *)

\* However slow a reader, no event is missing in the middle of what it gets, and an attached one
\* gets everything up to the last, whatever passes, streams, restarts and other readers do
\* (EventBus.publish, Subscription).
THEOREM NoGaps == Spec => []FeedHasNoGaps
<1>1. FeedInv /\ [Next]_vars => FeedInv'
  BY FeedSteps
<1>2. FeedInv => FeedHasNoGaps
  BY DEF FeedInv, SubInv, FeedHasNoGaps
<1>. QED  BY FeedInitHolds, <1>1, <1>2, PTL DEF Spec


-----------------------------------------------------------------------------
(* Ages. *)

\* Ages are natural numbers, and a bar of a known age stays known as it grows older.
LEMMA AgesGrow ==
  ASSUME NEW age \in Ages
  PROVE  Older(age) \in Ages /\ (Older(age) = Never <=> age = Never)
BY MarketAssumption DEF Ages, Never, Older

\* The newer of two ages is an age, and is known when either is.
LEMMA NewerIsKnown ==
  ASSUME NEW a \in Ages, NEW b \in Ages
  PROVE  Newer(a, b) \in Ages /\ (Newer(a, b) = Never <=> a = Never /\ b = Never)
BY MarketAssumption DEF Ages, Never, Newer

-----------------------------------------------------------------------------
(* The invariant of the store. *)

\* Rows and bars, and the parts of a pass that its steps read and write one by one.
StoreTyped ==
  /\ rows \in [Instruments -> Row] /\ bars \in [Instruments -> Ages]
  /\ DOMAIN pass = DOMAIN NoPass
  /\ pass.held \in [Instruments -> Row] /\ pass.stored \in [Instruments -> Ages]
  /\ pass.listed \subseteq Instruments

\* A row that knows of bars is there, and so are the bars.
RowsHaveBars == \A i \in Instruments : rows[i].last # Never => rows[i].there /\ bars[i] # Never

\* What a session of discover holds is to be a row, knows what the row knows, and what it knows
\* is committed or stored in the session.
HeldIsAhead ==
  pass.at = "discovering" =>
    \A i \in pass.listed :
      /\ pass.held[i].there
      /\ rows[i].last # Never => pass.held[i].last # Never
      /\ pass.held[i].last # Never => bars[i] # Never \/ pass.stored[i] # Never

StoreInv == StoreTyped /\ RowsHaveBars /\ HeldIsAhead

\* What a step does to what is known.
Kept(i) == rows[i].last # Never => rows'[i].there /\ rows'[i].last # Never /\ bars'[i] # Never

-----------------------------------------------------------------------------
(* Steps of the store. *)

\* The empty pass is a pass.
LEMMA NoPassTyped ==
  /\ NoPass.at = "idle" /\ NoPass.listed = {}
  /\ NoPass.held \in [Instruments -> Row] /\ NoPass.stored \in [Instruments -> Ages]
  /\ DOMAIN NoPass = {"at", "plan", "named", "listed", "held", "todo", "stored"}
<1>1. Never \in Ages
  BY MarketAssumption DEF Never, Ages
<1>2. Absent \in Row
  BY <1>1 DEF Absent, Row
<1>. QED  BY <1>1, <1>2 DEF NoPass, NoBars

\* Ending a pass, however it ends, leaves the invariant as it is.
LEMMA ToNoPass ==
  ASSUME StoreInv, pass' = NoPass, UNCHANGED <<rows, bars>>
  PROVE  StoreInv' /\ \A i \in Instruments : Kept(i)
<1>1. StoreTyped' /\ RowsHaveBars' /\ HeldIsAhead'
  BY NoPassTyped DEF StoreInv, StoreTyped, RowsHaveBars, HeldIsAhead
<1>. QED  BY <1>1 DEF StoreInv, RowsHaveBars, Kept

\* A pass that only moves on, outside the sessions of discover, changes nothing the invariant
\* is about.
LEMMA Moving ==
  ASSUME StoreInv, UNCHANGED <<rows, bars>>,
         DOMAIN pass' = DOMAIN pass, pass'.at # "discovering",
         pass'.held \in [Instruments -> Row], pass'.stored \in [Instruments -> Ages],
         pass'.listed \subseteq Instruments
  PROVE  StoreInv' /\ \A i \in Instruments : Kept(i)
<1>1. StoreTyped' /\ RowsHaveBars' /\ HeldIsAhead'
  BY DEF StoreInv, StoreTyped, RowsHaveBars, HeldIsAhead
<1>. QED  BY <1>1 DEF StoreInv, RowsHaveBars, Kept

\* A pass begins outside any session.
LEMMA BeginStep ==
  ASSUME StoreInv, NEW plan, NEW named, Begin(plan, named)
  PROVE  StoreInv' /\ \A i \in Instruments : Kept(i)
<1>1. /\ DOMAIN pass' = DOMAIN pass /\ pass'.at = "between" /\ pass'.listed = NoPass.listed
      /\ pass'.held = NoPass.held /\ pass'.stored = NoPass.stored
  BY NoPassTyped DEF Begin, StoreInv, StoreTyped
<1>. QED  BY <1>1, NoPassTyped, Moving DEF Begin

\* A session of discover takes the rows as they are.
LEMMA DiscoverStep ==
  ASSUME StoreInv, NEW listed \in SUBSET Instruments, Discover(listed)
  PROVE  StoreInv' /\ \A i \in Instruments : Kept(i)
<1>1. New \in Row /\ New.there /\ New.last = Never /\ Absent \in Row
  <2>1. Never \in Ages
    BY MarketAssumption DEF Never, Ages
  <2>. QED  BY <2>1 DEF New, Absent, Row
<1>2. /\ DOMAIN pass' = DOMAIN pass /\ pass'.at = "discovering" /\ pass'.listed = listed
      /\ pass'.stored = pass.stored
      /\ pass'.held = [i \in Instruments |-> IF i \notin listed THEN Absent
                                           ELSE IF rows[i].there THEN rows[i] ELSE New]
      /\ UNCHANGED <<rows, bars>>
  BY NoPassTyped DEF Discover, StoreInv, StoreTyped
<1>3. StoreTyped' /\ RowsHaveBars'
  BY <1>1, <1>2 DEF StoreInv, StoreTyped, RowsHaveBars
<1>4. HeldIsAhead'
  BY <1>1, <1>2 DEF StoreInv, StoreTyped, RowsHaveBars, HeldIsAhead
<1>. QED  BY <1>2, <1>3, <1>4 DEF StoreInv, RowsHaveBars, Kept

\* What refresh_all loads belongs to no session.
LEMMA LoadStep ==
  ASSUME StoreInv, Load
  PROVE  StoreInv' /\ \A i \in Instruments : Kept(i)
<1>1. /\ DOMAIN pass' = DOMAIN pass /\ pass'.at = "between" /\ pass'.listed = Tracked
      /\ pass'.stored = pass.stored /\ pass'.held = [i \in Instruments |-> rows[i]]
  BY NoPassTyped DEF Load, StoreInv, StoreTyped
<1>2. pass'.held \in [Instruments -> Row] /\ pass'.listed \subseteq Instruments
  BY <1>1 DEF StoreInv, StoreTyped, Tracked
<1>. QED  BY <1>1, <1>2, Moving DEF Load, StoreInv, StoreTyped

\* A session of refresh_all works on what was loaded.
LEMMA OpenRefreshStep ==
  ASSUME StoreInv, OpenRefresh
  PROVE  StoreInv' /\ \A i \in Instruments : Kept(i)
<1>1. /\ DOMAIN pass' = DOMAIN pass /\ pass'.at = "refreshing" /\ pass'.listed = pass.listed
      /\ pass'.stored = pass.stored /\ pass'.held = pass.held
  BY NoPassTyped DEF OpenRefresh, StoreInv, StoreTyped
<1>. QED  BY <1>1, Moving DEF OpenRefresh, StoreInv, StoreTyped

\* A listing that does not come changes nothing.
LEMMA ListingFailsStep ==
  ASSUME StoreInv, ListingFails
  PROVE  StoreInv' /\ \A i \in Instruments : Kept(i)
<1>1. /\ DOMAIN pass' = DOMAIN pass /\ pass'.at = "between" /\ pass'.listed = pass.listed
      /\ pass'.stored = pass.stored /\ pass'.held = pass.held
  BY NoPassTyped DEF ListingFails, StoreInv, StoreTyped
<1>. QED  BY <1>1, Moving DEF ListingFails, StoreInv, StoreTyped

\* A skipped instrument and a fetch that fails only shorten what is left to do.
LEMMA TodoStep ==
  ASSUME StoreInv, NEW i \in Instruments, Skip(i) \/ FetchFails(i)
  PROVE  StoreInv' /\ \A j \in Instruments : Kept(j)
<1>1. /\ DOMAIN pass' = DOMAIN pass /\ pass'.at = pass.at /\ pass'.listed = pass.listed
      /\ pass'.stored = pass.stored /\ pass'.held = pass.held
      /\ UNCHANGED <<rows, bars>>
  BY NoPassTyped DEF Skip, FetchFails, StoreInv, StoreTyped
<1>2. StoreTyped' /\ RowsHaveBars' /\ HeldIsAhead'
  BY <1>1 DEF StoreInv, StoreTyped, RowsHaveBars, HeldIsAhead
<1>. QED  BY <1>1, <1>2 DEF StoreInv, RowsHaveBars, Kept

\* Bars that arrive make what is held newer and are stored with it.
LEMMA FetchStep ==
  ASSUME StoreInv, NEW i \in Instruments, NEW age \in Ages, NEW gap, Fetch(i, age, gap)
  PROVE  StoreInv' /\ \A j \in Instruments : Kept(j)
<1>. DEFINE held == pass.held
            stored == pass.stored
<1>1. /\ held \in [Instruments -> Row] /\ stored \in [Instruments -> Ages]
      /\ held[i] \in Row /\ held[i].last \in Ages /\ stored[i] \in Ages
  BY DEF StoreInv, StoreTyped, Row
<1>2. /\ DOMAIN pass' = DOMAIN pass /\ pass'.at = pass.at /\ pass'.listed = pass.listed
      /\ pass'.stored = [stored EXCEPT ![i] = Newer(@, age)]
      /\ pass'.held = [held EXCEPT ![i].last = Newer(@, age)]
      /\ UNCHANGED <<rows, bars>>
  BY NoPassTyped DEF Fetch, StoreInv, StoreTyped
<1>3. /\ Newer(held[i].last, age) \in Ages /\ Newer(stored[i], age) \in Ages
      /\ Newer(held[i].last, age) = Never <=> held[i].last = Never /\ age = Never
      /\ Newer(stored[i], age) = Never <=> stored[i] = Never /\ age = Never
  BY <1>1, NewerIsKnown
<1>. HIDE DEF held, stored
<1>4. /\ pass'.held \in [Instruments -> Row] /\ pass'.stored \in [Instruments -> Ages]
      /\ pass'.held[i].there = held[i].there /\ pass'.held[i].last = Newer(held[i].last, age)
      /\ pass'.stored[i] = Newer(stored[i], age)
      /\ \A j \in Instruments \ {i} : pass'.held[j] = held[j] /\ pass'.stored[j] = stored[j]
  BY <1>1, <1>2, <1>3 DEF Row
<1>5. StoreTyped' /\ RowsHaveBars'
  BY <1>2, <1>4 DEF StoreInv, StoreTyped, RowsHaveBars
<1>6. HeldIsAhead'
  <2>. SUFFICES ASSUME pass.at = "discovering", NEW j \in pass.listed
                PROVE  /\ pass'.held[j].there
                       /\ rows[j].last # Never => pass'.held[j].last # Never
                       /\ pass'.held[j].last # Never => bars[j] # Never \/ pass'.stored[j] # Never
    BY <1>2 DEF HeldIsAhead
  <2>1. /\ j \in Instruments /\ held[j].there
        /\ rows[j].last # Never => held[j].last # Never
        /\ held[j].last # Never => bars[j] # Never \/ stored[j] # Never
    BY DEF StoreInv, StoreTyped, HeldIsAhead, held, stored
  <2>2. CASE j = i
    BY <2>1, <2>2, <1>3, <1>4
  <2>3. CASE j # i
    BY <2>1, <2>3, <1>4
  <2>. QED  BY <2>2, <2>3
<1>. QED  BY <1>2, <1>5, <1>6 DEF StoreInv, RowsHaveBars, Kept

\* The end of a session of discover: what goes is what the rows knew nothing of.
LEMMA CloseDiscoverStep ==
  ASSUME StoreInv, NEW priced \in SUBSET Instruments, CloseDiscover(priced)
  PROVE  StoreInv' /\ \A i \in Instruments : Kept(i)
<1>. DEFINE kept == pass.listed \ Blind
            held == pass.held
            stored == pass.stored
<1>1. /\ held \in [Instruments -> Row] /\ stored \in [Instruments -> Ages]
      /\ rows \in [Instruments -> Row] /\ bars \in [Instruments -> Ages]
      /\ pass.listed \subseteq Instruments /\ Blind \subseteq pass.listed
      /\ \A i \in Blind : held[i].last = Never
  BY DEF StoreInv, StoreTyped, Blind
<1>2. /\ \A i \in pass.listed : held[i].there /\ (rows[i].last # Never => held[i].last # Never)
      /\ \A i \in pass.listed : held[i].last # Never => bars[i] # Never \/ stored[i] # Never
      /\ \A i \in Instruments : rows[i].last # Never => rows[i].there /\ bars[i] # Never
  BY DEF CloseDiscover, StoreInv, HeldIsAhead, RowsHaveBars
<1>3. /\ rows' = [i \in Instruments |->
                   IF i \in Blind THEN Absent
                   ELSE IF i \in kept THEN [held[i] EXCEPT !.priced = rows[i].priced \/ i \in priced]
                   ELSE rows[i]]
      /\ bars' = [i \in Instruments |-> IF i \in Blind THEN Never ELSE Newer(bars[i], stored[i])]
      /\ DOMAIN pass' = DOMAIN pass /\ pass'.at = "between" /\ pass'.listed = {}
      /\ pass'.held = NoPass.held /\ pass'.stored = NoPass.stored
  BY NoPassTyped DEF CloseDiscover, StoreInv, StoreTyped
<1>. HIDE DEF kept, held, stored
<1>4. ASSUME NEW i \in Instruments
      PROVE  /\ rows'[i] \in Row /\ bars'[i] \in Ages
             /\ rows'[i].last # Never => rows'[i].there /\ bars'[i] # Never
             /\ Kept(i)
  <2>1. /\ Never \in Ages /\ held[i] \in Row /\ rows[i] \in Row
        /\ bars[i] \in Ages /\ stored[i] \in Ages
    BY <1>1, MarketAssumption DEF Ages, Never
  <2>2. /\ Newer(bars[i], stored[i]) \in Ages
        /\ Newer(bars[i], stored[i]) = Never <=> bars[i] = Never /\ stored[i] = Never
    BY <2>1, NewerIsKnown
  <2>3. CASE i \in Blind
    <3>1. rows'[i] = Absent /\ bars'[i] = Never /\ Absent \in Row /\ Absent.last = Never
      BY <1>3, <2>1, <2>3 DEF Absent, Row
    <3>2. rows[i].last = Never
      BY <1>1, <1>2, <2>3
    <3>. QED  BY <2>1, <3>1, <3>2 DEF Kept
  <2>4. CASE i \in kept
    <3>1. i \notin Blind /\ i \in pass.listed
      BY <2>4 DEF kept
    <3>2. /\ rows'[i] = [held[i] EXCEPT !.priced = rows[i].priced \/ i \in priced]
          /\ bars'[i] = Newer(bars[i], stored[i])
      BY <1>3, <2>4, <3>1
    <3>3. /\ rows'[i] \in Row /\ rows'[i].last = held[i].last /\ rows'[i].there = held[i].there
      BY <2>1, <3>2 DEF Row
    <3>. QED  BY <1>2, <2>2, <3>1, <3>2, <3>3 DEF Kept
  <2>5. CASE i \notin Blind /\ i \notin kept
    BY <1>2, <1>3, <2>1, <2>2, <2>5 DEF Kept
  <2>. QED  BY <2>3, <2>4, <2>5
<1>5. rows' \in [Instruments -> Row] /\ bars' \in [Instruments -> Ages]
  BY <1>3, <1>4
<1>6. StoreTyped'
  BY <1>3, <1>5, NoPassTyped DEF StoreInv, StoreTyped
<1>7. RowsHaveBars' /\ HeldIsAhead'
  BY <1>3, <1>4 DEF RowsHaveBars, HeldIsAhead
<1>. QED  BY <1>4, <1>6, <1>7 DEF StoreInv

\* The end of a session of refresh_all adds bars and leaves the rows alone.
LEMMA CloseRefreshStep ==
  ASSUME StoreInv, NEW priced \in SUBSET Instruments, NEW open, CloseRefresh(open, priced)
  PROVE  StoreInv' /\ \A i \in Instruments : Kept(i)
<1>. DEFINE held == pass.held
            stored == pass.stored
<1>1. /\ held \in [Instruments -> Row] /\ stored \in [Instruments -> Ages]
      /\ rows \in [Instruments -> Row] /\ bars \in [Instruments -> Ages]
      /\ \A i \in Instruments : rows[i].last # Never => rows[i].there /\ bars[i] # Never
  BY DEF StoreInv, StoreTyped, RowsHaveBars
<1>2. /\ bars' = [i \in Instruments |-> Newer(bars[i], stored[i])] /\ rows' = rows
      /\ DOMAIN pass' = DOMAIN pass /\ pass'.at = "between" /\ pass'.listed = pass.listed
      /\ pass'.stored = NoBars
      /\ pass'.held = [i \in Instruments |->
                         [held[i] EXCEPT !.priced = held[i].priced \/ i \in priced]]
  <2>1. /\ bars' = [i \in Instruments |-> Newer(bars[i], stored[i])] /\ rows' = rows
        /\ DOMAIN pass' = DOMAIN pass /\ pass'.at = "between" /\ pass'.listed = pass.listed
        /\ pass'.stored = NoBars
    BY NoPassTyped DEF CloseRefresh, StoreInv, StoreTyped
  <2>2. pass'.held = [i \in Instruments |->
                        [held[i] EXCEPT !.priced = held[i].priced \/ i \in priced]]
    BY NoPassTyped DEF CloseRefresh, StoreInv, StoreTyped
  <2>. QED  BY <2>1, <2>2
<1>. HIDE DEF held, stored
<1>3. ASSUME NEW i \in Instruments
      PROVE  /\ bars'[i] \in Ages /\ (bars[i] # Never => bars'[i] # Never)
             /\ [held[i] EXCEPT !.priced = @ \/ i \in priced] \in Row
  <2>1. held[i] \in Row /\ bars[i] \in Ages /\ stored[i] \in Ages
    BY <1>1
  <2>2. /\ Newer(bars[i], stored[i]) \in Ages
        /\ Newer(bars[i], stored[i]) = Never <=> bars[i] = Never /\ stored[i] = Never
    BY <2>1, NewerIsKnown
  <2>. QED  BY <1>2, <2>1, <2>2 DEF Row
<1>4. NoBars \in [Instruments -> Ages]
  BY MarketAssumption DEF NoBars, Ages, Never
<1>5. StoreTyped'
  BY <1>1, <1>2, <1>3, <1>4 DEF StoreInv, StoreTyped
<1>6. RowsHaveBars' /\ HeldIsAhead'
  BY <1>1, <1>2, <1>3 DEF RowsHaveBars, HeldIsAhead
<1>. QED  BY <1>1, <1>2, <1>3, <1>5, <1>6 DEF StoreInv, Kept

\* A day makes everything older and forgets nothing.
LEMMA NewDayStep ==
  ASSUME StoreInv, NewDay
  PROVE  StoreInv' /\ \A i \in Instruments : Kept(i)
<1>. DEFINE held == pass.held
            stored == pass.stored
            aged(r) == [r EXCEPT !.last = Older(@), !.priced = FALSE]
<1>1. /\ held \in [Instruments -> Row] /\ stored \in [Instruments -> Ages]
      /\ rows \in [Instruments -> Row] /\ bars \in [Instruments -> Ages]
  BY DEF StoreInv, StoreTyped
<1>2. /\ rows' = [i \in Instruments |-> aged(rows[i])]
      /\ bars' = [i \in Instruments |-> Older(bars[i])]
      /\ DOMAIN pass' = DOMAIN pass /\ pass'.at = pass.at /\ pass'.listed = pass.listed
      /\ pass'.held = [i \in Instruments |-> aged(held[i])]
      /\ pass'.stored = [i \in Instruments |-> Older(stored[i])]
  BY NoPassTyped DEF NewDay, StoreInv, StoreTyped
<1>3. ASSUME NEW r \in Row
      PROVE  aged(r) \in Row /\ aged(r).there = r.there /\ (aged(r).last = Never <=> r.last = Never)
  <2>1. r.last \in Ages
    BY DEF Row
  <2>2. Older(r.last) \in Ages /\ (Older(r.last) = Never <=> r.last = Never)
    BY <2>1, AgesGrow
  <2>3. aged(r).last = Older(r.last) /\ aged(r).there = r.there
    BY DEF Row
  <2>4. aged(r) \in Row
    BY <2>2 DEF Row
  <2>. QED  BY <2>2, <2>3, <2>4
<1>. HIDE DEF held, stored, aged
<1>4. ASSUME NEW i \in Instruments
      PROVE  /\ rows'[i] \in Row /\ bars'[i] \in Ages /\ pass'.held[i] \in Row /\ pass'.stored[i] \in Ages
             /\ rows'[i].there = rows[i].there /\ (rows'[i].last = Never <=> rows[i].last = Never)
             /\ pass'.held[i].there = held[i].there
             /\ (pass'.held[i].last = Never <=> held[i].last = Never)
             /\ (bars'[i] = Never <=> bars[i] = Never)
             /\ (pass'.stored[i] = Never <=> stored[i] = Never)
  <2>1. rows[i] \in Row /\ held[i] \in Row /\ bars[i] \in Ages /\ stored[i] \in Ages
    BY <1>1
  <2>2. /\ rows'[i] = aged(rows[i]) /\ pass'.held[i] = aged(held[i])
        /\ bars'[i] = Older(bars[i]) /\ pass'.stored[i] = Older(stored[i])
    BY <1>2
  <2>3. /\ aged(rows[i]) \in Row /\ aged(rows[i]).there = rows[i].there
        /\ (aged(rows[i]).last = Never <=> rows[i].last = Never)
    BY <1>3, <2>1
  <2>4. /\ aged(held[i]) \in Row /\ aged(held[i]).there = held[i].there
        /\ (aged(held[i]).last = Never <=> held[i].last = Never)
    BY <1>3, <2>1
  <2>. QED  BY <2>1, <2>2, <2>3, <2>4, AgesGrow
<1>5. StoreTyped'
  BY <1>2, <1>4 DEF StoreInv, StoreTyped
<1>6. RowsHaveBars'
  BY <1>4 DEF StoreInv, RowsHaveBars
<1>7. HeldIsAhead'
  BY <1>2, <1>4 DEF StoreInv, StoreTyped, HeldIsAhead, held, stored
<1>. QED  BY <1>4, <1>5, <1>6, <1>7 DEF StoreInv, RowsHaveBars, Kept

\* A quote touches the price only.
LEMMA QuoteStep ==
  ASSUME StoreInv, NEW i \in Instruments, QuoteRequest(i)
  PROVE  StoreInv' /\ \A j \in Instruments : Kept(j)
<1>1. /\ rows \in [Instruments -> Row] /\ rows' = [rows EXCEPT ![i].priced = TRUE]
      /\ UNCHANGED <<bars, pass>>
  BY DEF QuoteRequest, StoreInv, StoreTyped
<1>2. /\ rows' \in [Instruments -> Row]
      /\ \A j \in Instruments : rows'[j].there = rows[j].there /\ rows'[j].last = rows[j].last
  BY <1>1 DEF Row
<1>3. StoreTyped' /\ RowsHaveBars' /\ HeldIsAhead'
  BY <1>1, <1>2 DEF StoreInv, StoreTyped, RowsHaveBars, HeldIsAhead
<1>. QED  BY <1>1, <1>2, <1>3 DEF StoreInv, RowsHaveBars, Kept

-----------------------------------------------------------------------------
(* The theorems of the store. *)

\* At the start no instrument is known.
LEMMA StoreInit == Init => StoreInv
<1>. SUFFICES ASSUME Init PROVE StoreInv
  OBVIOUS
<1>1. Never \in Ages
  BY MarketAssumption DEF Never, Ages
<1>2. Absent \in Row /\ Absent.last = Never
  BY <1>1 DEF Absent, Row
<1>3. StoreTyped
  BY <1>1, <1>2, NoPassTyped DEF Init, StoreTyped, NoBars
<1>4. RowsHaveBars /\ HeldIsAhead
  BY <1>2, NoPassTyped DEF Init, RowsHaveBars, HeldIsAhead
<1>. QED  BY <1>3, <1>4 DEF StoreInv

\* Every step of the system keeps the invariant and what is known of an instrument.
LEMMA StoreNext ==
  ASSUME StoreInv, [Next]_vars
  PROVE  StoreInv' /\ \A i \in Instruments : Kept(i)
<1>1. CASE UNCHANGED <<rows, bars, pass>>
  BY <1>1 DEF StoreInv, StoreTyped, RowsHaveBars, HeldIsAhead, Kept
<1>2. CASE \E named \in BOOLEAN : Sync(named)
  BY <1>2, BeginStep DEF Sync
<1>3. CASE Refresh \/ Scheduled
  BY <1>3, BeginStep DEF Refresh, Scheduled
<1>4. CASE PassStep
  <2>1. CASE ListingFails \/ Load \/ OpenRefresh
    BY <2>1, ListingFailsStep, LoadStep, OpenRefreshStep
  <2>2. CASE Finish
    BY <2>2, ToNoPass DEF Finish
  <2>3. CASE \E listed \in SUBSET Instruments : Discover(listed)
    BY <2>3, DiscoverStep
  <2>4. CASE \E i \in Instruments : Skip(i) \/ FetchFails(i)
    BY <2>4, TodoStep
  <2>5. CASE \E i \in Instruments : \E age \in Ages, gap \in BOOLEAN : Fetch(i, age, gap)
    BY <2>5, FetchStep
  <2>6. CASE \E priced \in SUBSET Instruments : CloseDiscover(priced)
    BY <2>6, CloseDiscoverStep
  <2>7. CASE \E priced \in SUBSET Instruments : \E open \in BOOLEAN : CloseRefresh(open, priced)
    BY <2>7, CloseRefreshStep
  <2>. QED  BY <1>4, <2>1, <2>2, <2>3, <2>4, <2>5, <2>6, <2>7 DEF PassStep
<1>5. CASE Fail \/ Restart
  BY <1>5, ToNoPass DEF Fail, Restart
<1>6. CASE NewDay
  BY <1>6, NewDayStep
<1>7. CASE \E i \in Instruments : QuoteRequest(i)
  BY <1>7, QuoteStep
<1>8. CASE FeedNext /\ UNCHANGED marketVars
  BY <1>1, <1>8 DEF marketVars
<1>9. CASE UNCHANGED vars
  BY <1>1, <1>9 DEF vars
<1>. QED  BY <1>2, <1>3, <1>4, <1>5, <1>6, <1>7, <1>8, <1>9 DEF Next

\* However passes, requests, days, failures and restarts interleave: a row that knows of bars
\* has them (not the converse: bars may be stored that their row does not know of), and where a
\* row knows of bars, so does the object a running sync holds of it
\* (MarketDataService.discover, _track_symbols).
THEOREM StoreInvariant == Spec => []StoreInv
<1>1. Init => StoreInv
  BY StoreInit
<1>2. StoreInv /\ [Next]_vars => StoreInv'
  BY StoreNext
<1>. QED  BY <1>1, <1>2, PTL DEF Spec

\* An instrument whose history is on record keeps its row and its bars over a sync that gets
\* nothing for it, a pass that fails and a process that dies, for any number of instruments,
\* classes and owners (MarketDataService._track_symbols, Database.session).
THEOREM HistoryKept == Spec => KnownHistoryIsKept
<1>1. StoreInv /\ [Next]_vars =>
        [\A i \in Instruments : rows[i].last # Never =>
           rows'[i].there /\ rows'[i].last # Never /\ bars'[i] # Never]_vars
  BY StoreNext DEF Kept
<1>. QED  BY <1>1, StoreInvariant, PTL DEF Spec, KnownHistoryIsKept

-----------------------------------------------------------------------------
(* The flag and the pass: what single flight relies on. *)

Plans == Range(Classes) \cup {"load", "refresh"}

\* The flag is set exactly while there is a pass; what it still has to ask for is asked for in
\* a session.
PassInv ==
  /\ running \in BOOLEAN /\ (pass.at # "idle") = running
  /\ pass.at \in Stages /\ pass.named \in BOOLEAN
  /\ pass.plan \in Seq(Plans) /\ pass.todo \subseteq pass.listed
  /\ pass.at \in {"idle", "between"} => pass.todo = {}
  /\ pass.at \in {"discovering", "refreshing"} => pass.plan # << >>
  /\ stream \in [at : {"off", "replaying", "reading", "waiting"}, stop : BOOLEAN]

\* The fields of the empty pass.
LEMMA NoPassIdle ==
  /\ DOMAIN NoPass = {"at", "plan", "named", "listed", "held", "todo", "stored"}
  /\ NoPass.at = "idle" /\ NoPass.plan = << >> /\ NoPass.named = FALSE
  /\ NoPass.listed = {} /\ NoPass.todo = {}
BY DEF NoPass

\* The plans with which passes begin.
LEMMA PlansAreSequences ==
  /\ << >> \in Seq(Plans) /\ Classes \in Seq(Plans)
  /\ Refreshing \in Seq(Plans) /\ Discovering \o Refreshing \in Seq(Plans)
<1>1. << >> \in Seq(Plans) /\ <<"load">> \in Seq(Plans)
  BY DEF Plans
<1>2. Classes \in Seq(Plans)
  <2>1. Classes \in Seq(Range(Classes)) /\ Range(Classes) \subseteq Plans
    BY MarketAssumption DEF Plans
  <2>. QED  BY <2>1
<1>3. [n \in 1 .. Owners |-> "refresh"] \in Seq(Plans)
  <2>1. Owners \in Nat /\ "refresh" \in Plans
    BY MarketAssumption DEF Plans
  <2>. QED  BY <2>1
<1>4. Refreshing \in Seq(Plans)
  BY <1>1, <1>3, ConcatProperties DEF Refreshing
<1>5. Discovering \in Seq(Plans)
  <2>1. PICK len \in Nat : len = Len(Classes)
    BY <1>2
  <2>2. Owners * len \in Nat
    BY <2>1, MarketAssumption
  <2>3. ASSUME NEW n \in 1 .. Owners * len
        PROVE  Classes[1 + ((n - 1) % len)] \in Plans
    <3>1. len # 0
      BY <2>1, <2>3, MarketAssumption
    <3>2. 1 + ((n - 1) % len) \in 1 .. len
      <4>1. n - 1 \in Nat /\ len \in Nat \ {0}
        BY <2>1, <2>2, <3>1
      <4>2. (n - 1) % len \in 0 .. len - 1
        BY <4>1
      <4>. QED  BY <4>2, <2>1
    <3>. QED  BY <1>2, <2>1, <3>2, ElementOfSeq
  <2>. QED  BY <2>1, <2>2, <2>3 DEF Discovering
<1>. QED  BY <1>1, <1>2, <1>4, <1>5, ConcatProperties

\* What is left of a plan is a plan.
LEMMA TailOfPlan ==
  ASSUME NEW plan \in Seq(Plans), plan # << >>
  PROVE  Tail(plan) \in Seq(Plans)
BY HeadTailProperties

\* A pass begins with a plan and nothing to ask for yet.
LEMMA BeginPassStep ==
  ASSUME PassInv, NEW plan \in Seq(Plans), NEW named \in BOOLEAN, Begin(plan, named)
  PROVE  PassInv'
<1>1. /\ pass'.at = "between" /\ pass'.plan = plan /\ pass'.named = named
      /\ pass'.listed = {} /\ pass'.todo = {} /\ running' = TRUE /\ stream' = stream
  BY NoPassIdle DEF Begin
<1>. QED  BY <1>1 DEF PassInv, Stages, Plans

\* A pass that is over leaves the flag clear.
LEMMA PassEnds ==
  ASSUME PassInv, pass' = NoPass, running' = FALSE,
         stream' \in [at : {"off", "replaying", "reading", "waiting"}, stop : BOOLEAN]
  PROVE  PassInv'
BY NoPassIdle, PlansAreSequences DEF PassInv, Stages, Plans

\* The steps of a pass.
LEMMA PassSteps ==
  ASSUME PassInv, StoreInv, PassStep
  PROVE  PassInv'
<1>. DOMAIN pass = {"at", "plan", "named", "listed", "held", "todo", "stored"}
  BY NoPassIdle DEF StoreInv, StoreTyped
<1>1. CASE ListingFails
  <2>1. /\ pass'.at = "between" /\ pass'.plan = Tail(pass.plan) /\ pass'.named = pass.named
        /\ pass'.listed = pass.listed /\ pass'.todo = pass.todo /\ UNCHANGED <<running, stream>>
        /\ Tail(pass.plan) \in Seq(Plans) /\ pass.at = "between"
    BY <1>1, TailOfPlan DEF ListingFails, PassInv
  <2>. QED  BY <2>1 DEF PassInv, Stages, Plans
<1>2. ASSUME NEW listed \in SUBSET Instruments, Discover(listed)
      PROVE  PassInv'
  <2>1. /\ pass'.at = "discovering" /\ pass'.plan = pass.plan /\ pass'.named = pass.named
        /\ pass'.listed = listed /\ pass'.todo = listed /\ UNCHANGED <<running, stream>>
        /\ pass.at = "between" /\ pass.plan # << >>
    BY <1>2 DEF Discover
  <2>. QED  BY <2>1 DEF PassInv, Stages, Plans
<1>3. CASE Load
  <2>1. /\ pass'.at = "between" /\ pass'.plan = (IF Tracked = {} THEN << >> ELSE Tail(pass.plan))
        /\ pass'.named = pass.named /\ pass'.todo = pass.todo /\ UNCHANGED <<running, stream>>
        /\ pass.at = "between" /\ pass.plan # << >>
    BY <1>3 DEF Load
  <2>2. pass'.plan \in Seq(Plans)
    BY <2>1, TailOfPlan, PlansAreSequences DEF PassInv
  <2>. QED  BY <2>1, <2>2 DEF PassInv, Stages, Plans
<1>4. CASE OpenRefresh
  <2>1. /\ pass'.at = "refreshing" /\ pass'.plan = pass.plan /\ pass'.named = pass.named
        /\ pass'.listed = pass.listed /\ pass'.todo = pass.listed /\ UNCHANGED <<running, stream>>
        /\ pass.at = "between" /\ pass.plan # << >>
    BY <1>4 DEF OpenRefresh
  <2>. QED  BY <2>1 DEF PassInv, Stages, Plans
<1>5. CASE Finish
  BY <1>5, PassEnds DEF Finish, PassInv
<1>6. ASSUME NEW i \in Instruments, Skip(i) \/ FetchFails(i) \/
             \E age \in Ages, gap \in BOOLEAN : Fetch(i, age, gap)
      PROVE  PassInv'
  <2>1. /\ pass'.at = pass.at /\ pass'.plan = pass.plan /\ pass'.named = pass.named
        /\ pass'.listed = pass.listed /\ pass'.todo = pass.todo \ {i} /\ UNCHANGED <<running, stream>>
    BY <1>6 DEF Skip, FetchFails, Fetch
  <2>. QED  BY <2>1 DEF PassInv, Stages, Plans
<1>7. ASSUME NEW priced \in SUBSET Instruments, CloseDiscover(priced)
      PROVE  PassInv'
  <2>1. /\ pass'.at = "between" /\ pass'.plan = Tail(pass.plan) /\ pass'.named = pass.named
        /\ pass'.listed = {} /\ pass'.todo = {} /\ UNCHANGED <<running, stream>>
        /\ pass.at = "discovering"
    BY <1>7, NoPassIdle DEF CloseDiscover
  <2>. QED  BY <2>1, TailOfPlan DEF PassInv, Stages, Plans
<1>8. ASSUME NEW priced \in SUBSET Instruments, NEW open \in BOOLEAN, CloseRefresh(open, priced)
      PROVE  PassInv'
  <2>1. /\ pass'.at = "between" /\ pass'.plan = Tail(pass.plan) /\ pass'.named = pass.named
        /\ pass'.listed = pass.listed /\ pass'.todo = {} /\ UNCHANGED <<running, stream>>
        /\ pass.at = "refreshing"
    BY <1>8 DEF CloseRefresh
  <2>. QED  BY <2>1, TailOfPlan DEF PassInv, Stages, Plans
<1>. QED  BY <1>1, <1>2, <1>3, <1>4, <1>5, <1>6, <1>7, <1>8 DEF PassStep

\* The quote stream only moves between its places.
LEMMA StreamMoves ==
  ASSUME PassInv, FeedNext
  PROVE  stream' \in [at : {"off", "replaying", "reading", "waiting"}, stop : BOOLEAN]
<1>. DEFINE Places == [at : {"off", "replaying", "reading", "waiting"}, stop : BOOLEAN]
<1>1. stream \in Places /\ NoStream \in Places
  BY DEF PassInv, NoStream
<1>2. /\ [stream EXCEPT !.at = "replaying"] \in Places
      /\ [stream EXCEPT !.at = "reading"] \in Places
      /\ [stream EXCEPT !.at = "waiting"] \in Places
      /\ [stream EXCEPT !.stop = TRUE] \in Places
  BY <1>1
<1>. SUFFICES stream' \in Places
  OBVIOUS
<1>. HIDE DEF Places
<1>3. CASE \E s \in Subscribers : Subscribe(s) \/ Read(s) \/ Leave(s)
  BY <1>1, <1>2, <1>3 DEF Subscribe, Read, Leave
<1>4. CASE Elsewhere \/ Tick \/ EndRead \/ StopStream
  BY <1>1, <1>2, <1>4 DEF Elsewhere, Tick, EndRead, StopStream
<1>5. CASE \E available \in BOOLEAN : StartStream(available) \/ Wake(available)
  BY <1>1, <1>2, <1>5 DEF StartStream, Wake, Loop
<1>6. CASE Replayed \/ Disconnect
  BY <1>1, <1>2, <1>6 DEF Replayed, Connect, Disconnect
<1>. QED  BY <1>3, <1>4, <1>5, <1>6 DEF FeedNext

\* Every step of the system keeps the flag and the pass together.
LEMMA PassNext ==
  ASSUME PassInv, StoreInv, [Next]_vars
  PROVE  PassInv'
<1>. DOMAIN pass = {"at", "plan", "named", "listed", "held", "todo", "stored"}
  BY NoPassIdle DEF StoreInv, StoreTyped
<1>1. CASE UNCHANGED <<running, pass, stream>>
  BY <1>1 DEF PassInv, Stages, Plans
<1>2. CASE (\E named \in BOOLEAN : Sync(named)) \/ Refresh \/ Scheduled
  <2>1. \E plan \in Seq(Plans), named \in BOOLEAN : Begin(plan, named)
    <3>1. << >> \o Refreshing = Refreshing
      BY PlansAreSequences, ConcatEmptySeq
    <3>. QED  BY <1>2, <3>1, PlansAreSequences DEF Sync, Refresh, Scheduled
  <2>. QED  BY <2>1, BeginPassStep
<1>3. CASE Fail
  BY <1>3, PassEnds DEF Fail, PassInv
<1>4. CASE Restart
  BY <1>4, PassEnds DEF Restart, FeedRestart, NoStream
<1>5. CASE NewDay
  <2>1. /\ pass'.at = pass.at /\ pass'.plan = pass.plan /\ pass'.named = pass.named
        /\ pass'.listed = pass.listed /\ pass'.todo = pass.todo /\ UNCHANGED <<running, stream>>
    BY <1>5 DEF NewDay
  <2>. QED  BY <2>1 DEF PassInv, Stages, Plans
<1>6. CASE \E i \in Instruments : QuoteRequest(i)
  BY <1>1, <1>6 DEF QuoteRequest
<1>7. CASE FeedNext /\ UNCHANGED marketVars
  BY <1>7, StreamMoves DEF marketVars, PassInv, Stages, Plans
<1>8. CASE UNCHANGED vars
  BY <1>1, <1>8 DEF vars
<1>. QED  BY <1>2, <1>3, <1>4, <1>5, <1>6, <1>7, <1>8, PassSteps DEF Next

\* The invariants give the types.
LEMMA TypesFollow ==
  ASSUME PassInv, StoreInv, FeedInv
  PROVE  TypeOK
<1>1. Range(pass.plan) \subseteq Plans
  BY RangeOfSeq DEF PassInv, Range
<1>2. ASSUME NEW s \in Subscribers
      PROVE  /\ subs[s].at \in {"gone", "attached", "dropped"}
             /\ Len(subs[s].queue) <= QueueSize
             /\ \A n \in DOMAIN subs[s].queue : subs[s].queue[n] \in 0 .. Numbers - 1
  <2>1. subs[s] \in Sub /\ Len(subs[s].queue) <= QueueSize
    BY DEF FeedInv, SubInv
  <2>2. PICK queue \in Seq(EventNumbers) : queue = subs[s].queue
    BY <2>1 DEF Sub
  <2>3. \A n \in DOMAIN queue : queue[n] \in EventNumbers
    BY LenProperties
  <2>. QED  BY <2>1, <2>2, <2>3 DEF Sub, EventNumbers
<1>3. FeedTypeOK
  BY <1>2 DEF FeedInv, PassInv, FeedTypeOK, EventNumbers
<1>. QED  BY <1>1, <1>3 DEF PassInv, StoreInv, StoreTyped, TypeOK, Plans

\* The types hold and the single-flight flag is set exactly while a pass is in flight, however
\* passes, failures, days and restarts interleave: a pass that dies never leaves the flag behind,
\* and none is in flight behind a clear one (MarketSyncJob.start, _run).
THEOREM MarketTypes == Spec => []TypeOK
<1>1. Init => PassInv
  <2>1. FALSE \in BOOLEAN /\ NoStream \in [at : {"off", "replaying", "reading", "waiting"}, stop : BOOLEAN]
    BY DEF NoStream
  <2>. QED  BY <2>1, NoPassIdle, PlansAreSequences DEF Init, FeedInit, PassInv, Stages, Plans
<1>2. PassInv /\ StoreInv /\ [Next]_vars => PassInv'
  BY PassNext
<1>3. FeedInv /\ [Next]_vars => FeedInv'
  BY FeedSteps
<1>4. PassInv /\ StoreInv /\ FeedInv => TypeOK
  BY TypesFollow
<1>. QED  BY StoreInvariant, FeedInitHolds, <1>1, <1>2, <1>3, <1>4, PTL DEF Spec

=============================================================================
