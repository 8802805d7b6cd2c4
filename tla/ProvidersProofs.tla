--------------------------- MODULE ProvidersProofs ---------------------------
(***************************************************************************)
(* Theorems about Providers, for every value of its constants: any number  *)
(* of requests and providers, any tiers and windows.                       *)
(***************************************************************************)
EXTENDS Providers, FiniteSetTheorems, SequenceTheorems, WellFoundedInduction, TLAPS

-----------------------------------------------------------------------------
(* The candidate a request is at. *)

\* A set of natural numbers that is not empty has a least one.
LEMMA MinIsThere ==
  ASSUME NEW S \in SUBSET Nat, S # {}
  PROVE  Min(S) \in S
<1>. DEFINE R == OpToRel(<, Nat)
<1>1. IsWellFoundedOn(R, Nat)
  BY NatLessThanWellFounded
<1>. HIDE DEF R
<1>2. \A x, y \in Nat : x < y => <<x, y>> \in R
  BY DEF R, OpToRel
<1>3. PICK x \in S : \A y \in S : ~(<<y, x>> \in R)
  BY <1>1, WFMin
<1>4. \A y \in S : x <= y
  <2>. TAKE y \in S
  <2>1. x \in Nat /\ y \in Nat /\ ~(y < x)
    BY <1>2, <1>3
  <2>. QED  BY <2>1
<1>. QED  BY <1>4 DEF Min

\* As long as candidates are left, the current one is among them.
LEMMA CurrentIsLeft ==
  ASSUME NEW r, req[r].left \subseteq Providers, req[r].left # {}
  PROVE  Current(r) \in req[r].left
<1>. DEFINE S == {n \in DOMAIN Ranked : Ranked[n] \in req[r].left}
<1>1. DOMAIN Ranked \subseteq Nat
  BY ProvidersAssumption
<1>2. S \in SUBSET Nat /\ S # {}
  BY <1>1 DEF Providers, Range
<1>3. Min(S) \in S
  BY <1>2, MinIsThere
<1>. QED  BY <1>3 DEF Current

-----------------------------------------------------------------------------
(* The invariant. *)

\* The parts of a request that steps read and write one by one.
RequestsTyped ==
  /\ DOMAIN req = Requests
  /\ \A r \in Requests :
       /\ DOMAIN req[r] = {"at", "left", "path", "known", "failed", "chosen"}
       /\ req[r].left \subseteq Providers

\* A request that waits has somebody left to wait for, and whoever could have served it when it
\* began has failed it or is still to be tried.
NobodySkipped ==
  \A r \in Requests :
    /\ Waiting(r) => req[r].left # {} /\ req[r].chosen = req[r].failed \cup req[r].left
    /\ req[r].at = "failed" => req[r].failed = req[r].chosen

SlotsTyped == DOMAIN slots = Providers /\ \A p \in Providers : slots[p] \in Int

RouterInv == RequestsTyped /\ NobodySkipped /\ SlotsTyped /\ SlotsAreReturned

\* A request that holds a slot or waits for one is at a provider of the router.
LEMMA CurrentIsProvider ==
  ASSUME RouterInv, NEW r \in Requests, Waiting(r)
  PROVE  Current(r) \in req[r].left /\ Current(r) \in Providers
BY CurrentIsLeft DEF RouterInv, RequestsTyped, NobodySkipped

\* The fields of a request that begins or is over.
LEMMA IdleRequest ==
  /\ Idle.at = "idle" /\ Idle.left = {} /\ Idle.failed = {} /\ Idle.chosen = {}
  /\ DOMAIN Idle = {"at", "left", "path", "known", "failed", "chosen"}
BY DEF Idle

-----------------------------------------------------------------------------
(* What a step does to the slots. *)

Holds(r) == req[r].at \in {"window", "out"}

\* Holders are requests, so there are finitely many.
LEMMA HoldersFinite ==
  ASSUME NEW p
  PROVE  IsFiniteSet(Holders(p)) /\ IsFiniteSet(Holders(p))'
<1>1. IsFiniteSet(Requests) /\ Holders(p) \subseteq Requests /\ Holders(p)' \subseteq Requests
  BY ProvidersAssumption DEF Holders
<1>. QED  BY <1>1, FS_Subset

\* One request changes and holds what it held.
LEMMA SameHolder ==
  ASSUME RouterInv, NEW r \in Requests, UNCHANGED slots,
         DOMAIN req' = Requests, \A x \in Requests \ {r} : req'[x] = req[x],
         Holds(r)' <=> Holds(r), Holds(r) => req'[r].left = req[r].left
  PROVE  SlotsTyped' /\ SlotsAreReturned'
<1>1. \A x \in Requests : (Holds(x)' <=> Holds(x)) /\ (Holds(x) => req'[x].left = req[x].left)
  BY DEF Holds
<1>2. \A x \in Requests : Holds(x) => Current(x)' = Current(x)
  BY <1>1 DEF Current
<1>3. \A p : Holders(p)' = Holders(p)
  BY <1>1, <1>2 DEF Holders, Holds
<1>. QED  BY <1>3 DEF RouterInv, SlotsTyped, SlotsAreReturned

\* One request takes a slot of its current candidate.
LEMMA OneMoreHolder ==
  ASSUME RouterInv, NEW r \in Requests, Waiting(r), ~Holds(r),
         slots' = [slots EXCEPT ![Current(r)] = @ - 1],
         DOMAIN req' = Requests, \A x \in Requests \ {r} : req'[x] = req[x],
         Holds(r)', req'[r].left = req[r].left
  PROVE  SlotsTyped' /\ SlotsAreReturned'
<1>1. PICK q \in Providers : q = Current(r)
  BY CurrentIsProvider
<1>2. \A x \in Requests \ {r} : (Holds(x)' <=> Holds(x)) /\ Current(x)' = Current(x)
  BY DEF Holds, Current
<1>3. Current(r)' = q
  BY <1>1 DEF Current
<1>4. Holders(q)' = Holders(q) \cup {r} /\ r \notin Holders(q)
  BY <1>1, <1>2, <1>3 DEF Holders, Holds
<1>5. \A p \in Providers \ {q} : Holders(p)' = Holders(p)
  BY <1>2, <1>3 DEF Holders, Holds
<1>6. slots'[q] = slots[q] - 1 /\ \A p \in Providers \ {q} : slots'[p] = slots[p]
  BY <1>1 DEF RouterInv, SlotsTyped
<1>7. SlotsTyped'
  BY <1>1, <1>6 DEF RouterInv, SlotsTyped
<1>8. Cardinality(Holders(q)') = Cardinality(Holders(q)) + 1
  BY <1>4, HoldersFinite, FS_AddElement
<1>9. Cardinality(Holders(q)) \in Nat
  BY HoldersFinite, FS_CardinalityType
<1>10. slots[q] + Cardinality(Holders(q)) = Slots[q] /\ slots[q] \in Int
  BY <1>1 DEF RouterInv, SlotsAreReturned, SlotsTyped
<1>11. slots'[q] + Cardinality(Holders(q)') = Slots[q]
  BY <1>6, <1>8, <1>9, <1>10
<1>12. \A p \in Providers \ {q} : slots'[p] + Cardinality(Holders(p)') = Slots[p]
  BY <1>5, <1>6 DEF RouterInv, SlotsAreReturned
<1>. QED  BY <1>7, <1>11, <1>12 DEF SlotsAreReturned

\* One request gives its slot back.
LEMMA OneHolderLess ==
  ASSUME RouterInv, NEW r \in Requests, Holds(r), Release(r),
         DOMAIN req' = Requests, \A x \in Requests \ {r} : req'[x] = req[x],
         ~Holds(r)'
  PROVE  SlotsTyped' /\ SlotsAreReturned'
<1>1. PICK q \in Providers : q = Current(r)
  BY CurrentIsProvider DEF Waiting, Holds
<1>2. \A x \in Requests \ {r} : (Holds(x)' <=> Holds(x)) /\ Current(x)' = Current(x)
  BY DEF Holds, Current
<1>3. Holders(q)' = Holders(q) \ {r} /\ r \in Holders(q)
  BY <1>1, <1>2 DEF Holders, Holds
<1>4. \A p \in Providers \ {q} : Holders(p)' = Holders(p)
  BY <1>1, <1>2 DEF Holders, Holds
<1>5. slots' = [slots EXCEPT ![q] = @ + 1]
  BY <1>1 DEF Release
<1>6. slots'[q] = slots[q] + 1 /\ \A p \in Providers \ {q} : slots'[p] = slots[p]
  BY <1>1, <1>5 DEF RouterInv, SlotsTyped
<1>7. SlotsTyped'
  BY <1>1, <1>5, <1>6 DEF RouterInv, SlotsTyped
<1>8. Cardinality(Holders(q)') = Cardinality(Holders(q)) - 1
  BY <1>3, HoldersFinite, FS_RemoveElement
<1>9. Cardinality(Holders(q)) \in Nat
  BY HoldersFinite, FS_CardinalityType
<1>10. slots[q] + Cardinality(Holders(q)) = Slots[q] /\ slots[q] \in Int
  BY <1>1 DEF RouterInv, SlotsAreReturned, SlotsTyped
<1>11. slots'[q] + Cardinality(Holders(q)') = Slots[q]
  BY <1>6, <1>8, <1>9, <1>10
<1>12. \A p \in Providers \ {q} : slots'[p] + Cardinality(Holders(p)') = Slots[p]
  BY <1>4, <1>6 DEF RouterInv, SlotsAreReturned
<1>. QED  BY <1>7, <1>11, <1>12 DEF SlotsAreReturned

-----------------------------------------------------------------------------
(* Steps. *)

\* One request becomes another, in which nobody was skipped.
LEMMA RequestMoves ==
  ASSUME RouterInv, NEW r \in Requests,
         DOMAIN req' = Requests, \A x \in Requests \ {r} : req'[x] = req[x],
         DOMAIN req'[r] = {"at", "left", "path", "known", "failed", "chosen"},
         req'[r].left \subseteq Providers,
         req'[r].at \in {"permit", "window", "out"} =>
           req'[r].left # {} /\ req'[r].chosen = req'[r].failed \cup req'[r].left,
         req'[r].at = "failed" => req'[r].failed = req'[r].chosen
  PROVE  RequestsTyped' /\ NobodySkipped'
<1>1. RequestsTyped'
  BY DEF RouterInv, RequestsTyped
<1>2. NobodySkipped'
  BY DEF RouterInv, NobodySkipped, Waiting
<1>. QED  BY <1>1, <1>2

\* A request starts with everybody who may serve it.
LEMMA BeginStep ==
  ASSUME RouterInv, NEW r \in Requests, Begin(r)
  PROVE  RouterInv'
<1>1. PICK found : found = Candidates(Wants[r])
  OBVIOUS
<1>2. PICK new : new = [Idle EXCEPT !.at = IF found = {} THEN "failed" ELSE "permit",
                                    !.left = found, !.chosen = found]
  OBVIOUS
<1>3. found \subseteq Providers
  BY <1>1, ProvidersAssumption DEF Candidates
<1>4. /\ DOMAIN new = {"at", "left", "path", "known", "failed", "chosen"}
      /\ new.left = found /\ new.chosen = found /\ new.failed = {}
      /\ new.at = IF found = {} THEN "failed" ELSE "permit"
  BY <1>2, IdleRequest
<1>5. req' = [req EXCEPT ![r] = new] /\ UNCHANGED slots /\ ~Waiting(r)
  BY <1>1, <1>2 DEF Begin
<1>6. DOMAIN req' = Requests /\ req'[r] = new /\ \A x \in Requests \ {r} : req'[x] = req[x]
  BY <1>5 DEF RouterInv, RequestsTyped
<1>7. RequestsTyped' /\ NobodySkipped'
  BY <1>3, <1>4, <1>6, RequestMoves
<1>8. ~Holds(r) /\ ~Holds(r)'
  BY <1>4, <1>5, <1>6 DEF Holds, Waiting
<1>9. SlotsTyped' /\ SlotsAreReturned'
  BY <1>5, <1>6, <1>8, SameHolder
<1>. QED  BY <1>7, <1>9 DEF RouterInv

\* A request on its way keeps its candidates; only the slot makes it a holder.
LEMMA WaitStep ==
  ASSUME RouterInv, NEW r \in Requests, NEW how, TakeSlot(r) \/ Send(r) \/ TryNextPath(r, how)
  PROVE  RouterInv'
<1>1. /\ DOMAIN req' = Requests /\ \A x \in Requests \ {r} : req'[x] = req[x]
      /\ DOMAIN req'[r] = {"at", "left", "path", "known", "failed", "chosen"}
      /\ req'[r].left = req[r].left /\ req'[r].failed = req[r].failed /\ req'[r].chosen = req[r].chosen
      /\ req'[r].at \in {"window", "out"}
  <2>1. CASE TakeSlot(r)
    BY <2>1 DEF TakeSlot, RouterInv, RequestsTyped
  <2>2. CASE Send(r)
    <3>1. PICK known : req' = [req EXCEPT ![r].at = "out", ![r].path = 1, ![r].known = known]
      BY <2>2 DEF Send
    <3>. QED  BY <3>1 DEF RouterInv, RequestsTyped
  <2>3. CASE TryNextPath(r, how)
    <3>1. PICK path, known : req' = [req EXCEPT ![r].path = path, ![r].known = known]
      BY <2>3 DEF TryNextPath
    <3>2. req[r].at = "out"
      BY <2>3 DEF TryNextPath, PathFails
    <3>. QED  BY <3>1, <3>2 DEF RouterInv, RequestsTyped
  <2>. QED  BY <2>1, <2>2, <2>3
<1>2. Waiting(r)
  BY DEF TakeSlot, Send, TryNextPath, PathFails, Waiting
<1>3. req[r].left # {} /\ req[r].chosen = req[r].failed \cup req[r].left /\ req[r].left \subseteq Providers
  BY <1>2 DEF RouterInv, NobodySkipped, RequestsTyped
<1>4. RequestsTyped' /\ NobodySkipped'
  BY <1>1, <1>3, RequestMoves
<1>5. Holds(r)'
  BY <1>1 DEF Holds
<1>6. CASE TakeSlot(r)
  <2>1. ~Holds(r) /\ slots' = [slots EXCEPT ![Current(r)] = @ - 1]
    BY <1>6 DEF TakeSlot, Holds
  <2>2. SlotsTyped' /\ SlotsAreReturned'
    BY <1>1, <1>2, <1>5, <2>1, OneMoreHolder
  <2>. QED  BY <1>4, <2>2 DEF RouterInv
<1>7. CASE Send(r) \/ TryNextPath(r, how)
  <2>1. Holds(r) /\ UNCHANGED slots
    BY <1>7 DEF Send, TryNextPath, PathFails, Holds
  <2>2. SlotsTyped' /\ SlotsAreReturned'
    BY <1>1, <1>5, <2>1, SameHolder
  <2>. QED  BY <1>4, <2>2 DEF RouterInv
<1>. QED  BY <1>6, <1>7

\* A request that is over, by an answer or by being abandoned, holds nothing any more.
LEMMA EndStep ==
  ASSUME RouterInv, NEW r \in Requests, req' = [req EXCEPT ![r] = Idle],
         \/ Holds(r) /\ Release(r)
         \/ ~Holds(r) /\ UNCHANGED slots
  PROVE  RouterInv'
<1>1. DOMAIN req' = Requests /\ req'[r] = Idle /\ \A x \in Requests \ {r} : req'[x] = req[x]
  BY DEF RouterInv, RequestsTyped
<1>2. RequestsTyped' /\ NobodySkipped'
  BY <1>1, IdleRequest, RequestMoves
<1>3. ~Holds(r)'
  BY <1>1, IdleRequest DEF Holds
<1>4. SlotsTyped' /\ SlotsAreReturned'
  <2>1. CASE Holds(r) /\ Release(r)
    BY <1>1, <1>3, <2>1, OneHolderLess
  <2>2. CASE ~Holds(r) /\ UNCHANGED slots
    BY <1>1, <1>3, <2>2, SameHolder
  <2>. QED  BY <2>1, <2>2
<1>. QED  BY <1>2, <1>4 DEF RouterInv

\* Who failed is out of what is left, and remembered.
LEMMA FailOverStep ==
  ASSUME RouterInv, NEW r \in Requests, NEW how, FailOver(r, how)
  PROVE  RouterInv'
<1>1. Holds(r) /\ Waiting(r) /\ Release(r) /\ Onward(r, how)
  BY DEF FailOver, PathFails, Holds, Waiting
<1>2. PICK q \in Providers : q = Current(r) /\ q \in req[r].left
  BY <1>1, CurrentIsProvider
<1>3. PICK rest : rest = req[r].left \ {q}
  OBVIOUS
<1>4. PICK new : new = [Idle EXCEPT !.at = IF rest = {} THEN "failed" ELSE "permit",
                                    !.left = rest, !.chosen = req[r].chosen,
                                    !.failed = req[r].failed \cup {q}]
  OBVIOUS
<1>5. /\ DOMAIN new = {"at", "left", "path", "known", "failed", "chosen"}
      /\ new.at = (IF rest = {} THEN "failed" ELSE "permit") /\ new.left = rest
      /\ new.chosen = req[r].chosen /\ new.failed = req[r].failed \cup {q}
  BY <1>4, IdleRequest
<1>6. req' = [req EXCEPT ![r] = new]
  BY <1>1, <1>2, <1>3, <1>4 DEF Onward
<1>7. req[r].chosen = req[r].failed \cup req[r].left /\ req[r].left \subseteq Providers
  BY <1>1 DEF RouterInv, NobodySkipped, RequestsTyped
<1>8. /\ new.left \subseteq Providers /\ new.chosen = new.failed \cup new.left
      /\ new.at \in {"permit", "window", "out"} => new.left # {}
      /\ new.at = "failed" => new.left = {}
  BY <1>2, <1>3, <1>5, <1>7
<1>9. DOMAIN req' = Requests /\ req'[r] = new /\ \A x \in Requests \ {r} : req'[x] = req[x]
  BY <1>6 DEF RouterInv, RequestsTyped
<1>10. RequestsTyped' /\ NobodySkipped'
  BY <1>5, <1>8, <1>9, RequestMoves
<1>11. ~Holds(r)'
  BY <1>5, <1>9 DEF Holds
<1>12. SlotsTyped' /\ SlotsAreReturned'
  BY <1>1, <1>9, <1>11, OneHolderLess
<1>. QED  BY <1>10, <1>12 DEF RouterInv

-----------------------------------------------------------------------------
(* The theorems about slots and failovers. *)

\* At the start all slots are free and nobody asked for anything.
LEMMA RouterInit == Init => RouterInv
<1>. SUFFICES ASSUME Init PROVE RouterInv
  OBVIOUS
<1>1. \A r \in Requests : req[r] = Idle
  BY DEF Init
<1>2. RequestsTyped /\ NobodySkipped
  BY <1>1, IdleRequest DEF Init, RequestsTyped, NobodySkipped, Waiting
<1>3. SlotsTyped
  BY ProvidersAssumption DEF Init, SlotsTyped
<1>4. ASSUME NEW p \in Providers
      PROVE  slots[p] + Cardinality(Holders(p)) = Slots[p]
  <2>1. Holders(p) = {}
    BY <1>1, IdleRequest DEF Holders
  <2>2. slots[p] = Slots[p] /\ slots[p] \in Int
    BY <1>3 DEF Init, SlotsTyped
  <2>. QED  BY <2>1, <2>2, FS_EmptySet
<1>. QED  BY <1>2, <1>3, <1>4 DEF RouterInv, SlotsAreReturned

\* Every step keeps the invariant.
LEMMA RouterNext ==
  ASSUME RouterInv, [Next]_vars
  PROVE  RouterInv'
<1>1. CASE UNCHANGED <<slots, req>>
  BY <1>1 DEF RouterInv, RequestsTyped, NobodySkipped, SlotsTyped, SlotsAreReturned, Holders, Waiting, Current
<1>2. CASE Tick \/ UNCHANGED vars
  BY <1>1, <1>2 DEF Tick, vars
<1>3. ASSUME NEW r \in Requests, Begin(r)
      PROVE  RouterInv'
  BY <1>3, BeginStep
<1>4. ASSUME NEW r \in Requests, NEW how, TakeSlot(r) \/ Send(r) \/ TryNextPath(r, how)
      PROVE  RouterInv'
  BY <1>4, WaitStep
<1>5. ASSUME NEW r \in Requests, NEW how, Answered(r) \/ UseBuiltIn(r, how) \/ Abandon(r)
      PROVE  RouterInv'
  BY <1>5, EndStep DEF Answered, UseBuiltIn, Abandon, PathFails, Succeed, Holds, Waiting
<1>6. ASSUME NEW r \in Requests, NEW how, FailOver(r, how)
      PROVE  RouterInv'
  BY <1>6, FailOverStep
<1>7. CASE Next
  BY <1>2, <1>3, <1>4, <1>5, <1>6, <1>7, Zenon DEF Next, Answer
<1>. QED  BY <1>2, <1>7

\* Concurrency slots are neither lost nor made up, by any number of overlapping requests that
\* are answered, fall over, run into a 429 or are abandoned (RateLimitGovernor.release).
THEOREM SlotsReturn == Spec => []SlotsAreReturned
<1>1. RouterInv /\ [Next]_vars => RouterInv'
  BY RouterNext
<1>2. RouterInv => SlotsAreReturned
  BY DEF RouterInv
<1>. QED  BY RouterInit, <1>1, <1>2, PTL DEF Spec

\* A request fails only after everybody who could have served it when it began has failed it,
\* for any number of providers (ProviderRouter.execute).
THEOREM FailoverIsComplete == Spec => []FailsOnlyWhenAllFail
<1>1. RouterInv /\ [Next]_vars => RouterInv'
  BY RouterNext
<1>2. RouterInv => FailsOnlyWhenAllFail
  BY DEF RouterInv, NobodySkipped, FailsOnlyWhenAllFail
<1>. QED  BY RouterInit, <1>1, <1>2, PTL DEF Spec

-----------------------------------------------------------------------------
(* Windows. *)

\* The stamps younger than span.
Young(ages, span) == {n \in DOMAIN ages : ages[n] < span}

\* There are finitely many stamps.
LEMMA YoungFinite ==
  ASSUME NEW ages \in Seq(Nat), NEW span \in Nat
  PROVE  IsFiniteSet(Young(ages, span)) /\ Cardinality(Young(ages, span)) \in Nat
<1>1. IsFiniteSet(1 .. Len(ages)) /\ Young(ages, span) \subseteq 1 .. Len(ages)
  <2>1. Len(ages) \in Int /\ DOMAIN ages = 1 .. Len(ages)
    OBVIOUS
  <2>2. IsFiniteSet(1 .. Len(ages))
    BY <2>1, FS_Interval
  <2>. QED  BY <2>1, <2>2 DEF Young
<1>. QED  BY <1>1, FS_Subset, FS_CardinalityType

\* Growing older and leaving by the front, stamps only leave a window.
LEMMA AgedLeaves ==
  ASSUME NEW ages \in Seq(Nat), NEW span \in Nat
  PROVE  /\ Aged(ages) \in Seq(Nat)
         /\ Cardinality(Young(Aged(ages), span)) <= Cardinality(Young(ages, span))
<1>1. PICK gone : gone = Cardinality({n \in DOMAIN ages : ages[n] + 1 >= Day})
  OBVIOUS
<1>2. gone \in Nat /\ gone <= Len(ages)
  <2>1. IsFiniteSet(1 .. Len(ages)) /\ Cardinality(1 .. Len(ages)) = Len(ages)
    <3>1. PICK m \in Nat : m = Len(ages)
      OBVIOUS
    <3>2. IsFiniteSet(1 .. m) /\ Cardinality(1 .. m) = IF 1 > m THEN 0 ELSE m - 1 + 1
      BY FS_Interval
    <3>3. Cardinality(1 .. m) = m
      BY <3>2
    <3>. QED  BY <3>1, <3>2, <3>3
  <2>2. {n \in DOMAIN ages : ages[n] + 1 >= Day} \in SUBSET (1 .. Len(ages))
    OBVIOUS
  <2>. QED  BY <1>1, <2>1, <2>2, FS_Subset, FS_CardinalityType
<1>3. PICK len \in Nat : len = Len(ages) - gone
  BY <1>2
<1>4. /\ Aged(ages) = [n \in 1 .. len |-> ages[n + gone] + 1]
      /\ \A n \in 1 .. len : n + gone \in 1 .. Len(ages) /\ ages[n + gone] \in Nat
  <2>1. Aged(ages) = [n \in 1 .. Len(ages) - gone |-> ages[n + gone] + 1]
    BY <1>1 DEF Aged
  <2>2. Aged(ages) = [n \in 1 .. len |-> ages[n + gone] + 1]
    BY <1>3, <2>1
  <2>3. \A n \in 1 .. len : n + gone \in 1 .. Len(ages)
    BY <1>2, <1>3
  <2>. QED  BY <2>2, <2>3
<1>5. Aged(ages) \in Seq(Nat)
  BY <1>4
<1>6. PICK shift : shift = [n \in Young(Aged(ages), span) |-> n + gone]
  OBVIOUS
<1>7. shift \in Injection(Young(Aged(ages), span), Young(ages, span))
  <2>1. ASSUME NEW n \in Young(Aged(ages), span)
        PROVE  n \in Nat /\ n + gone \in Young(ages, span)
    <3>1. n \in 1 .. len /\ Aged(ages)[n] = ages[n + gone] + 1 /\ Aged(ages)[n] < span
      BY <1>4 DEF Young
    <3>2. n + gone \in DOMAIN ages /\ ages[n + gone] < span
      BY <1>4, <3>1
    <3>. QED  BY <3>1, <3>2 DEF Young
  <2>2. \A m, n \in Young(Aged(ages), span) : m # n => shift[m] # shift[n]
    BY <1>2, <1>6, <2>1
  <2>. QED  BY <1>6, <2>1, <2>2 DEF Injection, IsInjective
<1>8. Cardinality(Young(Aged(ages), span)) <= Cardinality(Young(ages, span))
  BY <1>7, YoungFinite, FS_Injection
<1>. QED  BY <1>5, <1>8

\* A permit is one more stamp in a window.
LEMMA StampedCounts ==
  ASSUME NEW ages \in Seq(Nat), NEW span \in Nat \ {0}
  PROVE  /\ Append(ages, 0) \in Seq(Nat)
         /\ Cardinality(Young(Append(ages, 0), span)) = Cardinality(Young(ages, span)) + 1
<1>1. PICK next : next = Len(ages) + 1
  OBVIOUS
<1>2. Append(ages, 0) \in Seq(Nat) /\ DOMAIN Append(ages, 0) = 1 .. next /\ Append(ages, 0)[next] = 0
      /\ \A n \in 1 .. Len(ages) : Append(ages, 0)[n] = ages[n]
  BY <1>1, AppendProperties
<1>3. Young(Append(ages, 0), span) = Young(ages, span) \cup {next} /\ next \notin Young(ages, span)
  BY <1>1, <1>2 DEF Young
<1>. QED  BY <1>2, <1>3, YoungFinite, FS_AddElement

WindowInv == stamps \in [Providers -> Seq(Nat)] /\ PermitsHold

\* A window in terms of the stamps it counts.
LEMMA WithinCounts ==
  \A p, span : /\ Within(p, span) = Cardinality(Young(stamps[p], span))
               /\ Within(p, span)' = Cardinality(Young(stamps'[p], span))
BY DEF Within, Young

\* A permit is granted only where there is room for one more.
LEMMA SendStep ==
  ASSUME RouterInv, WindowInv, NEW r \in Requests, Send(r)
  PROVE  WindowInv'
<1>1. PICK q \in Providers : q = Current(r)
  BY CurrentIsProvider DEF Send, Waiting
<1>2. CASE UNCHANGED stamps
  BY <1>2 DEF WindowInv, PermitsHold, Within
<1>3. CASE stamps' = [stamps EXCEPT ![q] = Append(@, 0)]
  <2>1. stamps[q] \in Seq(Nat) /\ stamps'[q] = Append(stamps[q], 0)
        /\ \A p \in Providers \ {q} : stamps'[p] = stamps[p]
    BY <1>1, <1>3 DEF WindowInv
  <2>2. stamps' \in [Providers -> Seq(Nat)]
    BY <1>3, <2>1, StampedCounts, ProvidersAssumption DEF WindowInv
  <2>3. ASSUME NEW span \in Nat \ {0}, NEW limit \in Nat, Within(q, span) < limit
        PROVE  Within(q, span)' <= limit
    <3>1. Within(q, span)' = Within(q, span) + 1 /\ Within(q, span) \in Nat
      BY <2>1, StampedCounts, YoungFinite, WithinCounts
    <3>. QED  BY <2>3, <3>1
  <2>4. /\ PerMinute[q] > 0 => Within(q, Minute)' <= PerMinute[q]
        /\ PerDay[q] > 0 => Within(q, Day)' <= PerDay[q]
    <3>1. /\ PerMinute[q] = 0 \/ Within(q, Minute) < PerMinute[q]
          /\ PerDay[q] = 0 \/ Within(q, Day) < PerDay[q]
      BY <1>1 DEF Send, Room
    <3>2. /\ PerMinute[q] \in Nat /\ PerDay[q] \in Nat
          /\ Minute \in Nat \ {0} /\ Day \in Nat \ {0}
      BY ProvidersAssumption
    <3>. QED  BY <2>3, <3>1, <3>2
  <2>5. ASSUME NEW p \in Providers \ {q}, NEW span
        PROVE  Within(p, span)' = Within(p, span)
    BY <2>1, WithinCounts
  <2>6. PermitsHold'
    BY <2>4, <2>5 DEF WindowInv, PermitsHold
  <2>. QED  BY <2>2, <2>6 DEF WindowInv
<1>. QED  BY <1>1, <1>2, <1>3 DEF Send

\* Time takes stamps out of the windows.
LEMMA TickStep ==
  ASSUME WindowInv, Tick
  PROVE  WindowInv'
<1>1. /\ \A p \in Providers : stamps[p] \in Seq(Nat) /\ stamps'[p] = Aged(stamps[p])
      /\ stamps' = [p \in Providers |-> Aged(stamps[p])]
  BY DEF Tick, WindowInv
<1>2. Minute \in Nat /\ Day \in Nat
  BY ProvidersAssumption
<1>3. stamps' \in [Providers -> Seq(Nat)]
  BY <1>1, <1>2, AgedLeaves
<1>4. ASSUME NEW p \in Providers, NEW span \in Nat, NEW limit \in Nat, Within(p, span) <= limit
      PROVE  Within(p, span)' <= limit
  <2>1. /\ Within(p, span) = Cardinality(Young(stamps[p], span))
        /\ Within(p, span)' = Cardinality(Young(Aged(stamps[p]), span))
    BY <1>1, WithinCounts
  <2>2. /\ Within(p, span)' <= Within(p, span)
        /\ Within(p, span) \in Nat /\ Within(p, span)' \in Nat
    BY <1>1, <2>1, AgedLeaves, YoungFinite
  <2>. QED  BY <1>4, <2>2
<1>5. PermitsHold'
  BY <1>2, <1>4, ProvidersAssumption DEF WindowInv, PermitsHold
<1>. QED  BY <1>3, <1>5 DEF WindowInv

\* At the start no permit was granted.
LEMMA WindowInit == Init => WindowInv
<1>. SUFFICES ASSUME Init PROVE WindowInv
  OBVIOUS
<1>1. /\ stamps \in [Providers -> Seq(Nat)]
      /\ \A p \in Providers : stamps[p] = << >>
  BY DEF Init
<1>2. \A p \in Providers : \A span : Within(p, span) = 0
  <2>. TAKE p \in Providers
  <2>. TAKE span
  <2>1. Young(stamps[p], span) = {}
    BY <1>1 DEF Young
  <2>. QED  BY <2>1, WithinCounts, FS_EmptySet
<1>. QED  BY <1>1, <1>2, ProvidersAssumption DEF WindowInv, PermitsHold

\* Every step keeps the windows.
LEMMA WindowNext ==
  ASSUME RouterInv, WindowInv, [Next]_vars
  PROVE  WindowInv'
<1>1. CASE UNCHANGED stamps
  BY <1>1 DEF WindowInv, PermitsHold, Within
<1>2. CASE Tick
  BY <1>2, TickStep
<1>3. ASSUME NEW r \in Requests, NEW how,
             \/ Begin(r) \/ TakeSlot(r) \/ Abandon(r) \/ Answered(r)
             \/ TryNextPath(r, how) \/ UseBuiltIn(r, how) \/ FailOver(r, how)
      PROVE  UNCHANGED stamps
  BY <1>3 DEF Begin, TakeSlot, Abandon, Answered, TryNextPath, UseBuiltIn, FailOver, Succeed
<1>4. ASSUME NEW r \in Requests, Send(r)
      PROVE  WindowInv'
  BY <1>4, SendStep
<1>5. CASE UNCHANGED vars
  BY <1>1, <1>5 DEF vars
<1>6. CASE Next
  BY <1>1, <1>2, <1>3, <1>4, <1>6, Zenon DEF Next, Answer
<1>. QED  BY <1>5, <1>6

\* However many requests overlap and whatever the answers, no governor of a router grants more
\* permits in any minute or in any day than its tier, for any tiers (RateLimitGovernor.acquire,
\* prune).
THEOREM PermitsAreKept == Spec => []PermitsHold
<1>1. RouterInv /\ WindowInv /\ [Next]_vars => RouterInv' /\ WindowInv'
  BY RouterNext, WindowNext
<1>2. WindowInv => PermitsHold
  BY DEF WindowInv
<1>. QED  BY RouterInit, WindowInit, <1>1, <1>2, PTL DEF Spec

=============================================================================
