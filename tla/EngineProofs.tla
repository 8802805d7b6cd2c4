---------------------------- MODULE EngineProofs ----------------------------
(***************************************************************************)
(* Theorems about Engine, for every value of its constants: any number of  *)
(* portfolios, instruments, callers and processes, and any of the bounds.  *)
(*                                                                         *)
(* First the locks.  Mutual exclusion does not follow from their being     *)
(* taken: it needs that a lock is given back by nobody but the cycle that  *)
(* took it, by a commit or by the death of its process; so the invariant   *)
(* says whose each lock is.                                                *)
(*                                                                         *)
(* Then the books.  What a cycle decided minutes ago is still allowed when *)
(* it is placed, and still when it is committed, because nobody but a      *)
(* cycle of the same portfolio raises a stop, marks a position or enters   *)
(* one, and the locks keep those apart; passes and users only close        *)
(* positions and take orders away.                                         *)
(***************************************************************************)
EXTENDS Engine, FiniteSetTheorems, SequenceTheorems, WellFoundedInduction, TLAPS

-----------------------------------------------------------------------------
(* The invariant. *)

\* The parts of a turn that steps read and write one by one.
Fields == {"at", "p", "plan", "pending", "new"}
TurnsTyped ==
  /\ DOMAIN turn = Callers /\ DOMAIN held = Range(Process)
  /\ \A c \in Callers : DOMAIN turn[c] = Fields

\* What the callers in a cycle hold, of one process and of all.
Taken(cs) == {turn[c].p : c \in {x \in cs : InCycle(x)}}
CallersOf(s) == {c \in Callers : Process[c] = s}

\* A lock is held exactly while a cycle it was taken for is in flight: none is lost under a
\* cycle and none stays behind (EngineRunner.run_portfolio, Database.advisory_lock).
LocksHaveOwners ==
  /\ advisory = Taken(Callers)
  /\ \A s \in Range(Process) : held[s] = Taken(CallersOf(s))

LockInv == TurnsTyped /\ LocksHaveOwners /\ OneCycleEach

-----------------------------------------------------------------------------
(* Steps. *)

\* The turn of a caller outside its cycle.
LEMMA IdleTurn ==
  Idle.at = "idle" /\ DOMAIN Idle = Fields
BY DEF Idle, Fields

\* Processes are those of callers.
LEMMA ProcessOf ==
  ASSUME NEW c \in Callers
  PROVE  Process[c] \in Range(Process)
BY EngineAssumption DEF Range

\* A cycle begins with locks nobody had.
LEMMA AcquireStep ==
  ASSUME LockInv, NEW c \in Callers, NEW p, Acquire(c, p)
  PROVE  LockInv'
<1>1. /\ turn' = [turn EXCEPT ![c] = [Idle EXCEPT !.at = "reading", !.p = p]]
      /\ turn[c].at = "idle" /\ p \notin advisory
      /\ held' = [held EXCEPT ![Process[c]] = @ \cup {p}] /\ advisory' = advisory \cup {p}
  BY DEF Acquire
<1>2. /\ DOMAIN turn' = Callers /\ DOMAIN turn'[c] = Fields
      /\ turn'[c].at = "reading" /\ turn'[c].p = p
      /\ \A e \in Callers \ {c} : turn'[e] = turn[e]
  BY <1>1, IdleTurn DEF LockInv, TurnsTyped
<1>3. TurnsTyped'
  BY <1>1, <1>2, ProcessOf DEF LockInv, TurnsTyped
<1>4. \A cs \in SUBSET Callers : Taken(cs)' = IF c \in cs THEN Taken(cs) \cup {p} ELSE Taken(cs)
  BY <1>1, <1>2 DEF Taken, InCycle
<1>5. LocksHaveOwners'
  <2>1. advisory' = Taken(Callers)'
    BY <1>1, <1>4 DEF LockInv, LocksHaveOwners
  <2>2. ASSUME NEW s \in Range(Process)
        PROVE  held'[s] = Taken(CallersOf(s))'
    <3>1. CallersOf(s)' = CallersOf(s) /\ CallersOf(s) \subseteq Callers /\ (c \in CallersOf(s) <=> s = Process[c])
      BY DEF CallersOf
    <3>2. held'[s] = IF s = Process[c] THEN held[s] \cup {p} ELSE held[s]
      BY <1>1, ProcessOf DEF LockInv, TurnsTyped
    <3>. QED  BY <1>4, <3>1, <3>2 DEF LockInv, LocksHaveOwners, CallersOf, Taken, InCycle
  <2>. QED  BY <2>1, <2>2 DEF LocksHaveOwners
<1>6. OneCycleEach'
  <2>1. \A e \in Callers \ {c} : InCycle(e) => turn[e].p # p
    BY <1>1 DEF LockInv, LocksHaveOwners, Taken
  <2>. QED  BY <1>2, <2>1 DEF LockInv, OneCycleEach, InCycle
<1>. QED  BY <1>3, <1>5, <1>6 DEF LockInv

\* Turns whose cycles go on, for the same portfolios.
LEMMA TurnsGoOn ==
  ASSUME LockInv, UNCHANGED <<held, advisory>>, DOMAIN turn' = Callers,
         \A c \in Callers : /\ DOMAIN turn'[c] = Fields /\ turn'[c].p = turn[c].p
                            /\ InCycle(c)' <=> InCycle(c)
  PROVE  LockInv'
<1>1. TurnsTyped'
  BY DEF LockInv, TurnsTyped
<1>2. \A cs \in SUBSET Callers : Taken(cs)' = Taken(cs)
  BY DEF Taken
<1>3. LocksHaveOwners'
  BY <1>2 DEF LockInv, LocksHaveOwners, CallersOf
<1>4. OneCycleEach'
  BY DEF LockInv, OneCycleEach
<1>. QED  BY <1>1, <1>3, <1>4 DEF LockInv

\* A cycle that moves on keeps its portfolio and its locks.
LEMMA MoveStep ==
  ASSUME LockInv, NEW c \in Callers, Decide(c) \/ ReadPending(c) \/ Execute(c)
  PROVE  LockInv'
<1>1. /\ DOMAIN turn' = Callers /\ DOMAIN turn'[c] = Fields
      /\ turn'[c].p = turn[c].p /\ turn[c].at # "idle" /\ turn'[c].at # "idle"
      /\ \A e \in Callers \ {c} : turn'[e] = turn[e]
      /\ UNCHANGED <<held, advisory>>
  <2>1. CASE Decide(c)
    <3>1. PICK d : turn' = [turn EXCEPT ![c].plan = d, ![c].at = "deciding"]
      BY <2>1 DEF Decide
    <3>. QED  BY <2>1, <3>1 DEF Decide, LockInv, TurnsTyped, Fields
  <2>2. CASE ReadPending(c)
    <3>. DEFINE pending == Pending(turn[c].p)
    <3>1. turn' = [turn EXCEPT ![c].pending = pending, ![c].at = "placing"]
      BY <2>2 DEF ReadPending
    <3>. HIDE DEF pending
    <3>. QED  BY <2>2, <3>1 DEF ReadPending, LockInv, TurnsTyped, Fields
  <2>3. CASE Execute(c)
    <3>1. PICK new : turn' = [turn EXCEPT ![c] = [Idle EXCEPT !.at = "committing", !.p = turn[c].p, !.new = new]]
      BY <2>3, Zenon DEF Execute
    <3>2. turn[c].at = "placing" /\ UNCHANGED <<held, advisory>>
      BY <2>3 DEF Execute
    <3>. QED  BY <3>1, <3>2, IdleTurn DEF LockInv, TurnsTyped, Fields
  <2>. QED  BY <2>1, <2>2, <2>3
<1>2. \A e \in Callers : turn'[e].p = turn[e].p /\ (InCycle(e)' <=> InCycle(e)) /\ DOMAIN turn'[e] = Fields
  BY <1>1 DEF InCycle, LockInv, TurnsTyped
<1>. QED  BY <1>1, <1>2, TurnsGoOn

\* Cycles that are told of closed positions go on.
LEMMA ToldStep ==
  ASSUME LockInv, UNCHANGED <<held, advisory>>, NEW p, NEW gone, turn' = Told(p, gone)
  PROVE  LockInv'
<1>1. DOMAIN turn' = Callers
  BY DEF Told
<1>2. ASSUME NEW c \in Callers
      PROVE  /\ DOMAIN turn'[c] = Fields /\ turn'[c].p = turn[c].p /\ turn'[c].at = turn[c].at
  <2>1. turn'[c] = IF turn[c].at = "committing" /\ turn[c].p = p
                   THEN [turn[c] EXCEPT !.new.gone = @ \cup gone] ELSE turn[c]
    BY DEF Told
  <2>2. PICK t : t = turn[c] /\ DOMAIN t = Fields
    BY DEF LockInv, TurnsTyped
  <2>3. turn'[c] = t \/ \E new : turn'[c] = [t EXCEPT !.new = new]
    BY <2>1, <2>2
  <2>. QED  BY <2>2, <2>3 DEF Fields
<1>. QED  BY <1>1, <1>2, TurnsGoOn DEF InCycle

\* A cycle that is over gives back its own locks and no other.
LEMMA CommitStep ==
  ASSUME LockInv, NEW c \in Callers, Commit(c)
  PROVE  LockInv'
<1>. DEFINE p == turn[c].p
<1>1. /\ turn' = [turn EXCEPT ![c] = Idle] /\ InCycle(c)
      /\ held' = [held EXCEPT ![Process[c]] = @ \ {p}] /\ advisory' = advisory \ {p}
  BY DEF Commit, Unlock, InCycle
<1>2. /\ DOMAIN turn' = Callers /\ turn'[c] = Idle
      /\ \A e \in Callers \ {c} : turn'[e] = turn[e]
  BY <1>1 DEF LockInv, TurnsTyped
<1>3. TurnsTyped'
  BY <1>1, <1>2, IdleTurn, ProcessOf DEF LockInv, TurnsTyped
<1>4. /\ ~InCycle(c)' /\ \A e \in Callers \ {c} : turn'[e].p = turn[e].p /\ (InCycle(e)' <=> InCycle(e))
  BY <1>2, IdleTurn DEF InCycle
<1>5. \A e \in Callers \ {c} : InCycle(e) => turn[e].p # p
  BY <1>1 DEF LockInv, OneCycleEach
<1>. HIDE DEF p
<1>6. \A cs \in SUBSET Callers : c \in cs => Taken(cs)' = Taken(cs) \ {p}
  <2>. TAKE cs \in SUBSET Callers
  <2>. HAVE c \in cs
  <2>1. Taken(cs)' = {turn[e].p : e \in {x \in cs \ {c} : InCycle(x)}}
    BY <1>4 DEF Taken
  <2>2. Taken(cs) = {turn[e].p : e \in {x \in cs \ {c} : InCycle(x)}} \cup {p}
    BY <1>1 DEF Taken, p
  <2>3. p \notin {turn[e].p : e \in {x \in cs \ {c} : InCycle(x)}}
    BY <1>5
  <2>. QED  BY <2>1, <2>2, <2>3
<1>7. \A cs \in SUBSET Callers : c \notin cs => Taken(cs)' = Taken(cs)
  BY <1>4 DEF Taken
<1>8. LocksHaveOwners'
  <2>1. advisory' = Taken(Callers)'
    BY <1>1, <1>6 DEF LockInv, LocksHaveOwners
  <2>2. ASSUME NEW s \in Range(Process)
        PROVE  held'[s] = Taken(CallersOf(s))'
    <3>1. CallersOf(s) \subseteq Callers /\ (c \in CallersOf(s) <=> s = Process[c])
      BY DEF CallersOf
    <3>2. held'[s] = IF s = Process[c] THEN held[s] \ {p} ELSE held[s]
      BY <1>1, ProcessOf DEF LockInv, TurnsTyped
    <3>3. held[s] = Taken(CallersOf(s))
      BY DEF LockInv, LocksHaveOwners
    <3>4. CASE s = Process[c]
      BY <1>6, <3>1, <3>2, <3>3, <3>4 DEF CallersOf, Taken, InCycle
    <3>5. CASE s # Process[c]
      BY <1>7, <3>1, <3>2, <3>3, <3>5 DEF CallersOf, Taken, InCycle
    <3>. QED  BY <3>4, <3>5
  <2>. QED  BY <2>1, <2>2 DEF LocksHaveOwners
<1>9. OneCycleEach'
  BY <1>4 DEF LockInv, OneCycleEach
<1>. QED  BY <1>3, <1>8, <1>9 DEF LockInv

\* A process that dies takes its own cycles and their locks along.
LEMMA CrashStep ==
  ASSUME LockInv, NEW s \in Range(Process), Crash(s)
  PROVE  LockInv'
<1>. DEFINE dead == CallersOf(s)
<1>1. /\ turn' = [c \in Callers |-> IF c \in dead THEN Idle ELSE turn[c]]
      /\ held' = [held EXCEPT ![s] = {}] /\ advisory' = advisory \ Taken(dead)
  BY DEF Crash, CallersOf, Taken
<1>2. /\ \A c \in dead : ~InCycle(c)'
      /\ \A c \in Callers \ dead : turn'[c].p = turn[c].p /\ (InCycle(c)' <=> InCycle(c))
  BY <1>1, IdleTurn DEF InCycle, CallersOf
<1>3. TurnsTyped'
  BY <1>1, IdleTurn DEF LockInv, TurnsTyped
<1>4. \A c \in Callers \ dead : InCycle(c) => turn[c].p \notin Taken(dead)
  BY DEF LockInv, OneCycleEach, Taken, CallersOf
<1>5. LocksHaveOwners'
  <2>1. Taken(Callers)' = {turn[c].p : c \in {x \in Callers \ dead : InCycle(x)}}
    BY <1>2 DEF Taken
  <2>2. Taken(Callers) = Taken(dead) \cup {turn[c].p : c \in {x \in Callers \ dead : InCycle(x)}}
    BY DEF Taken, CallersOf
  <2>3. advisory' = Taken(Callers)'
    BY <1>1, <1>4, <2>1, <2>2 DEF LockInv, LocksHaveOwners
  <2>4. ASSUME NEW t \in Range(Process)
        PROVE  held'[t] = Taken(CallersOf(t))'
    <3>1. CASE t = s
      <4>1. held'[t] = {}
        BY <1>1, <3>1 DEF LockInv, TurnsTyped
      <4>2. Taken(CallersOf(t))' = {}
        BY <1>2, <3>1 DEF Taken, CallersOf
      <4>. QED  BY <4>1, <4>2
    <3>2. CASE t # s
      <4>1. held'[t] = held[t] /\ held[t] = Taken(CallersOf(t))
        BY <1>1, <3>2 DEF LockInv, TurnsTyped, LocksHaveOwners
      <4>2. \A c \in CallersOf(t) : c \in Callers \ dead
        BY <3>2 DEF CallersOf
      <4>3. Taken(CallersOf(t))' = Taken(CallersOf(t))
        BY <1>2, <4>2 DEF Taken, CallersOf
      <4>. QED  BY <4>1, <4>3
    <3>. QED  BY <3>1, <3>2
  <2>. QED  BY <2>3, <2>4 DEF LocksHaveOwners
<1>6. OneCycleEach'
  BY <1>2 DEF LockInv, OneCycleEach
<1>. QED  BY <1>3, <1>5, <1>6 DEF LockInv

-----------------------------------------------------------------------------
(* The locks. *)

\* At the start nobody is in a cycle and nothing is locked.
LEMMA LockInit == Init => LockInv
<1>. SUFFICES ASSUME Init PROVE LockInv
  OBVIOUS
<1>1. /\ turn = [c \in Callers |-> Idle] /\ advisory = {} /\ held = [s \in Range(Process) |-> {}]
  BY DEF Init
<1>2. TurnsTyped
  BY <1>1, IdleTurn DEF TurnsTyped
<1>3. \A c \in Callers : ~InCycle(c)
  BY <1>1, IdleTurn DEF InCycle
<1>4. LocksHaveOwners
  BY <1>1, <1>3 DEF LocksHaveOwners, Taken, CallersOf
<1>. QED  BY <1>2, <1>3, <1>4 DEF LockInv, OneCycleEach

\* Every step keeps the invariant; matching passes, users and quotes do not touch the locks.
LEMMA LockNext ==
  ASSUME LockInv, [Next]_vars
  PROVE  LockInv'
<1>1. CASE UNCHANGED <<held, advisory, turn>>
  BY <1>1 DEF LockInv, TurnsTyped, LocksHaveOwners, OneCycleEach, Taken, CallersOf, InCycle
<1>2. CASE \E c \in Callers : CycleStep(c)
  <2>. PICK c \in Callers : CycleStep(c)
    BY <1>2
  <2>1. CASE \E p \in Managed : Acquire(c, p)
    BY <2>1, AcquireStep
  <2>2. CASE Decide(c) \/ ReadPending(c) \/ Execute(c)
    BY <2>2, MoveStep
  <2>3. CASE Commit(c)
    BY <2>3, CommitStep
  <2>. QED  BY <2>1, <2>2, <2>3 DEF CycleStep
<1>3. CASE \E s \in Range(Process) : Crash(s)
  BY <1>3, CrashStep
<1>4. ASSUME NEW p, PauseOrResume(p) \/ \E w \in Matchers : Look(w, p)
      PROVE  UNCHANGED <<held, advisory, turn>>
  BY <1>4 DEF Look, PauseOrResume
<1>5. ASSUME NEW p, NEW x, PlaceLimit(p, x) \/ CancelLimit(p, x) \/ NewQuote(p, x)
      PROVE  UNCHANGED <<held, advisory, turn>>
  BY <1>5 DEF PlaceLimit, CancelLimit, NewQuote
<1>6. ASSUME NEW p, Match(p) \/ \E w \in Matchers : Work(w)
      PROVE  LockInv'
  <2>1. UNCHANGED <<held, advisory>> /\ \E q, gone : turn' = Told(q, gone)
    BY <1>6 DEF Match, Work, Works
  <2>. QED  BY <2>1, ToldStep
<1>7. \/ \E c \in Callers : CycleStep(c)
      \/ \E s \in Range(Process) : Crash(s)
      \/ UNCHANGED <<held, advisory, turn>>
      \/ \E p : Match(p) \/ \E w \in Matchers : Work(w)
  <2>1. CASE UNCHANGED vars
    BY <2>1 DEF vars
  <2>2. CASE Next
    BY <2>2, <1>4, <1>5, Zenon DEF Next
  <2>. QED  BY <2>1, <2>2
<1>. QED  BY <1>1, <1>2, <1>3, <1>6, <1>7

\* Locks are neither lost under a cycle nor left behind by one, whichever process dies: each is
\* held for the cycle that took it (EngineRunner.run_portfolio).
THEOREM LocksAreOwned == Spec => []LocksHaveOwners
<1>1. LockInv /\ [Next]_vars => LockInv'
  BY LockNext
<1>2. LockInv => LocksHaveOwners
  BY DEF LockInv
<1>. QED  BY LockInit, <1>1, <1>2, PTL DEF Spec

\* Whoever asks, from whichever of any number of processes, and whichever of them dies: a
\* portfolio has at most one cycle between its lock and its commit (EngineRunner.run_portfolio).
THEOREM CyclesExclude == Spec => []OneCycleEach
<1>1. LockInv /\ [Next]_vars => LockInv'
  BY LockNext
<1>2. LockInv => OneCycleEach
  BY DEF LockInv
<1>. QED  BY LockInit, <1>1, <1>2, PTL DEF Spec

-----------------------------------------------------------------------------
(* How many orders of a kind an instrument has.                            *)

Many(rows, i, kind) == Cardinality({n \in DOMAIN rows : rows[n].inst = i /\ rows[n].kind = kind})

\* Places are numbers, and hold orders.
LEMMA RowsNumbered ==
  ASSUME NEW rows \in Seq(Rows)
  PROVE  /\ DOMAIN rows = 1 .. Len(rows) /\ Len(rows) \in Nat /\ IsFiniteSet(DOMAIN rows)
         /\ \A n \in DOMAIN rows : rows[n] \in Rows
<1>1. DOMAIN rows = 1 .. Len(rows) /\ Len(rows) \in Nat
  OBVIOUS
<1>2. IsFiniteSet(DOMAIN rows)
  BY <1>1, FS_Interval
<1>. QED  BY <1>1, <1>2

\* They are a number, and none if there is no such order.
LEMMA ManyNat ==
  ASSUME NEW rows \in Seq(Rows), NEW i, NEW kind
  PROVE  /\ Many(rows, i, kind) \in Nat
         /\ (\A n \in DOMAIN rows : ~(rows[n].inst = i /\ rows[n].kind = kind)) <=> Many(rows, i, kind) = 0
<1>. DEFINE S == {n \in DOMAIN rows : rows[n].inst = i /\ rows[n].kind = kind}
<1>1. IsFiniteSet(S)
  BY RowsNumbered, FS_Subset
<1>2. Cardinality(S) \in Nat /\ (Cardinality(S) = 0 <=> S = {})
  BY <1>1, FS_CardinalityType, FS_EmptySet
<1>. QED  BY <1>2 DEF Many

\* At most one means the same place.
LEMMA ManyOne ==
  ASSUME NEW rows \in Seq(Rows), NEW i, NEW kind
  PROVE  Many(rows, i, kind) <= 1 <=>
           \A m, n \in DOMAIN rows : /\ rows[m].inst = i /\ rows[m].kind = kind
                                    /\ rows[n].inst = i /\ rows[n].kind = kind
                                    => m = n
<1>. DEFINE S == {n \in DOMAIN rows : rows[n].inst = i /\ rows[n].kind = kind}
<1>1. IsFiniteSet(S) /\ Cardinality(S) \in Nat
  BY RowsNumbered, FS_Subset, FS_CardinalityType
<1>2. ASSUME Cardinality(S) <= 1, NEW m \in S, NEW n \in S
      PROVE  m = n
  <2>1. {m, n} \in SUBSET S /\ IsFiniteSet({m}) /\ Cardinality({m}) = 1
    BY FS_Singleton
  <2>2. {m} \cup {n} = {m, n}
    OBVIOUS
  <2>. HIDE DEF S
  <2>3. Cardinality({m, n}) = IF n \in {m} THEN 1 ELSE 2
    <3>1. Cardinality({m} \cup {n}) = IF n \in {m} THEN Cardinality({m}) ELSE Cardinality({m}) + 1
      BY <2>1, FS_AddElement
    <3>. QED  BY <2>1, <2>2, <3>1
  <2>4. Cardinality({m, n}) <= Cardinality(S)
    BY <1>1, <2>1, FS_Subset
  <2>5. Cardinality({m, n}) # 2
    BY <1>1, <1>2, <2>4
  <2>. QED  BY <2>3, <2>5
<1>3. ASSUME \A m, n \in S : m = n
      PROVE  Cardinality(S) <= 1
  <2>1. CASE S = {}
    <3>1. Cardinality(S) = 0
      BY <1>1, <2>1, FS_EmptySet
    <3>. QED  BY <3>1
  <2>2. CASE S # {}
    <3>1. PICK n \in S : S = {n}
      BY <1>3, <2>2
    <3>. HIDE DEF S
    <3>2. Cardinality(S) = 1
      BY <3>1, FS_Singleton
    <3>. QED  BY <3>2
  <2>. QED  BY <2>1, <2>2
<1>. QED  BY <1>2, <1>3 DEF Many

\* Orders placed after others, by place.
LEMMA ConcatRows ==
  ASSUME NEW A \in Seq(Rows), NEW B \in Seq(Rows)
  PROVE  /\ A \o B \in Seq(Rows) /\ Len(A \o B) = Len(A) + Len(B)
         /\ Len(A) \in Nat /\ Len(B) \in Nat
         /\ DOMAIN A = 1 .. Len(A) /\ DOMAIN B = 1 .. Len(B) /\ DOMAIN (A \o B) = 1 .. Len(A) + Len(B)
         /\ \A n \in DOMAIN A : n \in DOMAIN (A \o B) /\ (A \o B)[n] = A[n]
         /\ \A n \in DOMAIN B : Len(A) + n \in DOMAIN (A \o B) /\ (A \o B)[Len(A) + n] = B[n]
         /\ \A n \in DOMAIN (A \o B) : \/ n \in DOMAIN A
                                       \/ n - Len(A) \in DOMAIN B /\ n = Len(A) + (n - Len(A))
OBVIOUS

\* Of orders placed after others there are as many as of both.
LEMMA ManyConcat ==
  ASSUME NEW A \in Seq(Rows), NEW B \in Seq(Rows), NEW i, NEW kind
  PROVE  Many(A \o B, i, kind) = Many(A, i, kind) + Many(B, i, kind)
<1>. DEFINE C == A \o B
            a == Len(A)
            old == {n \in DOMAIN A : A[n].inst = i /\ A[n].kind = kind}
            new == {n \in DOMAIN B : B[n].inst = i /\ B[n].kind = kind}
            move == [n \in new |-> a + n]
            moved == {a + n : n \in new}
            all == {n \in DOMAIN C : C[n].inst = i /\ C[n].kind = kind}
<1>1. /\ C \in Seq(Rows) /\ a \in Nat
      /\ DOMAIN A = 1 .. a /\ DOMAIN B \subseteq Nat \ {0}
      /\ \A n \in DOMAIN A : n \in DOMAIN C /\ C[n] = A[n]
      /\ \A n \in DOMAIN B : a + n \in DOMAIN C /\ C[a + n] = B[n]
      /\ \A n \in DOMAIN C : n \in DOMAIN A \/ \E k \in DOMAIN B : n = a + k
  BY ConcatRows
<1>2. IsFiniteSet(old) /\ IsFiniteSet(new)
  BY RowsNumbered, FS_Subset
<1>. HIDE DEF C, a
<1>3. all = old \cup moved /\ old \cap moved = {}
  <2>1. \A n \in all : n \in old \cup moved
    BY <1>1
  <2>2. \A n \in old \cup moved : n \in all
    BY <1>1
  <2>3. old \cap moved = {}
    BY <1>1
  <2>. QED  BY <2>1, <2>2, <2>3
<1>4. move \in Bijection(new, moved)
  <2>1. new \subseteq Nat
    BY <1>1
  <2>. HIDE DEF new
  <2>2. move \in [new -> moved]
    OBVIOUS
  <2>3. \A k, n \in new : move[k] = move[n] => k = n
    BY <1>1, <2>1
  <2>4. \A t \in moved : \E n \in new : move[n] = t
    OBVIOUS
  <2>. HIDE DEF move, moved
  <2>. QED  BY <2>2, <2>3, <2>4 DEF Bijection, Injection, Surjection, IsInjective
<1>. HIDE DEF old, new, move, moved, all
<1>5. IsFiniteSet(moved) /\ Cardinality(moved) = Cardinality(new)
  BY <1>2, <1>4, FS_Bijection DEF ExistsBijection
<1>6. Cardinality(old \cup moved) = Cardinality(old) + Cardinality(moved) - Cardinality(old \cap moved)
  BY <1>2, <1>5, FS_Union
<1>7. Cardinality(old) \in Nat /\ Cardinality(new) \in Nat /\ Cardinality(old \cap moved) = 0
  BY <1>2, <1>3, FS_CardinalityType, FS_EmptySet
<1>8. Cardinality(all) = Cardinality(old) + Cardinality(new)
  <2>1. Cardinality(all) = Cardinality(old) + Cardinality(new) - 0
    BY <1>3, <1>5, <1>6, <1>7
  <2>. QED  BY <1>7, <2>1
<1>. QED  BY <1>8 DEF Many, all, C, old, new

\* One order is at most one of a kind.
LEMMA ManySingle ==
  ASSUME NEW r \in Rows, NEW i, NEW kind
  PROVE  /\ << r >> \in Seq(Rows)
         /\ Many(<< r >>, i, kind) = IF r.inst = i /\ r.kind = kind THEN 1 ELSE 0
<1>1. {n \in DOMAIN << r >> : << r >>[n].inst = i /\ << r >>[n].kind = kind}
        = IF r.inst = i /\ r.kind = kind THEN {1} ELSE {}
  OBVIOUS
<1>2. Cardinality({1}) = 1 /\ Cardinality({}) = 0
  BY FS_Singleton, FS_EmptySet
<1>3. Many(<< r >>, i, kind) = IF r.inst = i /\ r.kind = kind THEN 1 ELSE 0
  BY <1>1, <1>2 DEF Many
<1>. QED  BY <1>3

\* A book without orders has none of a kind.
LEMMA ManyNone ==
  ASSUME NEW i, NEW kind
  PROVE  << >> \in Seq(Rows) /\ Many(<< >>, i, kind) = 0
<1>1. {n \in DOMAIN << >> : << >>[n].inst = i /\ << >>[n].kind = kind} = {}
  OBVIOUS
<1>. QED  BY <1>1, FS_EmptySet DEF Many

\* The first n orders are those before the n-th, and it.
LEMMA ManyPrefix ==
  ASSUME NEW rows \in Seq(Rows), NEW n \in DOMAIN rows
  PROVE  /\ SubSeq(rows, 1, n) \in Seq(Rows) /\ SubSeq(rows, 1, n - 1) \in Seq(Rows)
         /\ \A i, kind : Many(SubSeq(rows, 1, n), i, kind)
                         = Many(SubSeq(rows, 1, n - 1), i, kind) + Many(<< rows[n] >>, i, kind)
<1>1. n \in 1 .. Len(rows) /\ Len(rows) \in Nat /\ rows[n] \in Rows
  BY RowsNumbered
<1>2. SubSeq(rows, 1, n) \in Seq(Rows) /\ SubSeq(rows, 1, n - 1) \in Seq(Rows)
  BY <1>1
<1>3. SubSeq(rows, 1, n) = SubSeq(rows, 1, n - 1) \o << rows[n] >>
  <2>1. 1 \in 1 .. Len(rows) /\ n \in 1 .. Len(rows)
    BY <1>1
  <2>. QED  BY <2>1, SubSeqRecursiveSecond
<1>4. << rows[n] >> \in Seq(Rows)
  BY <1>1
<1>. DEFINE A == SubSeq(rows, 1, n - 1)
            R == << rows[n] >>
<1>. HIDE DEF A, R
<1>5. \A i, kind : Many(A \o R, i, kind) = Many(A, i, kind) + Many(R, i, kind)
  BY <1>2, <1>4, ManyConcat DEF A, R
<1>. QED  BY <1>2, <1>3, <1>5 DEF A, R

\* An order that is taken away is one less, if anything.
LEMMA ManyRemoved ==
  ASSUME NEW rows \in Seq(Rows), NEW n \in DOMAIN rows
  PROVE  /\ RemoveAt(rows, n) \in Seq(Rows)
         /\ \A i, kind : Many(RemoveAt(rows, n), i, kind) <= Many(rows, i, kind)
<1>. DEFINE A == SubSeq(rows, 1, n - 1)
            B == SubSeq(rows, n + 1, Len(rows))
            C == SubSeq(rows, 1, n)
            R == << rows[n] >>
<1>1. n \in 1 .. Len(rows) /\ Len(rows) \in Nat /\ rows[n] \in Rows
  BY RowsNumbered
<1>2. A \in Seq(Rows) /\ B \in Seq(Rows) /\ C \in Seq(Rows) /\ R \in Seq(Rows)
  BY <1>1
<1>3. rows = C \o B
  <2>1. 1 \in 1 .. Len(rows) + 1 /\ n \in 1 - 1 .. Len(rows) /\ Len(rows) \in n .. Len(rows)
    BY <1>1
  <2>2. C \o B = SubSeq(rows, 1, Len(rows))
    BY <2>1, ConcatAdjacentSubSeq
  <2>. QED  BY <2>2, SubSeqFull
<1>4. \A i, kind : Many(C, i, kind) = Many(A, i, kind) + Many(R, i, kind)
  BY ManyPrefix
<1>5. RemoveAt(rows, n) = A \o B
  BY DEF RemoveAt
<1>. HIDE DEF A, B, C, R
<1>6. A \o B \in Seq(Rows)
  BY <1>2
<1>7. ASSUME NEW i, NEW kind
      PROVE  Many(A \o B, i, kind) <= Many(rows, i, kind)
  <2>1. Many(rows, i, kind) = Many(C, i, kind) + Many(B, i, kind)
    BY <1>2, <1>3, ManyConcat
  <2>2. Many(A \o B, i, kind) = Many(A, i, kind) + Many(B, i, kind)
    BY <1>2, ManyConcat
  <2>3. Many(A, i, kind) \in Nat /\ Many(B, i, kind) \in Nat /\ Many(R, i, kind) \in Nat
    BY <1>2, ManyNat
  <2>. QED  BY <1>4, <2>1, <2>2, <2>3
<1>. QED  BY <1>5, <1>6, <1>7

\* Each instrument has at most one of the orders.
OnePer(rows) == \A m, n \in DOMAIN rows : rows[m].inst = rows[n].inst => m = n

\* A set of orders in a row.
LEMMA SetRows ==
  ASSUME NEW T \in SUBSET Rows, IsFiniteSet(T)
  PROVE  /\ SetToSeq(T) \in Seq(Rows) /\ Len(SetToSeq(T)) = Cardinality(T)
         /\ \A n \in DOMAIN SetToSeq(T) : SetToSeq(T)[n] \in T
         /\ (\A r, q \in T : r.inst = q.inst => r = q) => OnePer(SetToSeq(T))
<1>1. Cardinality(T) \in Nat /\ ExistsBijection(1 .. Cardinality(T), T)
  BY FS_CardinalityType
<1>2. \E f \in [1 .. Cardinality(T) -> T] : IsInjective(f)
  BY <1>1 DEF ExistsBijection, Bijection, Injection
<1>. DEFINE s == SetToSeq(T)
<1>3. s \in [1 .. Cardinality(T) -> T] /\ IsInjective(s)
  BY <1>2 DEF SetToSeq
<1>. HIDE DEF s
<1>4. s \in Seq(Rows) /\ Len(s) = Cardinality(T) /\ \A n \in DOMAIN s : s[n] \in T
  BY <1>1, <1>3
<1>5. (\A r, q \in T : r.inst = q.inst => r = q) => OnePer(s)
  BY <1>3, <1>4 DEF OnePer, IsInjective
<1>. QED  BY <1>4, <1>5 DEF s

-----------------------------------------------------------------------------
(* A pass, order by order.                                                 *)

\* A set of natural numbers that is not empty has a least one.
LEMMA LeastIsThere ==
  ASSUME NEW S \in SUBSET Nat, S # {}
  PROVE  \E x \in S : \A y \in S : x <= y
<1>. DEFINE R == OpToRel(<, Nat)
<1>1. IsWellFoundedOn(R, Nat)
  BY NatLessThanWellFounded
<1>. HIDE DEF R
<1>2. \A x, y \in Nat : x < y => <<x, y>> \in R
  BY DEF R, OpToRel
<1>3. PICK x \in S : \A y \in S : ~(<<y, x>> \in R)
  BY <1>1, WFMin
<1>4. \A y \in S : x <= y
  <2>. TAKE y \in S
  <2>1. x \in Nat /\ y \in Nat /\ ~(y < x)
    BY <1>2, <1>3
  <2>. QED  BY <2>1
<1>. QED  BY <1>4

\* What the stages of a pass are: each follows from the one before.
LEMMA StagesAre ==
  ASSUME NEW p, NEW pos, NEW orders, Len(orders) \in Nat, NEW fate
  PROVE  /\ Stages(p, pos, orders, fate)[0] = [pos |-> pos, orders |-> << >>, gone |-> {}]
         /\ \A n \in 1 .. Len(orders) :
              Stages(p, pos, orders, fate)[n] = Stage(p, Stages(p, pos, orders, fate)[n - 1], orders[n], fate[n])
<1>. DEFINE start == [pos |-> pos, orders |-> << >>, gone |-> {}]
            Upto(f, m) == f = [n \in 0 .. m |-> IF n = 0 THEN start ELSE Stage(p, f[n - 1], orders[n], fate[n])]
            Bad == {m \in Nat : ~\E f : Upto(f, m)}
<1>. HIDE DEF start
<1>1. Bad = {}
  <2>. SUFFICES ASSUME Bad # {} PROVE FALSE
    OBVIOUS
  <2>1. PICK m \in Bad : \A k \in Bad : m <= k
    BY LeastIsThere
  <2>2. CASE m = 0
    <3>1. Upto([n \in 0 .. 0 |-> start], 0)
      OBVIOUS
    <3>. QED  BY <2>1, <2>2, <3>1
  <2>3. CASE m # 0
    <3>1. m - 1 \in Nat /\ m - 1 \notin Bad
      <4>1. m \in Nat
        OBVIOUS
      <4>. HIDE DEF Bad
      <4>. QED  BY <2>1, <2>3, <4>1
    <3>2. PICK f : Upto(f, m - 1)
      BY <3>1
    <3>3. DOMAIN f = 0 .. m - 1 /\ f[0] = start
          /\ \A n \in 1 .. m - 1 : f[n] = Stage(p, f[n - 1], orders[n], fate[n])
      BY <3>1, <3>2
    <3>. DEFINE g == [n \in 0 .. m |-> IF n = m THEN Stage(p, f[m - 1], orders[m], fate[m]) ELSE f[n]]
    <3>4. \A n \in 0 .. m : g[n] = IF n = 0 THEN start ELSE Stage(p, g[n - 1], orders[n], fate[n])
      <4>. TAKE n \in 0 .. m
      <4>1. CASE n = 0
        BY <2>3, <3>3, <4>1
      <4>2. CASE n = m
        <5>1. g[n - 1] = f[n - 1]
          BY <2>3, <4>2
        <5>. QED  BY <2>3, <4>2, <5>1
      <4>3. CASE n # 0 /\ n # m
        <5>1. n \in 1 .. m - 1 /\ n - 1 \in 0 .. m /\ n - 1 # m
          BY <4>3
        <5>2. g[n] = f[n] /\ g[n - 1] = f[n - 1]
          BY <4>3, <5>1
        <5>. QED  BY <3>3, <4>3, <5>1, <5>2
      <4>. QED  BY <4>1, <4>2, <4>3
    <3>5. Upto(g, m)
      <4>1. g = [n \in 0 .. m |-> g[n]]
        OBVIOUS
      <4>. HIDE DEF g
      <4>. QED  BY <3>4, <4>1
    <3>. QED  BY <2>1, <3>5
  <2>. QED  BY <2>2, <2>3
<1>2. PICK f : Upto(f, Len(orders))
  BY <1>1
<1>. DEFINE s == Stages(p, pos, orders, fate)
<1>3. s = CHOOSE g : Upto(g, Len(orders))
  BY DEF Stages, start
<1>4. Upto(s, Len(orders))
  <2>. HIDE DEF s, Upto
  <2>. QED  BY <1>2, <1>3
<1>. HIDE DEF s
<1>5. /\ s[0] = start
      /\ \A n \in 1 .. Len(orders) : s[n] = Stage(p, s[n - 1], orders[n], fate[n])
  BY <1>4
<1>. QED  BY <1>5 DEF s, start

\* Rounding to whole shares takes away at most what there is.
LEMMA WholeUnitsNat ==
  ASSUME NEW p, NEW qty \in Nat
  PROVE  WholeUnits(p, qty) \in Nat /\ WholeUnits(p, qty) <= qty
<1>1. PICK n : n = Lot /\ n \in Nat \ {0}
  BY EngineAssumption
<1>2. qty % n \in 0 .. n - 1 /\ qty = n * (qty \div n) + (qty % n)
  BY <1>1
<1>3. qty \div n \in Nat
  BY <1>1
<1>4. n * (qty \div n) \in Nat
  BY <1>1, <1>3
<1>5. qty - (qty % n) \in Nat /\ qty - (qty % n) <= qty
  BY <1>1, <1>2, <1>4
<1>. QED  BY <1>1, <1>5 DEF WholeUnits

\* Positions while a pass works: the bound is that of the pass as a whole.
Held == [qty : Nat, stop : 0 .. Top, laddered : BOOLEAN]

\* A position keeps its stop and its mark, or it was closed since.
Follows(was, pos) ==
  \A i \in Instruments : \/ pos[i].stop = was[i].stop /\ pos[i].laddered = was[i].laddered
                         \/ pos[i].stop = 0 /\ pos[i].laddered = FALSE

\* Where a pass is after n orders: none is open that was not there.
StageOK(was, now, rows, n) ==
  /\ now = [pos |-> now.pos, orders |-> now.orders, gone |-> now.gone]
  /\ now.pos \in [Instruments -> Held] /\ Follows(was, now.pos)
  /\ now.orders \in Seq(Rows) /\ now.gone \subseteq Instruments
  /\ \A i, kind : Many(now.orders, i, kind) <= Many(SubSeq(rows, 1, n), i, kind)

\* A sell leaves a position that is well formed.
LEMMA LessHeld ==
  ASSUME NEW pos \in Held, NEW sold \in Nat
  PROVE  /\ Less(pos, sold) \in Held
         /\ \/ Less(pos, sold).stop = pos.stop /\ Less(pos, sold).laddered = pos.laddered
            \/ Less(pos, sold).stop = 0 /\ Less(pos, sold).laddered = FALSE
<1>1. Top \in Nat
  BY EngineAssumption
<1>2. CASE sold < pos.qty
  <2>1. Less(pos, sold) = [pos EXCEPT !.qty = pos.qty - sold] /\ pos.qty - sold \in Nat
    BY <1>2 DEF Less, Held
  <2>. QED  BY <2>1 DEF Held
<1>3. CASE ~(sold < pos.qty)
  <2>1. Less(pos, sold) = Closed
    BY <1>3 DEF Less
  <2>. QED  BY <1>1, <2>1 DEF Held, Closed
<1>. QED  BY <1>2, <1>3

\* What is left of an order is an order like it, or none.
LEMMA LeftRows ==
  ASSUME NEW r \in Rows, NEW sold \in Nat
  PROVE  /\ Left(r, sold) \in Seq(Rows)
         /\ \A i, kind : Many(Left(r, sold), i, kind) <= Many(<< r >>, i, kind)
<1>1. r.qty \in 1 .. MaxQty /\ MaxQty \in Nat
  BY EngineAssumption DEF Rows
<1>2. CASE 0 < sold /\ sold < r.qty
  <2>1. PICK left : left = [r EXCEPT !.qty = r.qty - sold]
    OBVIOUS
  <2>2. r.qty - sold \in 1 .. MaxQty
    BY <1>1, <1>2
  <2>3. left \in Rows /\ left.inst = r.inst /\ left.kind = r.kind
    BY <2>1, <2>2 DEF Rows
  <2>4. Left(r, sold) = << left >>
    BY <1>2, <2>1 DEF Left
  <2>5. << left >> \in Seq(Rows)
    BY <2>3
  <2>6. \A i, kind : /\ Many(<< left >>, i, kind) = Many(<< r >>, i, kind)
                    /\ Many(<< r >>, i, kind) \in Nat
    BY <2>3, ManySingle
  <2>. QED  BY <2>4, <2>5, <2>6
<1>3. CASE ~(0 < sold /\ sold < r.qty)
  <2>1. Left(r, sold) = << >>
    BY <1>3 DEF Left
  <2>2. \A i, kind : Many(<< >>, i, kind) = 0
    BY ManyNone
  <2>3. \A i, kind : Many(<< r >>, i, kind) \in Nat
    BY ManySingle
  <2>4. << >> \in Seq(Rows)
    OBVIOUS
  <2>. QED  BY <2>1, <2>2, <2>3, <2>4
<1>. QED  BY <1>2, <1>3

\* What becomes of an order leaves at most that order open.
LEMMA StageStep ==
  ASSUME NEW p, NEW was, NEW now, NEW rows \in Seq(Rows), NEW n \in DOMAIN rows,
         NEW fate \in {"fill", "expire", "rest"}, StageOK(was, now, rows, n - 1)
  PROVE  StageOK(was, Stage(p, now, rows[n], fate), rows, n)
<1>. DEFINE next == Stage(p, now, rows[n], fate)
            before == SubSeq(rows, 1, n - 1)
            upto == SubSeq(rows, 1, n)
<1>. SUFFICES StageOK(was, next, rows, n)
  OBVIOUS
<1>1. PICK r : r = rows[n] /\ r \in Rows
  BY RowsNumbered
<1>2. r.inst \in Instruments /\ r.side \in {"BUY", "SELL"} /\ r.qty \in Nat
  BY <1>1 DEF Rows
<1>3. /\ now.pos \in [Instruments -> Held] /\ Follows(was, now.pos) /\ now.orders \in Seq(Rows)
      /\ now.gone \subseteq Instruments /\ now.pos[r.inst] \in Held
      /\ now = [pos |-> now.pos, orders |-> now.orders, gone |-> now.gone]
  BY <1>2 DEF StageOK
<1>4. \A i, kind : /\ Many(now.orders, i, kind) \in Nat /\ Many(<< r >>, i, kind) \in Nat
                  /\ Many(before, i, kind) \in Nat
                  /\ Many(now.orders, i, kind) <= Many(before, i, kind)
                  /\ Many(upto, i, kind) = Many(before, i, kind) + Many(<< r >>, i, kind)
  <2>1. before \in Seq(Rows) /\ << r >> \in Seq(Rows)
    BY <1>1, ManyPrefix
  <2>2. \A i, kind : /\ Many(now.orders, i, kind) <= Many(before, i, kind)
                    /\ Many(upto, i, kind) = Many(before, i, kind) + Many(<< r >>, i, kind)
    BY <1>1, ManyPrefix DEF StageOK
  <2>. HIDE DEF before, upto
  <2>. QED  BY <1>3, <2>1, <2>2, ManyNat
<1>. HIDE DEF before, upto
<1>5. ASSUME NEW pos, NEW more, NEW gone, next = [pos |-> pos, orders |-> now.orders \o more, gone |-> gone],
             pos \in [Instruments -> Held], Follows(was, pos), gone \subseteq Instruments,
             more \in Seq(Rows), \A i, kind : Many(more, i, kind) <= Many(<< r >>, i, kind)
      PROVE  StageOK(was, next, rows, n)
  <2>1. now.orders \o more \in Seq(Rows)
    BY <1>3, <1>5
  <2>2. ASSUME NEW i, NEW kind
        PROVE  Many(now.orders \o more, i, kind) <= Many(upto, i, kind)
    <3>1. Many(now.orders \o more, i, kind) = Many(now.orders, i, kind) + Many(more, i, kind)
      BY <1>3, <1>5, ManyConcat
    <3>2. Many(more, i, kind) \in Nat /\ Many(more, i, kind) <= Many(<< r >>, i, kind)
      BY <1>5, ManyNat
    <3>. QED  BY <1>4, <3>1, <3>2
  <2>. QED  BY <1>5, <2>1, <2>2 DEF StageOK, upto
<1>6. \A i, kind : Many(<< >>, i, kind) <= Many(<< r >>, i, kind)
  <2>1. \A i, kind : Many(<< >>, i, kind) = 0
    BY ManyNone
  <2>. QED  BY <1>4, <2>1
<1>7. now.orders \o << >> = now.orders /\ << >> \in Seq(Rows) /\ Append(now.orders, r) = now.orders \o << r >>
      /\ << r >> \in Seq(Rows)
  BY <1>1, <1>3, ConcatEmptySeq
<1>8. CASE fate = "rest"
  <2>1. next = [now EXCEPT !.orders = Append(@, r)]
    BY <1>1, <1>8 DEF Stage
  <2>2. next = [pos |-> now.pos, orders |-> now.orders \o << r >>, gone |-> now.gone]
    BY <1>3, <1>7, <2>1
  <2>3. \A i, kind : Many(<< r >>, i, kind) <= Many(<< r >>, i, kind)
    BY <1>4
  <2>. HIDE DEF next
  <2>. QED  BY <1>3, <1>5, <1>7, <2>2, <2>3
<1>9. CASE fate = "expire"
  <2>1. next = now
    BY <1>1, <1>9 DEF Stage
  <2>2. next = [pos |-> now.pos, orders |-> now.orders \o << >>, gone |-> now.gone]
    BY <1>3, <1>7, <2>1
  <2>. HIDE DEF next
  <2>. QED  BY <1>3, <1>5, <1>6, <1>7, <2>2
<1>10. CASE fate = "fill" /\ r.side = "BUY"
  <2>. DEFINE pos == [now.pos EXCEPT ![r.inst] = [now.pos[r.inst] EXCEPT !.qty = now.pos[r.inst].qty + r.qty]]
  <2>1. next = [now EXCEPT !.pos = pos]
    BY <1>1, <1>10 DEF Stage
  <2>2. pos \in [Instruments -> Held]
    <3>1. PICK x : x = now.pos[r.inst] /\ x \in Held
      BY <1>3
    <3>2. [x EXCEPT !.qty = x.qty + r.qty] \in Held
      BY <1>2, <3>1 DEF Held
    <3>3. pos = [now.pos EXCEPT ![r.inst] = [x EXCEPT !.qty = x.qty + r.qty]]
      BY <3>1
    <3>. HIDE DEF pos
    <3>. QED  BY <1>2, <1>3, <3>2, <3>3
  <2>3. \A i \in Instruments : pos[i].stop = now.pos[i].stop /\ pos[i].laddered = now.pos[i].laddered
    <3>. TAKE i \in Instruments
    <3>1. PICK x : x = now.pos[i] /\ x \in Held
      BY <1>3
    <3>2. pos[i] = x \/ pos[i] = [x EXCEPT !.qty = x.qty + r.qty]
      BY <1>2, <1>3, <3>1
    <3>. HIDE DEF pos
    <3>. QED  BY <3>1, <3>2 DEF Held
  <2>. HIDE DEF pos, next
  <2>4. next = [pos |-> pos, orders |-> now.orders \o << >>, gone |-> now.gone]
    BY <1>3, <1>7, <2>1
  <2>5. Follows(was, pos)
    BY <1>3, <2>3 DEF Follows
  <2>. QED  BY <1>3, <1>5, <1>6, <1>7, <2>2, <2>4, <2>5
<1>11. CASE fate = "fill" /\ r.side = "SELL"
  <2>1. PICK sold : sold = Sold(p, now.pos[r.inst], r)
    OBVIOUS
  <2>2. sold \in Nat
    <3>1. WholeUnits(p, r.qty) \in Nat /\ now.pos[r.inst].qty \in Nat
      BY <1>2, <1>3, WholeUnitsNat DEF Held
    <3>. QED  BY <2>1, <3>1 DEF Sold
  <2>. DEFINE pos == [now.pos EXCEPT ![r.inst] = Less(@, sold)]
              gone == IF sold = now.pos[r.inst].qty THEN now.gone \cup {r.inst} ELSE now.gone
  <2>3. next = [pos |-> pos, orders |-> now.orders \o Left(r, sold), gone |-> gone]
    BY <1>1, <1>11, <2>1 DEF Stage
  <2>4. PICK x : x = now.pos[r.inst] /\ x \in Held
    BY <1>3
  <2>5. /\ Less(x, sold) \in Held
        /\ \/ Less(x, sold).stop = x.stop /\ Less(x, sold).laddered = x.laddered
           \/ Less(x, sold).stop = 0 /\ Less(x, sold).laddered = FALSE
    BY <2>2, <2>4, LessHeld
  <2>6. pos \in [Instruments -> Held] /\ pos[r.inst] = Less(x, sold)
        /\ \A i \in Instruments \ {r.inst} : pos[i] = now.pos[i]
    BY <1>2, <1>3, <2>4, <2>5
  <2>7. gone \subseteq Instruments
    BY <1>2, <1>3
  <2>. HIDE DEF pos, gone, next
  <2>8. Follows(was, pos)
    BY <1>3, <2>4, <2>5, <2>6 DEF Follows
  <2>9. Left(r, sold) \in Seq(Rows) /\ \A i, kind : Many(Left(r, sold), i, kind) <= Many(<< r >>, i, kind)
    BY <1>1, <2>2, LeftRows
  <2>. QED  BY <1>5, <2>3, <2>6, <2>7, <2>8, <2>9
<1>. QED  BY <1>2, <1>8, <1>9, <1>10, <1>11

\* What may become of orders.
Outcomes(rows) == [1 .. Len(rows) -> {"fill", "expire", "rest"}]

\* A pass as a whole: by the least order after which it was not so.
LEMMA WorkedOK ==
  ASSUME NEW p, NEW pos \in [Instruments -> Positions], NEW rows \in Seq(Rows), NEW fate \in Outcomes(rows)
  PROVE  LET done == Stages(p, pos, rows, fate)[Len(rows)]
         IN  /\ done.pos \in [Instruments -> Held] /\ Follows(pos, done.pos)
             /\ done.orders \in Seq(Rows) /\ done.gone \subseteq Instruments
             /\ \A i, kind : Many(done.orders, i, kind) <= Many(rows, i, kind)
<1>. DEFINE s == Stages(p, pos, rows, fate)
            N == Len(rows)
            Bad == {n \in 0 .. N : ~StageOK(pos, s[n], rows, n)}
<1>1. N \in Nat /\ DOMAIN rows = 1 .. N
  BY RowsNumbered
<1>2. /\ s[0] = [pos |-> pos, orders |-> << >>, gone |-> {}]
      /\ \A n \in 1 .. N : s[n] = Stage(p, s[n - 1], rows[n], fate[n])
  <2>1. ASSUME NEW orders, Len(orders) \in Nat, NEW f
        PROVE  LET g == Stages(p, pos, orders, f)
               IN  /\ g[0] = [pos |-> pos, orders |-> << >>, gone |-> {}]
                   /\ \A n \in 1 .. Len(orders) : g[n] = Stage(p, g[n - 1], orders[n], f[n])
    BY <2>1, StagesAre
  <2>. QED  BY <1>1, <2>1, Zenon
<1>. HIDE DEF s
<1>3. StageOK(pos, s[0], rows, 0)
  <2>1. Positions \subseteq Held
    BY EngineAssumption DEF Positions, Held
  <2>2. pos \in [Instruments -> Held] /\ Follows(pos, pos)
    BY <2>1 DEF Follows
  <2>3. SubSeq(rows, 1, 0) = << >> /\ << >> \in Seq(Rows)
    BY SubSeqEmpty
  <2>4. \A i, kind : Many(<< >>, i, kind) <= Many(SubSeq(rows, 1, 0), i, kind)
    <3>1. \A i, kind : Many(<< >>, i, kind) = 0
      BY ManyNone
    <3>2. \A i, kind : Many(SubSeq(rows, 1, 0), i, kind) = 0
      BY <2>3, <3>1
    <3>. QED  BY <3>1, <3>2
  <2>. QED  BY <1>2, <2>2, <2>3, <2>4 DEF StageOK
<1>4. StageOK(pos, s[N], rows, N)
  <2>. SUFFICES ASSUME N \in Bad PROVE FALSE
    BY <1>1
  <2>1. PICK n \in Bad : \A k \in Bad : n <= k
    <3>1. Bad \in SUBSET Nat /\ Bad # {}
      BY <1>1
    <3>. HIDE DEF Bad
    <3>. QED  BY <3>1, LeastIsThere
  <2>2. n \in 1 .. N /\ n \in DOMAIN rows /\ n - 1 \in 0 .. N
    BY <1>1, <1>3
  <2>3. n - 1 \notin Bad
    <3>. HIDE DEF Bad
    <3>. QED  BY <2>1, <2>2
  <2>4. StageOK(pos, s[n - 1], rows, n - 1)
    BY <2>2, <2>3
  <2>5. fate[n] \in {"fill", "expire", "rest"}
    BY <2>2 DEF Outcomes
  <2>6. StageOK(pos, Stage(p, s[n - 1], rows[n], fate[n]), rows, n)
    BY <2>2, <2>4, <2>5, StageStep
  <2>. QED  BY <1>2, <2>2, <2>6
<1>5. SubSeq(rows, 1, N) = rows
  BY SubSeqFull
<1>. QED  BY <1>4, <1>5 DEF StageOK, s

-----------------------------------------------------------------------------
(* Placing orders.                                                         *)

\* Books are records of positions and orders, with one entry at most for each instrument.
BooksTyped ==
  /\ DOMAIN book = Portfolios
  /\ \A p \in Portfolios :
       /\ book[p] = [pos |-> book[p].pos, orders |-> book[p].orders]
       /\ book[p].pos \in [Instruments -> Positions] /\ book[p].orders \in Seq(Rows)
       /\ \A i \in Instruments : Many(book[p].orders, i, "entry") <= 1

\* What a position holds is a number within the bound.
LEMMA QtyIs ==
  ASSUME BooksTyped, NEW p \in Portfolios, NEW i \in Instruments
  PROVE  /\ book[p].pos[i] \in Positions /\ book[p].pos[i].qty \in Nat /\ book[p].pos[i].stop \in Nat
         /\ book[p].pos[i].qty <= MaxQty /\ MaxQty \in Nat
<1>1. book[p].pos[i] \in Positions /\ MaxQty \in Nat
  BY EngineAssumption DEF BooksTyped
<1>. QED  BY <1>1 DEF Positions

\* A part of something, rounded up, is no more than it.
LEMMA PartIs ==
  ASSUME NEW q \in Nat, NEW n \in Nat \ {0}
  PROVE  (q + n - 1) \div n \in Nat /\ (q + n - 1) \div n <= q
<1>. DEFINE d == (q + n - 1) \div n
<1>1. d \in Nat /\ n * d <= q + n - 1
  <2>1. q + n - 1 \in Nat
    OBVIOUS
  <2>2. PICK m \in Nat : m = q + n - 1
    BY <2>1
  <2>3. m \div n \in Nat /\ m % n \in Nat /\ m = n * (m \div n) + (m % n)
    OBVIOUS
  <2>4. n * (m \div n) \in Nat
    BY <2>3
  <2>. QED  BY <2>2, <2>3, <2>4
<1>. HIDE DEF d
<1>2. ASSUME d > q
      PROVE  FALSE
  <2>1. PICK e \in Nat : d = q + 1 + e
    <3>1. d - q - 1 \in Nat
      BY <1>1, <1>2
    <3>. QED  BY <1>1, <3>1
  <2>2. PICK k \in Nat : n = 1 + k
    <3>1. n - 1 \in Nat
      OBVIOUS
    <3>. QED  BY <3>1
  <2>3. k * q \in Nat /\ n * e \in Nat /\ n * q = q + k * q
    BY <2>2
  <2>4. n * d = n * q + n + n * e
    BY <2>1
  <2>5. n * d = q + k * q + n + n * e
    BY <2>3, <2>4
  <2>. QED  BY <1>1, <2>3, <2>5
<1>3. d <= q
  BY <1>1, <1>2
<1>. QED  BY <1>1, <1>3 DEF d

\* An exit is for no more than is held.
LEMMA ExitQtyIs ==
  ASSUME NEW p, NEW i, NEW how, book[p].pos[i].qty \in Nat
  PROVE  ExitQty(p, i, how) \in Nat /\ ExitQty(p, i, how) <= book[p].pos[i].qty
<1>1. PICK n, q : n = LadderPart /\ n \in Nat \ {0} /\ q = book[p].pos[i].qty /\ q \in Nat
  BY EngineAssumption
<1>2. PICK part : part = (q + n - 1) \div n /\ part \in Nat /\ part <= q
  BY <1>1, PartIs
<1>3. PICK out : out = IF how = "full" THEN q ELSE part
  OBVIOUS
<1>4. out \in Nat /\ out <= q
  BY <1>1, <1>2, <1>3
<1>5. ExitQty(p, i, how) = WholeUnits(p, out)
  BY <1>1, <1>2, <1>3 DEF ExitQty
<1>6. WholeUnits(p, out) \in Nat /\ WholeUnits(p, out) <= out
  BY <1>4, WholeUnitsNat
<1>. QED  BY <1>1, <1>4, <1>5, <1>6

\* One order for each of finitely many instruments, in a row.
LEMMA RowPerInstrument ==
  ASSUME NEW J \in SUBSET Instruments, NEW f \in [J -> Rows], \A i \in J : f[i].inst = i
  PROVE  /\ SetToSeq({f[i] : i \in J}) \in Seq(Rows) /\ OnePer(SetToSeq({f[i] : i \in J}))
         /\ \A n \in DOMAIN SetToSeq({f[i] : i \in J}) : \E j \in J : SetToSeq({f[i] : i \in J})[n] = f[j]
<1>. DEFINE T == {f[i] : i \in J}
<1>1. IsFiniteSet(J)
  BY EngineAssumption, FS_Subset
<1>2. f \in Surjection(J, T)
  BY DEF Surjection
<1>3. IsFiniteSet(T)
  BY <1>1, <1>2, FS_Surjection
<1>4. T \in SUBSET Rows /\ \A r, q \in T : r.inst = q.inst => r = q
  OBVIOUS
<1>5. \A r \in T : \E i \in J : r = f[i]
  OBVIOUS
<1>. HIDE DEF T
<1>6. /\ SetToSeq(T) \in Seq(Rows) /\ OnePer(SetToSeq(T))
      /\ \A n \in DOMAIN SetToSeq(T) : SetToSeq(T)[n] \in T
  BY <1>3, <1>4, SetRows
<1>7. \A n \in DOMAIN SetToSeq(T) : \E i \in J : SetToSeq(T)[n] = f[i]
  BY <1>5, <1>6
<1>. QED  BY <1>6, <1>7 DEF T

\* The stop orders of a pass, of the hits none of which rounds to nothing.
LEMMA StopRowsAre ==
  ASSUME BooksTyped, NEW q \in Portfolios, NEW hits,
         \A i \in Instruments : <<q, i>> \in hits => WholeUnits(q, book[q].pos[i].qty) # 0
  PROVE  /\ StopRows(q, hits) \in Seq(Rows)
         /\ \A n \in DOMAIN StopRows(q, hits) : StopRows(q, hits)[n].kind = "stop"
<1>. DEFINE J == {j \in Instruments : /\ <<q, j>> \in hits /\ q \in active
                                      /\ WholeUnits(q, book[q].pos[j].qty) <= Sellable(q, j)}
            f == [i \in J |-> Sell(i, WholeUnits(q, book[q].pos[i].qty), "stop")]
            new == SetToSeq({f[i] : i \in J})
<1>1. \A i \in J : f[i] \in Rows /\ f[i].inst = i /\ f[i].kind = "stop"
  <2>. TAKE i \in J
  <2>1. PICK w : w = WholeUnits(q, book[q].pos[i].qty)
    OBVIOUS
  <2>2. i \in Instruments /\ w # 0
    BY <2>1
  <2>3. w \in Nat /\ w <= book[q].pos[i].qty /\ book[q].pos[i].qty \in Nat /\ book[q].pos[i].qty <= MaxQty
        /\ MaxQty \in Nat
    <3>1. book[q].pos[i].qty \in Nat /\ book[q].pos[i].qty <= MaxQty /\ MaxQty \in Nat
      BY <2>2, QtyIs
    <3>. QED  BY <2>1, <3>1, WholeUnitsNat
  <2>4. w \in 1 .. MaxQty
    BY <2>2, <2>3
  <2>5. f[i] = Sell(i, w, "stop")
    BY <2>1
  <2>. HIDE DEF f, J
  <2>. QED  BY <2>2, <2>4, <2>5 DEF Sell, Rows, Kinds
<1>2. f \in [J -> Rows] /\ J \in SUBSET Instruments
  BY <1>1
<1>3. StopRows(q, hits) = new
  <2>1. {f[i] : i \in J} = {Sell(i, WholeUnits(q, book[q].pos[i].qty), "stop") : i \in J}
    OBVIOUS
  <2>. QED  BY <2>1 DEF StopRows
<1>. HIDE DEF J, f
<1>4. new \in Seq(Rows) /\ \A n \in DOMAIN new : \E i \in J : new[n] = f[i]
  <2>1. \A i \in J : f[i].inst = i
    BY <1>1
  <2>. QED  BY <1>2, <2>1, RowPerInstrument
<1>. HIDE DEF new
<1>. QED  BY <1>1, <1>3, <1>4

\* The exits of a cycle.
LEMMA ExitRowsAre ==
  ASSUME BooksTyped, NEW p \in Portfolios, NEW d, NEW exits \in SUBSET Instruments,
         \A i \in exits : ExitQty(p, i, d.exit[i]) # 0
  PROVE  /\ ExitRows(p, d, exits) \in Seq(Rows)
         /\ \A n \in DOMAIN ExitRows(p, d, exits) :
              LET r == ExitRows(p, d, exits)[n]
              IN  r.inst \in exits /\ r.kind = IF d.exit[r.inst] = "full" THEN "exit" ELSE "trim"
<1>. DEFINE J == {j \in exits : ExitQty(p, j, d.exit[j]) <= Sellable(p, j)}
            f == [i \in J |-> ExitRow(p, i, d.exit[i])]
            new == SetToSeq({f[i] : i \in J})
<1>1. \A i \in J : /\ f[i] \in Rows /\ f[i].inst = i
                   /\ f[i].kind = IF d.exit[i] = "full" THEN "exit" ELSE "trim"
  <2>. TAKE i \in J
  <2>1. PICK w, how : w = ExitQty(p, i, how) /\ how = d.exit[i]
    OBVIOUS
  <2>2. i \in Instruments /\ i \in exits /\ w # 0
    BY <2>1
  <2>3. book[p].pos[i].qty \in Nat /\ book[p].pos[i].qty <= MaxQty /\ MaxQty \in Nat
    BY <2>2, QtyIs
  <2>4. w \in Nat /\ w <= book[p].pos[i].qty
    BY <2>1, <2>3, ExitQtyIs
  <2>5. w \in 1 .. MaxQty
    BY <2>2, <2>3, <2>4
  <2>6. f[i] = Sell(i, w, IF how = "full" THEN "exit" ELSE "trim")
    BY <2>1 DEF ExitRow
  <2>. HIDE DEF f, J
  <2>. QED  BY <2>1, <2>2, <2>5, <2>6 DEF Sell, Rows, Kinds
<1>2. f \in [J -> Rows] /\ J \in SUBSET Instruments /\ J \in SUBSET exits
  BY <1>1
<1>3. ExitRows(p, d, exits) = new
  <2>1. {f[i] : i \in J} = {ExitRow(p, i, d.exit[i]) : i \in J}
    OBVIOUS
  <2>. QED  BY <2>1 DEF ExitRows
<1>. HIDE DEF J, f
<1>4. new \in Seq(Rows) /\ \A n \in DOMAIN new : \E i \in J : new[n] = f[i]
  <2>1. \A i \in J : f[i].inst = i
    BY <1>1
  <2>. QED  BY <1>2, <2>1, RowPerInstrument
<1>. HIDE DEF new
<1>. QED  BY <1>1, <1>2, <1>3, <1>4

\* The entries of a cycle.
LEMMA EntryRowsAre ==
  ASSUME NEW p, NEW d, NEW granted \in SUBSET Instruments,
         \A i \in granted : d.entry[i] \in 0 .. MaxQty /\ WholeUnits(p, d.entry[i]) # 0
  PROVE  /\ EntryRows(p, d, granted) \in Seq(Rows) /\ OnePer(EntryRows(p, d, granted))
         /\ \A n \in DOMAIN EntryRows(p, d, granted) :
              LET r == EntryRows(p, d, granted)[n]
              IN  r.inst \in granted /\ r.kind = "entry"
<1>. DEFINE J == granted
            f == [i \in J |-> Buy(i, WholeUnits(p, d.entry[i]), "entry")]
            new == SetToSeq({f[i] : i \in J})
<1>1. \A i \in J : f[i] \in Rows /\ f[i].inst = i /\ f[i].kind = "entry"
  <2>. TAKE i \in J
  <2>1. PICK w, e : w = WholeUnits(p, e) /\ e = d.entry[i]
    OBVIOUS
  <2>2. i \in Instruments /\ w # 0 /\ e \in Nat /\ e <= MaxQty /\ MaxQty \in Nat
    BY <2>1, EngineAssumption
  <2>3. w \in Nat /\ w <= e
    BY <2>1, <2>2, WholeUnitsNat
  <2>4. w \in 1 .. MaxQty
    BY <2>2, <2>3
  <2>5. f[i] = Buy(i, w, "entry")
    BY <2>1
  <2>. HIDE DEF f, J
  <2>. QED  BY <2>2, <2>4, <2>5 DEF Buy, Rows, Kinds
<1>2. f \in [J -> Rows] /\ J \in SUBSET Instruments
  BY <1>1
<1>3. EntryRows(p, d, granted) = new
  <2>1. {f[i] : i \in J} = {Buy(i, WholeUnits(p, d.entry[i]), "entry") : i \in J}
    OBVIOUS
  <2>. QED  BY <2>1 DEF EntryRows
<1>. HIDE DEF f
<1>4. /\ new \in Seq(Rows) /\ OnePer(new)
      /\ \A n \in DOMAIN new : \E i \in J : new[n] = f[i]
  <2>1. \A i \in J : f[i].inst = i
    BY <1>1
  <2>. QED  BY <1>2, <2>1, RowPerInstrument
<1>. HIDE DEF new
<1>. QED  BY <1>1, <1>3, <1>4

\* What a cycle flushes: trims of the positions it marks, and an entry at most for each
\* instrument it may enter.
LEMMA FlushedAre ==
  ASSUME BooksTyped, NEW p \in Portfolios, NEW d, NEW exits \in SUBSET Instruments,
         NEW granted \in SUBSET Instruments,
         \A i \in exits : ExitQty(p, i, d.exit[i]) # 0 /\ d.exit[i] \in {"full", "trim"},
         \A i \in granted : d.entry[i] \in 0 .. MaxQty /\ WholeUnits(p, d.entry[i]) # 0
  PROVE  LET rows == ExitRows(p, d, exits) \o EntryRows(p, d, granted)
         IN  /\ rows \in Seq(Rows)
             /\ \A i \in Instruments :
                  /\ Many(rows, i, "trim") > 0 => i \in exits /\ d.exit[i] = "trim"
                  /\ Many(rows, i, "entry") <= 1
                  /\ i \notin granted => Many(rows, i, "entry") = 0
<1>. DEFINE X == ExitRows(p, d, exits)
            E == EntryRows(p, d, granted)
<1>1. /\ X \in Seq(Rows)
      /\ \A n \in DOMAIN X : X[n].inst \in exits /\ X[n].kind = IF d.exit[X[n].inst] = "full" THEN "exit" ELSE "trim"
  BY ExitRowsAre
<1>2. /\ E \in Seq(Rows) /\ OnePer(E) /\ \A n \in DOMAIN E : E[n].inst \in granted /\ E[n].kind = "entry"
  BY EntryRowsAre
<1>. HIDE DEF X, E
<1>3. X \o E \in Seq(Rows)
  BY <1>1, <1>2
<1>4. ASSUME NEW i \in Instruments
      PROVE  /\ Many(X \o E, i, "trim") > 0 => i \in exits /\ d.exit[i] = "trim"
             /\ Many(X \o E, i, "entry") <= 1
             /\ i \notin granted => Many(X \o E, i, "entry") = 0
  <2>1. /\ Many(X \o E, i, "trim") = Many(X, i, "trim") + Many(E, i, "trim")
        /\ Many(X \o E, i, "entry") = Many(X, i, "entry") + Many(E, i, "entry")
    BY <1>1, <1>2, ManyConcat
  <2>2. Many(E, i, "trim") = 0
    BY <1>2, ManyNat
  <2>3. Many(X, i, "entry") = 0
    BY <1>1, ManyNat
  <2>4. ~(i \in exits /\ d.exit[i] = "trim") => Many(X, i, "trim") = 0
    <3>. SUFFICES ASSUME ~(i \in exits /\ d.exit[i] = "trim") PROVE Many(X, i, "trim") = 0
      OBVIOUS
    <3>1. \A n \in DOMAIN X : ~(X[n].inst = i /\ X[n].kind = "trim")
      BY <1>1
    <3>. QED  BY <1>1, <3>1, ManyNat
  <2>5. Many(E, i, "entry") <= 1
    BY <1>2, ManyOne DEF OnePer
  <2>6. i \notin granted => Many(E, i, "entry") = 0
    BY <1>2, ManyNat
  <2>7. Many(X, i, "trim") \in Nat /\ Many(E, i, "entry") \in Nat
    BY <1>1, <1>2, ManyNat
  <2>. QED  BY <2>1, <2>2, <2>3, <2>4, <2>5, <2>6, <2>7
<1>. QED  BY <1>3, <1>4 DEF X, E

-----------------------------------------------------------------------------
(* The invariant of the books.                                             *)

\* What a cycle decided still holds when it comes to placing.
PlanHolds(t, b) ==
  t.at \in {"deciding", "placing"} =>
    \A i \in Instruments : /\ t.plan.exit[i] = "trim" => ~b.pos[i].laddered
                           /\ t.plan.stop[i] > 0 => t.plan.stop[i] > b.pos[i].stop

\* An entry that is working when a cycle places was seen to be pending.
PendingSeen(t, b) ==
  t.at = "placing" => \A i \in Instruments \ t.pending : Many(b.orders, i, "entry") = 0

\* What a cycle has flushed still holds when it comes to committing: it marks what it trims,
\* positions nobody has marked, raises stops, and adds its entries to none.
PlacedHolds(t, b) ==
  t.at = "committing" =>
    \A i \in Instruments : /\ i \in t.new.marked => ~b.pos[i].laddered
                           /\ t.new.stops[i] > 0 => t.new.stops[i] > b.pos[i].stop
                           /\ Many(t.new.rows, i, "trim") > 0 => i \in t.new.marked
                           /\ Many(b.orders, i, "entry") + Many(t.new.rows, i, "entry") <= 1

TurnHolds(t, b) == PlanHolds(t, b) /\ PendingSeen(t, b) /\ PlacedHolds(t, b)
TurnsHold == \A c \in Callers : TurnHolds(turn[c], book[turn[c].p])

\* Passes place stop orders only.
PassesPlain ==
  \A w \in Matchers, q \in Portfolios :
    \A n \in DOMAIN pass[w].rows[q] : pass[w].rows[q][n].kind = "stop"

\* The rest of the state is well formed.
FrameTyped ==
  /\ active \subseteq Portfolios /\ quote \in [Instruments -> 0 .. Top]
  /\ held \in [Range(Process) -> SUBSET Portfolios] /\ advisory \subseteq Portfolios
  /\ turn \in [Callers -> Turns] /\ pass \in [Matchers -> Passes]

EngineInv == LockInv /\ FrameTyped /\ BooksTyped /\ TurnsHold /\ PassesPlain

\* The turn of a caller outside its cycle is a turn, and a pass that has not begun is a pass.
LEMMA IdleIsTurn ==
  Idle \in Turns /\ NoPass \in Passes
<1>1. (CHOOSE p \in Portfolios : TRUE) \in Portfolios
  BY EngineAssumption
<1>2. NoPlan \in Plans
  BY EngineAssumption DEF NoPlan, Plan, Plans
<1>3. Nothing \in Placements
  BY EngineAssumption DEF Nothing, Placements
<1>4. NoRows \in [Portfolios -> Seq(Rows)]
  BY DEF NoRows
<1>. QED  BY <1>1, <1>2, <1>3, <1>4 DEF Idle, Turns, NoPass, Passes

-----------------------------------------------------------------------------
(* What passes, users and other cycles may do to what a cycle relies on.   *)

\* A book that keeps its stops and marks, and has no entries and trims that were not there.
BookGoes(b, next) ==
  /\ next = [pos |-> next.pos, orders |-> next.orders]
  /\ next.pos \in [Instruments -> Positions] /\ next.orders \in Seq(Rows)
  /\ Follows(b.pos, next.pos)
  /\ \A i \in Instruments : /\ Many(next.orders, i, "entry") <= Many(b.orders, i, "entry")
                             /\ Many(next.orders, i, "trim") <= Many(b.orders, i, "trim")

\* A turn that is told at most that positions were closed.
TurnGoes(t, u) ==
  /\ u \in Turns /\ u.at = t.at /\ u.p = t.p /\ u.plan = t.plan /\ u.pending = t.pending
  /\ u.new.rows = t.new.rows /\ u.new.marked = t.new.marked /\ u.new.stops = t.new.stops

\* A book that does not change is one.
LEMMA BookStays ==
  ASSUME BooksTyped, NEW p \in Portfolios
  PROVE  BookGoes(book[p], book[p])
<1>1. \A i \in Instruments : \A kind : Many(book[p].orders, i, kind) \in Nat
  BY ManyNat DEF BooksTyped
<1>. QED  BY <1>1 DEF BookGoes, Follows, BooksTyped

\* So what a cycle relies on goes on.
LEMMA TurnGoesOn ==
  ASSUME NEW t \in Turns, NEW u, TurnGoes(t, u),
         NEW b, b.orders \in Seq(Rows), NEW next, BookGoes(b, next), TurnHolds(t, b)
  PROVE  TurnHolds(u, next)
<1>1. \A i \in Instruments :
        /\ next.pos[i].laddered => b.pos[i].laddered
        /\ \/ next.pos[i].stop = b.pos[i].stop
           \/ next.pos[i].stop = 0
  BY DEF BookGoes, Follows
<1>2. PlanHolds(u, next)
  <2>. SUFFICES ASSUME u.at \in {"deciding", "placing"}, NEW i \in Instruments
                PROVE  /\ u.plan.exit[i] = "trim" => ~next.pos[i].laddered
                       /\ u.plan.stop[i] > 0 => u.plan.stop[i] > next.pos[i].stop
    BY DEF PlanHolds
  <2>1. /\ u.plan.exit[i] = "trim" => ~b.pos[i].laddered
        /\ u.plan.stop[i] > 0 => u.plan.stop[i] > b.pos[i].stop
    BY DEF TurnHolds, PlanHolds, TurnGoes
  <2>. QED  BY <1>1, <2>1
<1>3. \A i \in Instruments :
        /\ Many(next.orders, i, "entry") \in Nat /\ Many(b.orders, i, "entry") \in Nat
        /\ Many(next.orders, i, "entry") <= Many(b.orders, i, "entry")
  BY ManyNat DEF BookGoes
<1>4. PendingSeen(u, next)
  <2>. SUFFICES ASSUME u.at = "placing", NEW i \in Instruments \ u.pending
                PROVE  Many(next.orders, i, "entry") = 0
    BY DEF PendingSeen
  <2>1. Many(b.orders, i, "entry") = 0
    BY DEF TurnHolds, PendingSeen, TurnGoes
  <2>. QED  BY <1>3, <2>1
<1>5. PlacedHolds(u, next)
  <2>. SUFFICES ASSUME u.at = "committing", NEW i \in Instruments
                PROVE  /\ i \in u.new.marked => ~next.pos[i].laddered
                       /\ u.new.stops[i] > 0 => u.new.stops[i] > next.pos[i].stop
                       /\ Many(u.new.rows, i, "trim") > 0 => i \in u.new.marked
                       /\ Many(next.orders, i, "entry") + Many(u.new.rows, i, "entry") <= 1
    BY DEF PlacedHolds
  <2>1. /\ i \in u.new.marked => ~b.pos[i].laddered
        /\ u.new.stops[i] > 0 => u.new.stops[i] > b.pos[i].stop
        /\ Many(u.new.rows, i, "trim") > 0 => i \in u.new.marked
        /\ Many(b.orders, i, "entry") + Many(u.new.rows, i, "entry") <= 1
    BY DEF TurnHolds, PlacedHolds, TurnGoes
  <2>2. Many(u.new.rows, i, "entry") \in Nat
    <3>1. u.new.rows \in Seq(Rows)
      BY DEF TurnGoes, Turns, Placements
    <3>. QED  BY <3>1, ManyNat
  <2>. QED  BY <1>1, <1>3, <2>1, <2>2
<1>. QED  BY <1>2, <1>4, <1>5 DEF TurnHolds

\* Steps of no cycle leave the books in order, and cycles what they rely on.
LEMMA OthersKeep ==
  ASSUME EngineInv, DOMAIN book' = Portfolios, \A p \in Portfolios : BookGoes(book[p], book'[p]),
         \A c \in Callers : TurnGoes(turn[c], turn'[c])
  PROVE  BooksTyped' /\ TurnsHold'
<1>1. BooksTyped'
  <2>. SUFFICES ASSUME NEW p \in Portfolios, NEW i \in Instruments
                PROVE  Many(book'[p].orders, i, "entry") <= 1
    BY DEF BooksTyped, BookGoes
  <2>1. Many(book'[p].orders, i, "entry") \in Nat /\ Many(book[p].orders, i, "entry") \in Nat
    BY ManyNat DEF EngineInv, BooksTyped, BookGoes
  <2>. QED  BY <2>1 DEF EngineInv, BooksTyped, BookGoes
<1>2. TurnsHold'
  <2>. SUFFICES ASSUME NEW c \in Callers PROVE TurnHolds(turn'[c], book'[turn'[c].p])
    BY DEF TurnsHold
  <2>1. turn[c] \in Turns /\ turn[c].p \in Portfolios
    BY DEF EngineInv, FrameTyped, Turns
  <2>2. PICK p, t, u : p = turn[c].p /\ t = turn[c] /\ u = turn'[c]
    OBVIOUS
  <2>3. p \in Portfolios /\ t \in Turns /\ TurnGoes(t, u) /\ TurnHolds(t, book[p])
    BY <2>1, <2>2 DEF EngineInv, TurnsHold
  <2>4. book[p].orders \in Seq(Rows) /\ BookGoes(book[p], book'[p])
    BY <2>3 DEF EngineInv, BooksTyped
  <2>5. TurnHolds(u, book'[p])
    BY <2>3, <2>4, TurnGoesOn
  <2>6. turn'[c].p = p
    BY <2>2, <2>3 DEF TurnGoes
  <2>. QED  BY <2>2, <2>5, <2>6
<1>. QED  BY <1>1, <1>2

\* A step of one cycle that leaves the books alone changes what that cycle relies on.
LEMMA CycleKeeps ==
  ASSUME EngineInv, UNCHANGED <<active, quote, book, pass>>, NEW c \in Callers, NEW u \in Turns,
         turn' = [turn EXCEPT ![c] = u], TurnHolds(u, book[u.p]),
         held' \in [Range(Process) -> SUBSET Portfolios], advisory' \subseteq Portfolios
  PROVE  FrameTyped' /\ BooksTyped' /\ TurnsHold' /\ PassesPlain'
<1>1. turn \in [Callers -> Turns] /\ FrameTyped /\ BooksTyped /\ TurnsHold /\ PassesPlain
  BY DEF EngineInv, FrameTyped
<1>2. turn' \in [Callers -> Turns] /\ turn'[c] = u /\ \A e \in Callers \ {c} : turn'[e] = turn[e]
  BY <1>1
<1>3. FrameTyped'
  BY <1>1, <1>2 DEF FrameTyped
<1>4. BooksTyped' /\ PassesPlain'
  BY <1>1 DEF BooksTyped, PassesPlain
<1>5. TurnsHold'
  BY <1>1, <1>2 DEF TurnsHold
<1>. QED  BY <1>3, <1>4, <1>5

-----------------------------------------------------------------------------
(* Steps of cycles.                                                        *)

\* Pending instruments are instruments, and the others have no working entry.
LEMMA PendingIs ==
  ASSUME BooksTyped, NEW p \in Portfolios
  PROVE  /\ Pending(p) \in SUBSET Instruments
         /\ \A i \in Instruments \ Pending(p) : Many(book[p].orders, i, "entry") = 0
<1>1. PICK rows : rows = book[p].orders /\ rows \in Seq(Rows)
  BY DEF BooksTyped
<1>2. Pending(p) = {rows[n].inst : n \in DOMAIN rows}
  BY <1>1 DEF Pending, Range
<1>3. \A n \in DOMAIN rows : rows[n].inst \in Instruments
  BY <1>1, RowsNumbered DEF Rows
<1>4. ASSUME NEW i \in Instruments \ Pending(p)
      PROVE  Many(rows, i, "entry") = 0
  <2>1. \A n \in DOMAIN rows : ~(rows[n].inst = i /\ rows[n].kind = "entry")
    BY <1>2
  <2>. QED  BY <1>1, <2>1, ManyNat
<1>. QED  BY <1>1, <1>2, <1>3, <1>4

\* A cycle begins with nothing decided.
LEMMA AcquireGoes ==
  ASSUME EngineInv, NEW c \in Callers, NEW p \in Managed, Acquire(c, p)
  PROVE  FrameTyped' /\ BooksTyped' /\ TurnsHold' /\ PassesPlain'
<1>1. PICK u : u = [Idle EXCEPT !.at = "reading", !.p = p]
  OBVIOUS
<1>2. u \in Turns /\ u.at = "reading" /\ u.p = p /\ p \in Portfolios
  BY <1>1, IdleIsTurn, EngineAssumption DEF Turns
<1>3. TurnHolds(u, book[u.p])
  BY <1>2 DEF TurnHolds, PlanHolds, PendingSeen, PlacedHolds
<1>4. turn' = [turn EXCEPT ![c] = u] /\ UNCHANGED <<active, quote, book, pass>>
  BY <1>1 DEF Acquire
<1>5. held' \in [Range(Process) -> SUBSET Portfolios] /\ advisory' \subseteq Portfolios
  BY <1>2 DEF Acquire, EngineInv, FrameTyped
<1>. QED  BY <1>2, <1>3, <1>4, <1>5, CycleKeeps

\* What is decided may be decided for the positions as they are.
LEMMA DecideGoes ==
  ASSUME EngineInv, NEW c \in Callers, Decide(c)
  PROVE  FrameTyped' /\ BooksTyped' /\ TurnsHold' /\ PassesPlain'
<1>1. PICK t : t = turn[c] /\ t \in Turns
  BY DEF EngineInv, FrameTyped
<1>2. PICK d \in Decisions(book[t.p].pos) : turn' = [turn EXCEPT ![c].plan = d, ![c].at = "deciding"]
  BY <1>1 DEF Decide
<1>3. PICK u : u = [t EXCEPT !.plan = d, !.at = "deciding"]
  OBVIOUS
<1>4. /\ d \in Plans
      /\ \A i \in Instruments : /\ d.exit[i] = "trim" => ~book[t.p].pos[i].laddered
                                /\ d.stop[i] > 0 => d.stop[i] > book[t.p].pos[i].stop
  BY DEF Decisions
<1>5. u \in Turns /\ u.at = "deciding" /\ u.p = t.p /\ u.plan = d
  BY <1>1, <1>3, <1>4 DEF Turns
<1>6. TurnHolds(u, book[u.p])
  BY <1>4, <1>5 DEF TurnHolds, PlanHolds, PendingSeen, PlacedHolds
<1>7. turn' = [turn EXCEPT ![c] = u]
  BY <1>1, <1>2, <1>3
<1>8. /\ UNCHANGED <<active, quote, book, pass>>
      /\ held' \in [Range(Process) -> SUBSET Portfolios] /\ advisory' \subseteq Portfolios
  BY DEF Decide, EngineInv, FrameTyped
<1>. QED  BY <1>5, <1>6, <1>7, <1>8, CycleKeeps

\* What is pending is read as it is.
LEMMA ReadPendingGoes ==
  ASSUME EngineInv, NEW c \in Callers, ReadPending(c)
  PROVE  FrameTyped' /\ BooksTyped' /\ TurnsHold' /\ PassesPlain'
<1>1. PICK t : t = turn[c] /\ t \in Turns /\ t.at = "deciding" /\ TurnHolds(t, book[t.p])
  BY DEF ReadPending, EngineInv, FrameTyped, TurnsHold
<1>2. t.p \in Portfolios
  BY <1>1 DEF Turns
<1>3. PICK S : S = Pending(t.p)
  OBVIOUS
<1>4. S \in SUBSET Instruments /\ \A i \in Instruments \ S : Many(book[t.p].orders, i, "entry") = 0
  BY <1>2, <1>3, PendingIs DEF EngineInv
<1>5. PICK u : u = [t EXCEPT !.pending = S, !.at = "placing"]
  OBVIOUS
<1>6. u \in Turns /\ u.at = "placing" /\ u.p = t.p /\ u.plan = t.plan /\ u.pending = S
  BY <1>1, <1>4, <1>5 DEF Turns
<1>7. TurnHolds(u, book[u.p])
  <2>1. PlanHolds(u, book[u.p])
    BY <1>1, <1>6 DEF TurnHolds, PlanHolds
  <2>2. PendingSeen(u, book[u.p]) /\ PlacedHolds(u, book[u.p])
    BY <1>4, <1>6 DEF PendingSeen, PlacedHolds
  <2>. QED  BY <2>1, <2>2 DEF TurnHolds
<1>8. turn' = [turn EXCEPT ![c] = u]
  <2>1. turn' = [turn EXCEPT ![c].pending = S, ![c].at = "placing"]
    BY <1>1, <1>3 DEF ReadPending
  <2>. QED  BY <1>1, <1>5, <2>1
<1>9. /\ UNCHANGED <<active, quote, book, pass>>
      /\ held' \in [Range(Process) -> SUBSET Portfolios] /\ advisory' \subseteq Portfolios
  BY DEF ReadPending, EngineInv, FrameTyped
<1>. QED  BY <1>6, <1>7, <1>8, <1>9, CycleKeeps

\* What a cycle has flushed, for the exits and the entries it was granted.
Flushed(p, d, exits, granted, stops) ==
  [rows |-> ExitRows(p, d, exits) \o EntryRows(p, d, granted),
   marked |-> {i \in exits : d.exit[i] = "trim"}, stops |-> stops, gone |-> {}]

\* It exits what it decided to exit, and enters only what had no working order.
LEMMA ExecuteIs ==
  ASSUME NEW c \in Callers, Execute(c)
  PROVE  LET p == turn[c].p
             d == turn[c].plan
         IN  \E exits \in SUBSET Instruments, granted \in SUBSET Instruments, hit \in SUBSET Instruments :
               /\ \A i \in exits : d.exit[i] # "none" /\ ExitQty(p, i, d.exit[i]) # 0
               /\ \A i \in granted : /\ d.entry[i] > 0 /\ i \notin turn[c].pending
                                     /\ WholeUnits(p, d.entry[i]) # 0
               /\ turn' = [turn EXCEPT ![c] = [Idle EXCEPT !.at = "committing", !.p = p, !.new =
                    Flushed(p, d, exits, granted, [i \in Instruments |-> IF i \in hit THEN d.stop[i] ELSE 0])]]
<1>. DEFINE p == turn[c].p
            d == turn[c].plan
            pos == book[p].pos
            asked == {i \in Instruments : d.exit[i] # "none" /\ i \notin turn[c].pending /\ pos[i].qty > 0}
            badExit == {i \in asked : ExitQty(p, i, d.exit[i]) = 0}
            wanted == {i \in Instruments : d.entry[i] > 0 /\ i \notin turn[c].pending}
            badEntry == {i \in wanted : WholeUnits(p, d.entry[i]) = 0}
            hit == {i \in Instruments : badExit = {} /\ pos[i].qty > 0}
            stops == [i \in Instruments |-> IF badExit = {} /\ pos[i].qty > 0 THEN d.stop[i] ELSE 0]
<1>1. PICK exits \in SUBSET (asked \ badExit), entries \in SUBSET (wanted \ badEntry),
           granted \in SUBSET wanted :
        /\ granted \subseteq entries
        /\ turn' = [turn EXCEPT ![c] = [Idle EXCEPT !.at = "committing", !.p = p, !.new =
             [rows |-> ExitRows(p, d, exits) \o EntryRows(p, d, granted),
              marked |-> {i \in exits : d.exit[i] = "trim"}, stops |-> stops, gone |-> {}]]]
  BY Zenon DEF Execute
<1>2. stops = [i \in Instruments |-> IF i \in hit THEN d.stop[i] ELSE 0]
  OBVIOUS
<1>3. exits \in SUBSET Instruments /\ granted \in SUBSET Instruments /\ hit \in SUBSET Instruments
  BY <1>1
<1>4. \A i \in exits : d.exit[i] # "none" /\ ExitQty(p, i, d.exit[i]) # 0
  BY <1>1
<1>5. \A i \in granted : d.entry[i] > 0 /\ i \notin turn[c].pending /\ WholeUnits(p, d.entry[i]) # 0
  BY <1>1
<1>. HIDE DEF hit, stops, asked, badExit, wanted, badEntry
<1>6. turn' = [turn EXCEPT ![c] = [Idle EXCEPT !.at = "committing", !.p = p, !.new =
                Flushed(p, d, exits, granted, [i \in Instruments |-> IF i \in hit THEN d.stop[i] ELSE 0])]]
  BY <1>1, <1>2, Zenon DEF Flushed
<1>7. \E X \in SUBSET Instruments, G \in SUBSET Instruments, H \in SUBSET Instruments :
         /\ \A i \in X : d.exit[i] # "none" /\ ExitQty(p, i, d.exit[i]) # 0
         /\ \A i \in G : d.entry[i] > 0 /\ i \notin turn[c].pending /\ WholeUnits(p, d.entry[i]) # 0
         /\ turn' = [turn EXCEPT ![c] = [Idle EXCEPT !.at = "committing", !.p = p, !.new =
              Flushed(p, d, X, G, [i \in Instruments |-> IF i \in H THEN d.stop[i] ELSE 0])]]
  <2>. USE <1>3
  <2>. WITNESS exits \in SUBSET Instruments, granted \in SUBSET Instruments, hit \in SUBSET Instruments
  <2>. QED  BY <1>4, <1>5, <1>6, Zenon
<1>. QED  BY <1>7, Zenon

\* What is flushed is what was decided, and no entry joins another.
LEMMA ExecuteGoes ==
  ASSUME EngineInv, NEW c \in Callers, Execute(c)
  PROVE  FrameTyped' /\ BooksTyped' /\ TurnsHold' /\ PassesPlain'
<1>. DEFINE t == turn[c]
            p == t.p
            d == t.plan
            b == book[p]
<1>1. PICK exits \in SUBSET Instruments, granted \in SUBSET Instruments, hit \in SUBSET Instruments :
        /\ \A i \in exits : d.exit[i] # "none" /\ ExitQty(p, i, d.exit[i]) # 0
        /\ \A i \in granted : d.entry[i] > 0 /\ i \notin t.pending /\ WholeUnits(p, d.entry[i]) # 0
        /\ turn' = [turn EXCEPT ![c] = [Idle EXCEPT !.at = "committing", !.p = p, !.new =
             Flushed(p, d, exits, granted, [i \in Instruments |-> IF i \in hit THEN d.stop[i] ELSE 0])]]
  BY ExecuteIs, Zenon
<1>2. t \in Turns /\ t.at = "placing" /\ TurnHolds(t, b) /\ b = book[p] /\ d = t.plan /\ p = t.p
  BY DEF Execute, EngineInv, FrameTyped, TurnsHold
<1>. HIDE DEF t, p, d, b
<1>3. p \in Portfolios /\ d \in Plans /\ t.pending \in SUBSET Instruments
  BY <1>2 DEF Turns
<1>4. /\ b.orders \in Seq(Rows) /\ \A i \in Instruments : Many(b.orders, i, "entry") <= 1
  BY <1>2, <1>3 DEF EngineInv, BooksTyped
<1>5. \A i \in Instruments : /\ d.exit[i] = "trim" => ~b.pos[i].laddered
                             /\ d.stop[i] > 0 => d.stop[i] > b.pos[i].stop
                             /\ i \notin t.pending => Many(b.orders, i, "entry") = 0
  BY <1>2 DEF TurnHolds, PlanHolds, PendingSeen
<1>7. exits \in SUBSET Instruments
  OBVIOUS
<1>8. PICK stops : stops = [i \in Instruments |-> IF i \in hit THEN d.stop[i] ELSE 0]
  OBVIOUS
<1>9. /\ stops \in [Instruments -> 0 .. Top]
      /\ \A i \in Instruments : stops[i] > 0 => stops[i] > b.pos[i].stop
  BY <1>3, <1>5, <1>8, EngineAssumption DEF Plans
<1>10. PICK rows : rows = ExitRows(p, d, exits) \o EntryRows(p, d, granted)
  OBVIOUS
<1>11. /\ rows \in Seq(Rows)
       /\ \A i \in Instruments :
            /\ Many(rows, i, "trim") > 0 => i \in exits /\ d.exit[i] = "trim"
            /\ Many(rows, i, "entry") <= 1
            /\ i \notin granted => Many(rows, i, "entry") = 0
  <2>1. \A i \in exits : ExitQty(p, i, d.exit[i]) # 0 /\ d.exit[i] \in {"full", "trim"}
    BY <1>1, <1>3, <1>7 DEF Plans
  <2>2. \A i \in granted : d.entry[i] \in 0 .. MaxQty /\ WholeUnits(p, d.entry[i]) # 0
    BY <1>1, <1>3, EngineAssumption DEF Plans
  <2>. QED  BY <1>3, <1>7, <1>10, <2>1, <2>2, FlushedAre DEF EngineInv
<1>12. PICK new : /\ new = Flushed(p, d, exits, granted, stops)
                  /\ new.rows = rows /\ new.marked = {i \in exits : d.exit[i] = "trim"} /\ new.stops = stops
                  /\ new \in Placements
  <2>1. {i \in exits : d.exit[i] = "trim"} \subseteq Instruments
    BY <1>7
  <2>. DEFINE marked == {i \in exits : d.exit[i] = "trim"}
  <2>2. Flushed(p, d, exits, granted, stops) = [rows |-> rows, marked |-> marked, stops |-> stops, gone |-> {}]
    BY <1>10 DEF Flushed
  <2>3. marked \subseteq Instruments
    BY <2>1
  <2>. HIDE DEF marked
  <2>4. [rows |-> rows, marked |-> marked, stops |-> stops, gone |-> {}] \in Placements
    BY <1>9, <1>11, <2>3 DEF Placements
  <2>. QED  BY <2>2, <2>4 DEF marked
<1>13. PICK u : u = [Idle EXCEPT !.at = "committing", !.p = p, !.new = new]
  OBVIOUS
<1>14. u \in Turns /\ u.at = "committing" /\ u.p = p /\ u.new = new
  BY <1>3, <1>12, <1>13, IdleIsTurn DEF Turns
<1>15. PlacedHolds(u, b)
  <2>. SUFFICES ASSUME NEW i \in Instruments
                PROVE  /\ i \in new.marked => ~b.pos[i].laddered
                       /\ new.stops[i] > 0 => new.stops[i] > b.pos[i].stop
                       /\ Many(new.rows, i, "trim") > 0 => i \in new.marked
                       /\ Many(b.orders, i, "entry") + Many(new.rows, i, "entry") <= 1
    BY <1>14 DEF PlacedHolds
  <2>1. Many(b.orders, i, "entry") \in Nat /\ Many(rows, i, "entry") \in Nat
    BY <1>4, <1>11, ManyNat
  <2>2. Many(b.orders, i, "entry") + Many(rows, i, "entry") <= 1
    BY <1>1, <1>4, <1>5, <1>11, <2>1
  <2>. QED  BY <1>5, <1>9, <1>11, <1>12, <2>2
<1>16. TurnHolds(u, book[u.p])
  <2>1. PlanHolds(u, b) /\ PendingSeen(u, b)
    BY <1>14 DEF PlanHolds, PendingSeen
  <2>. QED  BY <1>2, <1>14, <1>15, <2>1 DEF TurnHolds
<1>17. turn' = [turn EXCEPT ![c] = u]
  BY <1>1, <1>8, <1>12, <1>13
<1>18. /\ UNCHANGED <<active, quote, book, pass>>
       /\ held' \in [Range(Process) -> SUBSET Portfolios] /\ advisory' \subseteq Portfolios
  <2>1. UNCHANGED <<active, quote, book, held, advisory, pass>>
    BY Zenon DEF Execute
  <2>. QED  BY <2>1 DEF EngineInv, FrameTyped
<1>. QED  BY <1>14, <1>16, <1>17, <1>18, CycleKeeps

\* What a commit does to positions: it marks and raises stops, and changes nothing else.
LEMMA MarkedIs ==
  ASSUME NEW pos \in [Instruments -> Positions], NEW new \in Placements
  PROVE  /\ Marked(pos, new) \in [Instruments -> Positions]
         /\ \A i \in Instruments :
              /\ \/ Marked(pos, new)[i].stop = pos[i].stop
                 \/ new.stops[i] > 0 /\ Marked(pos, new)[i].stop = new.stops[i]
              /\ pos[i].laddered => Marked(pos, new)[i].laddered
              /\ i \in new.marked /\ i \notin new.gone => Marked(pos, new)[i].laddered
<1>1. ASSUME NEW i \in Instruments
      PROVE  /\ Marked(pos, new)[i] \in Positions
             /\ \/ Marked(pos, new)[i].stop = pos[i].stop
                \/ new.stops[i] > 0 /\ Marked(pos, new)[i].stop = new.stops[i]
             /\ pos[i].laddered => Marked(pos, new)[i].laddered
             /\ i \in new.marked /\ i \notin new.gone => Marked(pos, new)[i].laddered
  <2>1. PICK x, s, m : x = pos[i] /\ s = new.stops[i] /\ m = (i \in new.marked)
    OBVIOUS
  <2>2. x \in Positions /\ s \in 0 .. Top
    BY <2>1 DEF Placements
  <2>3. CASE i \in new.gone
    <3>1. Marked(pos, new)[i] = x
      BY <2>1, <2>3 DEF Marked
    <3>. QED  BY <2>1, <2>2, <2>3, <3>1
  <2>4. CASE i \notin new.gone
    <3>1. Marked(pos, new)[i] = [x EXCEPT !.laddered = x.laddered \/ m, !.stop = IF s > 0 THEN s ELSE x.stop]
      BY <2>1, <2>4 DEF Marked
    <3>2. PICK y : y = Marked(pos, new)[i]
      OBVIOUS
    <3>3. y.qty = x.qty /\ y.laddered = (x.laddered \/ m) /\ y.stop = IF s > 0 THEN s ELSE x.stop
      BY <2>2, <3>1, <3>2 DEF Positions
    <3>4. y \in Positions
      BY <2>2, <3>1, <3>2 DEF Positions
    <3>. QED  BY <2>1, <3>2, <3>3, <3>4
  <2>. QED  BY <2>3, <2>4
<1>2. DOMAIN Marked(pos, new) = Instruments /\ Marked(pos, new) = [i \in Instruments |-> Marked(pos, new)[i]]
  BY DEF Marked
<1>3. Marked(pos, new) \in [Instruments -> Positions]
  BY <1>1, <1>2
<1>. QED  BY <1>1, <1>3

\* The book a commit leaves, and those it leaves alone.
LEMMA CommitIs ==
  ASSUME EngineInv, NEW c \in Callers, Commit(c)
  PROVE  LET p == turn[c].p
             new == turn[c].new
         IN  /\ p \in Portfolios /\ new \in Placements /\ turn[c].at = "committing"
             /\ DOMAIN book' = Portfolios
             /\ book'[p] = [pos |-> Marked(book[p].pos, new), orders |-> book[p].orders \o new.rows]
             /\ \A q \in Portfolios \ {p} : book'[q] = book[q]
             /\ turn' = [turn EXCEPT ![c] = Idle]
<1>1. turn[c] \in Turns /\ DOMAIN book = Portfolios
  BY DEF EngineInv, FrameTyped, BooksTyped
<1>2. turn[c].p \in Portfolios /\ turn[c].new \in Placements
  BY <1>1 DEF Turns
<1>3. /\ book' = [book EXCEPT ![turn[c].p] =
                    [pos |-> Marked(@.pos, turn[c].new), orders |-> @.orders \o turn[c].new.rows]]
      /\ turn[c].at = "committing" /\ turn' = [turn EXCEPT ![c] = Idle]
  BY DEF Commit
<1>. QED  BY <1>1, <1>2, <1>3

\* What is committed is what was placed, on what the book has become since.
LEMMA CommitGoes ==
  ASSUME EngineInv, NEW c \in Callers, Commit(c)
  PROVE  FrameTyped' /\ BooksTyped' /\ TurnsHold' /\ PassesPlain'
<1>. DEFINE t == turn[c]
            p == t.p
            new == t.new
            pos == Marked(book[p].pos, new)
            orders == book[p].orders \o new.rows
<1>1. /\ p \in Portfolios /\ new \in Placements /\ t.at = "committing"
      /\ DOMAIN book' = Portfolios /\ book'[p] = [pos |-> pos, orders |-> orders]
      /\ \A q \in Portfolios \ {p} : book'[q] = book[q]
      /\ turn' = [turn EXCEPT ![c] = Idle]
  BY CommitIs, Zenon
<1>2. /\ DOMAIN book = Portfolios /\ book[p].pos \in [Instruments -> Positions]
      /\ book[p].orders \in Seq(Rows) /\ new.rows \in Seq(Rows)
  BY <1>1 DEF EngineInv, BooksTyped, Placements
<1>3. TurnHolds(t, book[p])
  BY DEF EngineInv, TurnsHold
<1>4. pos \in [Instruments -> Positions]
  BY <1>1, <1>2, MarkedIs
<1>5. orders \in Seq(Rows)
  BY <1>2
<1>6. \A i \in Instruments : Many(orders, i, "entry") <= 1
  <2>. TAKE i \in Instruments
  <2>1. Many(orders, i, "entry") = Many(book[p].orders, i, "entry") + Many(new.rows, i, "entry")
    BY <1>2, ManyConcat
  <2>2. Many(book[p].orders, i, "entry") + Many(new.rows, i, "entry") <= 1
    BY <1>1, <1>3 DEF TurnHolds, PlacedHolds
  <2>. QED  BY <2>1, <2>2
<1>7. turn \in [Callers -> Turns] /\ turn' \in [Callers -> Turns] /\ turn'[c].at = "idle"
      /\ \A e \in Callers \ {c} : turn'[e] = turn[e]
  BY <1>1, IdleIsTurn, IdleTurn DEF EngineInv, FrameTyped
<1>8. \A e \in Callers \ {c} : turn[e].at # "idle" => turn[e].p # p
  BY <1>1 DEF EngineInv, LockInv, OneCycleEach, InCycle
<1>9. \A e \in Callers : turn[e].p \in Portfolios
  BY <1>7 DEF Turns
<1>10. /\ held' \in [Range(Process) -> SUBSET Portfolios] /\ advisory' \subseteq Portfolios
       /\ UNCHANGED <<active, quote, pass>>
  BY DEF Commit, Unlock, EngineInv, FrameTyped
<1>. HIDE DEF t, p, new, pos, orders
<1>11. BooksTyped'
  <2>. SUFFICES ASSUME NEW q \in Portfolios
                PROVE  /\ book'[q] = [pos |-> book'[q].pos, orders |-> book'[q].orders]
                       /\ book'[q].pos \in [Instruments -> Positions] /\ book'[q].orders \in Seq(Rows)
                       /\ \A i \in Instruments : Many(book'[q].orders, i, "entry") <= 1
    BY <1>1 DEF BooksTyped
  <2>1. CASE q = p
    BY <1>1, <1>4, <1>5, <1>6, <2>1
  <2>2. CASE q # p
    BY <1>1, <2>2 DEF EngineInv, BooksTyped
  <2>. QED  BY <2>1, <2>2
<1>12. TurnsHold'
  <2>. SUFFICES ASSUME NEW e \in Callers PROVE TurnHolds(turn'[e], book'[turn'[e].p])
    BY DEF TurnsHold
  <2>1. CASE turn'[e].at = "idle"
    BY <2>1 DEF TurnHolds, PlanHolds, PendingSeen, PlacedHolds
  <2>2. CASE turn'[e].at # "idle"
    <3>1. e # c /\ turn'[e] = turn[e]
      BY <1>7, <2>2
    <3>2. turn[e].p \in Portfolios \ {p}
      BY <1>8, <1>9, <2>2, <3>1
    <3>3. book'[turn[e].p] = book[turn[e].p]
      BY <1>1, <3>2
    <3>. QED  BY <3>1, <3>3 DEF EngineInv, TurnsHold
  <2>. QED  BY <2>1, <2>2
<1>13. FrameTyped' /\ PassesPlain'
  BY <1>7, <1>10 DEF EngineInv, FrameTyped, PassesPlain
<1>. QED  BY <1>11, <1>12, <1>13

-----------------------------------------------------------------------------
(* Steps of nobody's cycle.                                                *)

\* What a process had not committed leaves the books as they are.
LEMMA CrashGoes ==
  ASSUME EngineInv, NEW s, Crash(s)
  PROVE  FrameTyped' /\ BooksTyped' /\ TurnsHold' /\ PassesPlain'
<1>. DEFINE dead == {c \in Callers : Process[c] = s}
            lost == {w \in Matchers : Process[w] = s}
            freed == {turn[c].p : c \in {x \in dead : InCycle(x)}}
<1>1. /\ turn' = [c \in Callers |-> IF c \in dead THEN Idle ELSE turn[c]]
      /\ pass' = [w \in Matchers |-> IF w \in lost THEN NoPass ELSE pass[w]]
      /\ held' = [held EXCEPT ![s] = {}] /\ advisory' = advisory \ freed
      /\ UNCHANGED <<active, quote, book>>
  BY DEF Crash
<1>. HIDE DEF dead, lost, freed
<1>2. turn \in [Callers -> Turns] /\ pass \in [Matchers -> Passes]
  BY DEF EngineInv, FrameTyped
<1>3. turn' \in [Callers -> Turns] /\ \A c \in Callers : turn'[c] = Idle \/ turn'[c] = turn[c]
  BY <1>1, <1>2, IdleIsTurn
<1>4. pass' \in [Matchers -> Passes] /\ \A w \in Matchers : pass'[w] = NoPass \/ pass'[w] = pass[w]
  BY <1>1, <1>2, IdleIsTurn
<1>5. FrameTyped'
  BY <1>1, <1>3, <1>4 DEF EngineInv, FrameTyped
<1>6. BooksTyped'
  BY <1>1 DEF EngineInv, BooksTyped
<1>7. TurnsHold'
  <2>. SUFFICES ASSUME NEW c \in Callers PROVE TurnHolds(turn'[c], book'[turn'[c].p])
    BY DEF TurnsHold
  <2>1. CASE turn'[c] = Idle
    BY <2>1, IdleTurn DEF TurnHolds, PlanHolds, PendingSeen, PlacedHolds
  <2>2. CASE turn'[c] = turn[c]
    BY <1>1, <2>2 DEF EngineInv, TurnsHold
  <2>. QED  BY <1>3, <2>1, <2>2
<1>8. PassesPlain'
  <2>. SUFFICES ASSUME NEW w \in Matchers, NEW q \in Portfolios, NEW n \in DOMAIN pass'[w].rows[q]
                PROVE  pass'[w].rows[q][n].kind = "stop"
    BY DEF PassesPlain
  <2>1. pass'[w] # NoPass
    BY DEF NoPass, NoRows
  <2>. QED  BY <1>4, <2>1 DEF EngineInv, PassesPlain
<1>. QED  BY <1>5, <1>6, <1>7, <1>8

\* A pass that acts on stops has rows for them and nothing else.
LEMMA LookGoes ==
  ASSUME EngineInv, NEW w \in Matchers, NEW p \in Portfolios, Look(w, p)
  PROVE  FrameTyped' /\ BooksTyped' /\ TurnsHold' /\ PassesPlain'
<1>1. PICK rows : rows = [q \in Portfolios |-> StopRows(q, Hits(p))]
  OBVIOUS
<1>2. \A q \in Portfolios : /\ StopRows(q, Hits(p)) \in Seq(Rows)
                            /\ \A n \in DOMAIN StopRows(q, Hits(p)) : StopRows(q, Hits(p))[n].kind = "stop"
  <2>. TAKE q \in Portfolios
  <2>1. \A x \in Hits(p) : WholeUnits(x[1], book[x[1]].pos[x[2]].qty) # 0
    BY DEF Look, Raises
  <2>2. PICK hits : hits = Hits(p)
    OBVIOUS
  <2>3. \A i \in Instruments : <<q, i>> \in hits => WholeUnits(q, book[q].pos[i].qty) # 0
    BY <2>1, <2>2
  <2>. QED  BY <2>2, <2>3, StopRowsAre DEF EngineInv
<1>3. rows \in [Portfolios -> Seq(Rows)]
      /\ \A q \in Portfolios : \A n \in DOMAIN rows[q] : rows[q][n].kind = "stop"
  BY <1>1, <1>2
<1>4. PICK x : x = [at |-> "placed", p |-> p, rows |-> rows]
  OBVIOUS
<1>5. x \in Passes /\ x.rows = rows
  BY <1>3, <1>4 DEF Passes
<1>6. pass' = [pass EXCEPT ![w] = x] /\ UNCHANGED <<active, quote, book, held, advisory, turn>>
  BY <1>1, <1>4 DEF Look
<1>7. pass \in [Matchers -> Passes]
  BY DEF EngineInv, FrameTyped
<1>8. pass' \in [Matchers -> Passes] /\ \A v \in Matchers : pass'[v] = pass[v] \/ pass'[v] = x
  BY <1>5, <1>6, <1>7
<1>9. FrameTyped' /\ BooksTyped' /\ TurnsHold'
  BY <1>6, <1>8 DEF EngineInv, FrameTyped, BooksTyped, TurnsHold
<1>10. PassesPlain'
  <2>. SUFFICES ASSUME NEW v \in Matchers, NEW q \in Portfolios, NEW n \in DOMAIN pass'[v].rows[q]
                PROVE  pass'[v].rows[q][n].kind = "stop"
    BY DEF PassesPlain
  <2>1. CASE pass'[v] = pass[v]
    BY <2>1 DEF EngineInv, PassesPlain
  <2>2. CASE pass'[v] = x
    BY <1>3, <1>5, <2>2
  <2>. QED  BY <1>8, <2>1, <2>2
<1>. QED  BY <1>9, <1>10

\* Orders of which none is an entry or a trim add none to those before them.
LEMMA StopsAddNothing ==
  ASSUME NEW A \in Seq(Rows), NEW B \in Seq(Rows), \A n \in DOMAIN B : B[n].kind = "stop",
         NEW i, NEW kind \in {"entry", "trim"}
  PROVE  Many(A \o B, i, kind) = Many(A, i, kind)
<1>1. \A n \in DOMAIN B : ~(B[n].inst = i /\ B[n].kind = kind)
  OBVIOUS
<1>2. Many(B, i, kind) = 0 /\ Many(A, i, kind) \in Nat
  BY <1>1, ManyNat
<1>. QED  BY <1>2, ManyConcat

\* A cycle that is told of closed positions has what it had.
LEMMA ToldGoes ==
  ASSUME NEW p, NEW gone \in SUBSET Instruments, turn \in [Callers -> Turns], NEW c \in Callers
  PROVE  TurnGoes(turn[c], Told(p, gone)[c])
<1>1. PICK t : t = turn[c] /\ t \in Turns
  OBVIOUS
<1>2. PICK x : x = t.new /\ x \in Placements
  BY <1>1 DEF Turns
<1>3. PICK y : y = [x EXCEPT !.gone = x.gone \cup gone]
  OBVIOUS
<1>4. y \in Placements /\ y.rows = x.rows /\ y.marked = x.marked /\ y.stops = x.stops
  BY <1>2, <1>3 DEF Placements
<1>5. PICK u : u = [t EXCEPT !.new = y]
  OBVIOUS
<1>6. TurnGoes(t, u)
  BY <1>1, <1>2, <1>4, <1>5 DEF TurnGoes, Turns
<1>7. TurnGoes(t, t)
  BY <1>1 DEF TurnGoes
<1>8. Told(p, gone)[c] = u \/ Told(p, gone)[c] = t
  BY <1>1, <1>2, <1>3, <1>5 DEF Told
<1>. QED  BY <1>1, <1>6, <1>7, <1>8

\* A pass takes orders away and closes positions; its stops are neither entries nor trims.
LEMMA WorksGo ==
  ASSUME EngineInv, NEW p \in Portfolios, NEW own \in [Portfolios -> Seq(Rows)],
         \A q \in Portfolios : \A n \in DOMAIN own[q] : own[q][n].kind = "stop", Works(p, own)
  PROVE  /\ DOMAIN book' = Portfolios /\ \A q \in Portfolios : BookGoes(book[q], book'[q])
         /\ DOMAIN turn' = Callers /\ \A c \in Callers : TurnGoes(turn[c], turn'[c])
<1>. DEFINE orders == book[p].orders \o own[p]
            done(fate) == Stages(p, book[p].pos, orders, fate)[Len(orders)]
<1>1. PICK fate \in Fates(p, orders) :
        /\ \A i \in Instruments : done(fate).pos[i].qty <= MaxQty
        /\ book' = [q \in Portfolios |-> IF q = p THEN [pos |-> done(fate).pos, orders |-> done(fate).orders]
                                         ELSE [book[q] EXCEPT !.orders = @ \o own[q]]]
        /\ turn' = Told(p, done(fate).gone)
  BY Zenon DEF Works
<1>2. /\ book[p].pos \in [Instruments -> Positions] /\ book[p].orders \in Seq(Rows) /\ own[p] \in Seq(Rows)
      /\ turn \in [Callers -> Turns]
  BY DEF EngineInv, BooksTyped, FrameTyped
<1>3. orders \in Seq(Rows)
  BY <1>2
<1>4. fate \in Outcomes(orders)
  BY DEF Fates, Outcomes
<1>5. PICK d : d = done(fate)
  OBVIOUS
<1>6. /\ d.pos \in [Instruments -> Held] /\ Follows(book[p].pos, d.pos)
      /\ d.orders \in Seq(Rows) /\ d.gone \subseteq Instruments
      /\ \A i, kind : Many(d.orders, i, kind) <= Many(orders, i, kind)
  <2>1. /\ done(fate).pos \in [Instruments -> Held] /\ Follows(book[p].pos, done(fate).pos)
        /\ done(fate).orders \in Seq(Rows) /\ done(fate).gone \subseteq Instruments
        /\ \A i, kind : Many(done(fate).orders, i, kind) <= Many(orders, i, kind)
    <3>. HIDE DEF orders
    <3>1. /\ Stages(p, book[p].pos, orders, fate)[Len(orders)].pos \in [Instruments -> Held]
          /\ Follows(book[p].pos, Stages(p, book[p].pos, orders, fate)[Len(orders)].pos)
          /\ Stages(p, book[p].pos, orders, fate)[Len(orders)].orders \in Seq(Rows)
          /\ Stages(p, book[p].pos, orders, fate)[Len(orders)].gone \subseteq Instruments
          /\ \A i, kind : Many(Stages(p, book[p].pos, orders, fate)[Len(orders)].orders, i, kind)
                          <= Many(orders, i, kind)
      BY <1>2, <1>3, <1>4, WorkedOK, Zenon
    <3>. QED  BY <3>1, Zenon
  <2>. HIDE DEF done
  <2>. QED  BY <1>5, <2>1
<1>7. /\ \A i \in Instruments : d.pos[i].qty <= MaxQty
      /\ book' = [q \in Portfolios |-> IF q = p THEN [pos |-> d.pos, orders |-> d.orders]
                                       ELSE [book[q] EXCEPT !.orders = @ \o own[q]]]
      /\ turn' = Told(p, d.gone)
  <2>. HIDE DEF done
  <2>. QED  BY <1>1, <1>5
<1>8. \A i \in Instruments, kind \in {"entry", "trim"} :
        Many(orders, i, kind) = Many(book[p].orders, i, kind)
  BY <1>2, StopsAddNothing
<1>. HIDE DEF orders, done
<1>9. BookGoes(book[p], book'[p])
  <2>1. book'[p] = [pos |-> d.pos, orders |-> d.orders]
    BY <1>7
  <2>2. d.pos \in [Instruments -> Positions]
    <3>1. MaxQty \in Nat
      BY EngineAssumption
    <3>2. \A i \in Instruments : d.pos[i] \in Held /\ d.pos[i].qty <= MaxQty
      BY <1>6, <1>7
    <3>3. \A x \in Held : x.qty <= MaxQty => x \in Positions
      BY <3>1 DEF Held, Positions
    <3>. QED  BY <1>6, <3>2, <3>3
  <2>3. \A i \in Instruments : /\ Many(d.orders, i, "entry") <= Many(book[p].orders, i, "entry")
                               /\ Many(d.orders, i, "trim") <= Many(book[p].orders, i, "trim")
    BY <1>6, <1>8
  <2>. QED  BY <1>6, <2>1, <2>2, <2>3 DEF BookGoes
<1>10. ASSUME NEW q \in Portfolios \ {p}
       PROVE  BookGoes(book[q], book'[q])
  <2>1. PICK b : b = book[q] /\ b = [pos |-> b.pos, orders |-> b.orders]
    BY DEF EngineInv, BooksTyped
  <2>2. b.pos \in [Instruments -> Positions] /\ b.orders \in Seq(Rows) /\ own[q] \in Seq(Rows)
    BY <2>1 DEF EngineInv, BooksTyped
  <2>3. book'[q] = [b EXCEPT !.orders = b.orders \o own[q]]
    BY <1>7, <2>1
  <2>4. book'[q] = [pos |-> b.pos, orders |-> b.orders \o own[q]]
    BY <2>1, <2>3
  <2>5. \A i \in Instruments, kind \in {"entry", "trim"} : /\ Many(b.orders \o own[q], i, kind) = Many(b.orders, i, kind)
                                                           /\ Many(b.orders, i, kind) \in Nat
    BY <2>2, StopsAddNothing, ManyNat
  <2>6. b.orders \o own[q] \in Seq(Rows)
    BY <2>2
  <2>. QED  BY <2>1, <2>2, <2>4, <2>5, <2>6 DEF BookGoes, Follows
<1>11. DOMAIN turn' = Callers /\ \A c \in Callers : TurnGoes(turn[c], turn'[c])
  BY <1>2, <1>6, <1>7, ToldGoes DEF Told
<1>. QED  BY <1>7, <1>9, <1>10, <1>11

\* Steps that leave cycles and passes what they are.
LEMMA PassGoes ==
  ASSUME EngineInv, UNCHANGED <<quote, held, advisory>>, active' \subseteq Portfolios,
         pass' \in [Matchers -> Passes], PassesPlain',
         DOMAIN turn' = Callers, turn' = [c \in Callers |-> turn'[c]],
         \A c \in Callers : TurnGoes(turn[c], turn'[c]),
         DOMAIN book' = Portfolios, \A q \in Portfolios : BookGoes(book[q], book'[q])
  PROVE  FrameTyped' /\ BooksTyped' /\ TurnsHold' /\ PassesPlain'
<1>1. BooksTyped' /\ TurnsHold'
  BY OthersKeep
<1>2. \A c \in Callers : turn'[c] \in Turns
  BY DEF TurnGoes
<1>3. turn' \in [Callers -> Turns]
  BY <1>2
<1>. QED  BY <1>1, <1>3 DEF EngineInv, FrameTyped

\* A pass that has looked commits the stops it placed with the rest.
LEMMA WorkGoes ==
  ASSUME EngineInv, NEW w \in Matchers, Work(w)
  PROVE  FrameTyped' /\ BooksTyped' /\ TurnsHold' /\ PassesPlain'
<1>1. PICK x : x = pass[w] /\ x \in Passes
  BY DEF EngineInv, FrameTyped
<1>2. /\ x.p \in Portfolios /\ x.rows \in [Portfolios -> Seq(Rows)]
      /\ \A q \in Portfolios : \A n \in DOMAIN x.rows[q] : x.rows[q][n].kind = "stop"
  BY <1>1 DEF Passes, EngineInv, PassesPlain
<1>3. Works(x.p, x.rows) /\ pass' = [pass EXCEPT ![w] = NoPass] /\ UNCHANGED <<active, quote, held, advisory>>
  BY <1>1, Zenon DEF Work
<1>4. /\ DOMAIN book' = Portfolios /\ \A q \in Portfolios : BookGoes(book[q], book'[q])
      /\ DOMAIN turn' = Callers /\ \A c \in Callers : TurnGoes(turn[c], turn'[c])
  BY <1>2, <1>3, WorksGo
<1>5. \E p, gone : turn' = Told(p, gone)
  BY <1>3, Zenon DEF Works
<1>6. turn' = [c \in Callers |-> turn'[c]]
  BY <1>5 DEF Told
<1>7. pass \in [Matchers -> Passes] /\ NoPass \in Passes
  BY IdleIsTurn DEF EngineInv, FrameTyped
<1>8. pass' \in [Matchers -> Passes] /\ \A v \in Matchers : pass'[v] = pass[v] \/ pass'[v] = NoPass
  BY <1>3, <1>7
<1>9. PassesPlain'
  <2>. SUFFICES ASSUME NEW v \in Matchers, NEW q \in Portfolios, NEW n \in DOMAIN pass'[v].rows[q]
                PROVE  pass'[v].rows[q][n].kind = "stop"
    BY DEF PassesPlain
  <2>1. pass'[v] # NoPass
    BY DEF NoPass, NoRows
  <2>. QED  BY <1>8, <2>1 DEF EngineInv, PassesPlain
<1>10. active' \subseteq Portfolios
  BY <1>3 DEF EngineInv, FrameTyped
<1>. QED  BY <1>3, <1>4, <1>6, <1>8, <1>9, <1>10, PassGoes

\* So does one that finds no stop to act on.
LEMMA MatchGoes ==
  ASSUME EngineInv, NEW p \in Portfolios, Match(p)
  PROVE  FrameTyped' /\ BooksTyped' /\ TurnsHold' /\ PassesPlain'
<1>1. NoRows \in [Portfolios -> Seq(Rows)] /\ \A q \in Portfolios : DOMAIN NoRows[q] = {}
  BY DEF NoRows
<1>2. Works(p, NoRows) /\ UNCHANGED <<active, quote, held, advisory, pass>>
  BY Zenon DEF Match
<1>3. /\ DOMAIN book' = Portfolios /\ \A q \in Portfolios : BookGoes(book[q], book'[q])
      /\ DOMAIN turn' = Callers /\ \A c \in Callers : TurnGoes(turn[c], turn'[c])
  BY <1>1, <1>2, WorksGo
<1>4. \E q, gone : turn' = Told(q, gone)
  BY <1>2, Zenon DEF Works
<1>5. turn' = [c \in Callers |-> turn'[c]]
  BY <1>4 DEF Told
<1>6. active' \subseteq Portfolios /\ pass' \in [Matchers -> Passes] /\ PassesPlain'
  BY <1>2 DEF EngineInv, FrameTyped, PassesPlain
<1>. QED  BY <1>2, <1>3, <1>5, <1>6, PassGoes

\* A book of which the orders change, with no more entries and trims.
LEMMA OrdersChange ==
  ASSUME EngineInv, NEW p \in Portfolios, NEW orders \in Seq(Rows), book' = [book EXCEPT ![p].orders = orders],
         UNCHANGED <<active, quote, held, advisory, turn, pass>>,
         \A i \in Instruments : /\ Many(orders, i, "entry") <= Many(book[p].orders, i, "entry")
                                /\ Many(orders, i, "trim") <= Many(book[p].orders, i, "trim")
  PROVE  /\ DOMAIN book' = Portfolios /\ \A q \in Portfolios : BookGoes(book[q], book'[q])
         /\ FrameTyped' /\ BooksTyped' /\ TurnsHold' /\ PassesPlain'
<1>1. DOMAIN book = Portfolios /\ BooksTyped
  BY DEF EngineInv, BooksTyped
<1>2. PICK b : b = book[p] /\ b = [pos |-> b.pos, orders |-> b.orders] /\ b.pos \in [Instruments -> Positions]
  BY <1>1 DEF BooksTyped
<1>3. book'[p] = [b EXCEPT !.orders = orders]
  BY <1>1, <1>2
<1>4. book'[p] = [pos |-> b.pos, orders |-> orders]
  BY <1>2, <1>3
<1>5. BookGoes(book[p], book'[p])
  BY <1>2, <1>4 DEF BookGoes, Follows
<1>6. ASSUME NEW q \in Portfolios \ {p}
      PROVE  BookGoes(book[q], book'[q])
  <2>1. book'[q] = book[q]
    BY <1>1
  <2>. QED  BY <1>1, <2>1, BookStays
<1>7. DOMAIN book' = Portfolios /\ \A q \in Portfolios : BookGoes(book[q], book'[q])
  BY <1>1, <1>5, <1>6
<1>8. turn \in [Callers -> Turns] /\ turn' = turn
  BY DEF EngineInv, FrameTyped
<1>9. \A c \in Callers : TurnGoes(turn[c], turn'[c])
  BY <1>8 DEF TurnGoes
<1>10. turn' = [c \in Callers |-> turn'[c]] /\ DOMAIN turn' = Callers
  BY <1>8
<1>11. active' \subseteq Portfolios /\ pass' \in [Matchers -> Passes] /\ PassesPlain'
  BY DEF EngineInv, FrameTyped, PassesPlain
<1>. QED  BY <1>7, <1>9, <1>10, <1>11, PassGoes

\* A user's orders are limit orders, and they cancel their own.
LEMMA UserGoes ==
  ASSUME EngineInv, NEW p \in Managed,
         (\E r \in Limits : PlaceLimit(p, r)) \/ \E n \in DOMAIN book[p].orders : CancelLimit(p, n)
  PROVE  /\ DOMAIN book' = Portfolios /\ \A q \in Portfolios : BookGoes(book[q], book'[q])
         /\ FrameTyped' /\ BooksTyped' /\ TurnsHold' /\ PassesPlain'
<1>1. p \in Portfolios /\ book[p].orders \in Seq(Rows)
  BY EngineAssumption DEF EngineInv, BooksTyped
<1>2. PICK rows : rows = book[p].orders /\ rows \in Seq(Rows)
  BY <1>1
<1>3. CASE \E r \in Limits : PlaceLimit(p, r)
  <2>1. PICK r \in Limits : PlaceLimit(p, r)
    BY <1>3
  <2>2. r \in Rows /\ r.kind = "limit"
    BY EngineAssumption DEF Limits, Rows, Kinds
  <2>3. Append(rows, r) \in Seq(Rows) /\ Append(rows, r) = rows \o << r >> /\ << r >> \in Seq(Rows)
    BY <1>2, <2>2
  <2>4. \A i \in Instruments, kind \in {"entry", "trim"} : Many(Append(rows, r), i, kind) <= Many(rows, i, kind)
    <3>. TAKE i \in Instruments, kind \in {"entry", "trim"}
    <3>1. PICK one : one = << r >> /\ one \in Seq(Rows)
      BY <2>3
    <3>2. Many(one, i, kind) = 0 /\ Many(rows, i, kind) \in Nat
      BY <1>2, <2>2, <3>1, ManySingle, ManyNat
    <3>3. Many(rows \o one, i, kind) = Many(rows, i, kind) + Many(one, i, kind)
      BY <1>2, <3>1, ManyConcat
    <3>. QED  BY <2>3, <3>1, <3>2, <3>3
  <2>5. /\ book' = [book EXCEPT ![p].orders = Append(rows, r)]
        /\ UNCHANGED <<active, quote, held, advisory, turn, pass>>
    BY <1>2, <2>1 DEF PlaceLimit
  <2>. QED  BY <1>1, <1>2, <2>3, <2>4, <2>5, OrdersChange
<1>4. CASE \E n \in DOMAIN book[p].orders : CancelLimit(p, n)
  <2>1. PICK n \in DOMAIN rows : CancelLimit(p, n)
    BY <1>2, <1>4
  <2>2. PICK rest : rest = RemoveAt(rows, n)
    OBVIOUS
  <2>3. rest \in Seq(Rows) /\ \A i, kind : Many(rest, i, kind) <= Many(rows, i, kind)
    BY <1>2, <2>2, ManyRemoved
  <2>4. /\ book' = [book EXCEPT ![p].orders = rest]
        /\ UNCHANGED <<active, quote, held, advisory, turn, pass>>
    BY <1>2, <2>1, <2>2 DEF CancelLimit
  <2>. QED  BY <1>1, <1>2, <2>3, <2>4, OrdersChange
<1>. QED  BY <1>3, <1>4

\* Quotes and pauses leave books, turns and passes alone.
LEMMA FrameGoes ==
  ASSUME EngineInv, UNCHANGED <<book, held, advisory, turn, pass>>,
         active' \subseteq Portfolios, quote' \in [Instruments -> 0 .. Top]
  PROVE  FrameTyped' /\ BooksTyped' /\ TurnsHold' /\ PassesPlain'
BY DEF EngineInv, FrameTyped, BooksTyped, TurnsHold, PassesPlain

-----------------------------------------------------------------------------
(* The invariant. *)

\* At the start there are positions that nobody has marked, and nothing else.
LEMMA EngineInit == Init => EngineInv
<1>. SUFFICES ASSUME Init PROVE EngineInv
  OBVIOUS
<1>1. PICK qty \in [Portfolios -> [Instruments -> 0 .. MaxQty]] :
        book = [p \in Portfolios |->
                  [pos |-> [i \in Instruments |->
                              [Closed EXCEPT !.qty = qty[p][i], !.stop = IF qty[p][i] = 0 THEN 0 ELSE 1]],
                   orders |-> << >>]]
  BY DEF Init
<1>2. BooksTyped
  <2>1. ASSUME NEW p \in Portfolios, NEW i \in Instruments
        PROVE  [Closed EXCEPT !.qty = qty[p][i], !.stop = IF qty[p][i] = 0 THEN 0 ELSE 1] \in Positions
    <3>1. PICK q, stop : q = qty[p][i] /\ stop = IF qty[p][i] = 0 THEN 0 ELSE 1
      OBVIOUS
    <3>2. q \in 0 .. MaxQty
      BY <1>1, <3>1
    <3>3. stop \in 0 .. Top
      BY <3>1, EngineAssumption
    <3>4. [Closed EXCEPT !.qty = q, !.stop = stop] \in Positions
      BY <3>2, <3>3 DEF Closed, Positions
    <3>. QED  BY <3>1, <3>4
  <2>2. ASSUME NEW p \in Portfolios
        PROVE  /\ book[p] = [pos |-> book[p].pos, orders |-> book[p].orders]
               /\ book[p].pos \in [Instruments -> Positions] /\ book[p].orders = << >>
    BY <1>1, <2>1
  <2>3. << >> \in Seq(Rows) /\ \A i : Many(<< >>, i, "entry") = 0
    BY ManyNone
  <2>4. ASSUME NEW p \in Portfolios, NEW i \in Instruments
        PROVE  Many(book[p].orders, i, "entry") <= 1
    <3>1. PICK rows : rows = << >> /\ rows = book[p].orders
      BY <2>2
    <3>2. Many(rows, i, "entry") = 0
      BY <2>3, <3>1
    <3>. QED  BY <3>1, <3>2
  <2>5. DOMAIN book = Portfolios
    BY <1>1
  <2>. QED  BY <2>2, <2>3, <2>4, <2>5 DEF BooksTyped
<1>3. turn = [c \in Callers |-> Idle] /\ pass = [w \in Matchers |-> NoPass]
  BY DEF Init
<1>4. FrameTyped
  <2>1. /\ active = Portfolios /\ quote = [i \in Instruments |-> 0] /\ advisory = {}
        /\ held = [s \in Range(Process) |-> {}] /\ Top \in Nat
    BY EngineAssumption DEF Init
  <2>. QED  BY <1>3, <2>1, IdleIsTurn DEF FrameTyped
<1>5. TurnsHold
  BY <1>3, IdleTurn DEF TurnsHold, TurnHolds, PlanHolds, PendingSeen, PlacedHolds
<1>6. PassesPlain
  BY <1>3 DEF PassesPlain, NoPass, NoRows
<1>. QED  BY <1>2, <1>4, <1>5, <1>6, LockInit DEF EngineInv

\* Every step keeps the invariant.
LEMMA EngineNext ==
  ASSUME EngineInv, [Next]_vars
  PROVE  EngineInv'
<1>1. LockInv'
  BY LockNext DEF EngineInv
<1>2. FrameTyped' /\ BooksTyped' /\ TurnsHold' /\ PassesPlain'
  <2>1. CASE UNCHANGED vars
    <3>1. UNCHANGED <<active, quote, book, held, advisory, turn, pass>>
      BY <2>1 DEF vars
    <3>. QED  BY <3>1, FrameGoes DEF EngineInv, FrameTyped
  <2>2. ASSUME NEW c \in Callers, CycleStep(c)
        PROVE  FrameTyped' /\ BooksTyped' /\ TurnsHold' /\ PassesPlain'
    BY <2>2, AcquireGoes, DecideGoes, ReadPendingGoes, ExecuteGoes, CommitGoes DEF CycleStep
  <2>3. ASSUME NEW s \in Range(Process), Crash(s)
        PROVE  FrameTyped' /\ BooksTyped' /\ TurnsHold' /\ PassesPlain'
    BY <2>3, CrashGoes
  <2>4. ASSUME NEW w \in Matchers, Work(w) \/ \E p \in Portfolios : Look(w, p)
        PROVE  FrameTyped' /\ BooksTyped' /\ TurnsHold' /\ PassesPlain'
    BY <2>4, WorkGoes, LookGoes
  <2>5. ASSUME NEW p \in Portfolios, Match(p)
        PROVE  FrameTyped' /\ BooksTyped' /\ TurnsHold' /\ PassesPlain'
    BY <2>5, MatchGoes
  <2>6. ASSUME NEW p \in Managed, PauseOrResume(p)
        PROVE  FrameTyped' /\ BooksTyped' /\ TurnsHold' /\ PassesPlain'
    <3>1. UNCHANGED <<quote, book, held, advisory, turn, pass>> /\ active' \subseteq Portfolios
      BY <2>6, EngineAssumption DEF PauseOrResume, EngineInv, FrameTyped
    <3>. QED  BY <3>1, FrameGoes DEF EngineInv, FrameTyped
  <2>7. ASSUME NEW p \in Managed,
               (\E r \in Limits : PlaceLimit(p, r)) \/ \E n \in DOMAIN book[p].orders : CancelLimit(p, n)
        PROVE  FrameTyped' /\ BooksTyped' /\ TurnsHold' /\ PassesPlain'
    BY <2>7, UserGoes
  <2>8. ASSUME NEW i \in Instruments, NEW price \in 0 .. Top, NewQuote(i, price)
        PROVE  FrameTyped' /\ BooksTyped' /\ TurnsHold' /\ PassesPlain'
    <3>1. /\ UNCHANGED <<active, book, held, advisory, turn, pass>>
          /\ quote' \in [Instruments -> 0 .. Top] /\ active' \subseteq Portfolios
      BY <2>8 DEF NewQuote, EngineInv, FrameTyped
    <3>. QED  BY <3>1, FrameGoes
  <2>9. CASE Next
    BY <2>9, <2>2, <2>3, <2>4, <2>5, <2>6, <2>7, <2>8 DEF Next
  <2>. QED  BY <2>1, <2>9
<1>. QED  BY <1>1, <1>2 DEF EngineInv

\* What cycles decided still holds when they place it and when they commit it, no instrument has
\* two entries working, and passes place nothing but stops: for any portfolios, instruments,
\* callers, processes, prices and bounds (DecisionCycle._execute, StopTrigger.on_quote).
THEOREM EngineInvariant == Spec => []EngineInv
<1>1. EngineInv /\ [Next]_vars => EngineInv'
  BY EngineNext
<1>. QED  BY EngineInit, <1>1, PTL DEF Spec

-----------------------------------------------------------------------------
(* What follows. *)

\* Cycles that follow each other before fills arrive never have two entries for an instrument
\* working (DecisionCycle._pending_instruments).
THEOREM EntriesNeverStack == Spec => []EntriesDoNotStack
<1>1. EngineInv => EntriesDoNotStack
  <2>. SUFFICES ASSUME EngineInv, NEW p \in Portfolios,
                       NEW m \in DOMAIN book[p].orders, NEW n \in DOMAIN book[p].orders,
                       book[p].orders[m].kind = "entry", book[p].orders[n].kind = "entry",
                       book[p].orders[m].inst = book[p].orders[n].inst
                PROVE  m = n
    BY DEF EntriesDoNotStack
  <2>1. PICK rows, i : rows = book[p].orders /\ i = rows[m].inst
    OBVIOUS
  <2>2. rows \in Seq(Rows)
    BY <2>1 DEF EngineInv, BooksTyped
  <2>3. i \in Instruments
    BY <2>1, <2>2, RowsNumbered DEF Rows
  <2>4. Many(rows, i, "entry") <= 1
    BY <2>1, <2>3 DEF EngineInv, BooksTyped
  <2>. QED  BY <2>1, <2>2, <2>4, ManyOne
<1>. QED  BY EngineInvariant, <1>1, PTL

\* The state keeps its shape, over every interleaving of cycles, passes and users.
THEOREM EngineTypes == Spec => []TypeOK
<1>1. EngineInv => TypeOK
  BY DEF EngineInv, FrameTyped, BooksTyped, TypeOK
<1>. QED  BY EngineInvariant, <1>1, PTL

\* A step is the commit of a cycle, or it leaves the stops and marks of open positions and adds
\* no trim.
LEMMA BooksGo ==
  ASSUME EngineInv, [Next]_vars
  PROVE  \/ \E c \in Callers : Commit(c)
         \/ \A p \in Portfolios : BookGoes(book[p], book'[p])
<1>1. ASSUME book' = book
      PROVE  \A p \in Portfolios : BookGoes(book[p], book'[p])
  BY <1>1, BookStays DEF EngineInv
<1>2. CASE UNCHANGED vars
  BY <1>1, <1>2 DEF vars
<1>3. ASSUME NEW c \in Callers, CycleStep(c)
      PROVE  Commit(c) \/ book' = book
  <2>1. CASE Execute(c)
    BY <2>1, Zenon DEF Execute
  <2>2. CASE (\E p \in Managed : Acquire(c, p)) \/ Decide(c) \/ ReadPending(c)
    BY <2>2 DEF Acquire, Decide, ReadPending
  <2>. QED  BY <1>3, <2>1, <2>2 DEF CycleStep
<1>4. ASSUME NEW s, Crash(s)
      PROVE  book' = book
  BY <1>4 DEF Crash
<1>5. ASSUME NEW w \in Matchers, Work(w)
      PROVE  \A p \in Portfolios : BookGoes(book[p], book'[p])
  <2>1. /\ pass[w].p \in Portfolios /\ pass[w].rows \in [Portfolios -> Seq(Rows)]
        /\ \A q \in Portfolios : \A n \in DOMAIN pass[w].rows[q] : pass[w].rows[q][n].kind = "stop"
    BY DEF EngineInv, FrameTyped, PassesPlain, Passes
  <2>2. Works(pass[w].p, pass[w].rows)
    BY <1>5, Zenon DEF Work
  <2>. QED  BY <2>1, <2>2, WorksGo
<1>6. ASSUME NEW p \in Portfolios, Match(p)
      PROVE  \A q \in Portfolios : BookGoes(book[q], book'[q])
  <2>1. NoRows \in [Portfolios -> Seq(Rows)] /\ \A q \in Portfolios : DOMAIN NoRows[q] = {}
    BY DEF NoRows
  <2>2. Works(p, NoRows)
    BY <1>6, Zenon DEF Match
  <2>. QED  BY <2>1, <2>2, WorksGo
<1>7. ASSUME NEW p \in Managed,
             (\E r \in Limits : PlaceLimit(p, r)) \/ \E n \in DOMAIN book[p].orders : CancelLimit(p, n)
      PROVE  \A q \in Portfolios : BookGoes(book[q], book'[q])
  BY <1>7, UserGoes
<1>8. ASSUME NEW x, NEW y, PauseOrResume(x) \/ NewQuote(x, y) \/ Look(x, y)
      PROVE  book' = book
  BY <1>8 DEF PauseOrResume, NewQuote, Look
<1>9. CASE Next
  BY <1>9, <1>1, <1>3, <1>4, <1>5, <1>6, <1>7, <1>8 DEF Next
<1>. QED  BY <1>2, <1>9

\* What a commit does to a book: stops rise, marks stay, and a trim that is added was not marked
\* and is now, unless its position is gone.
LEMMA CommitMarks ==
  ASSUME EngineInv, NEW c \in Callers, Commit(c), NEW p \in Portfolios, NEW i \in Instruments
  PROVE  LET now == book[p].pos[i]
             next == book'[p].pos[i]
         IN  /\ next.stop >= now.stop /\ (now.laddered => next.laddered)
             /\ Trims(book'[p].orders, i) > Trims(book[p].orders, i) =>
                  ~now.laddered /\ (next.laddered \/ Gone(p, i))
<1>. DEFINE t == turn[c]
            new == t.new
            pos == Marked(book[p].pos, new)
            rows == book[p].orders
<1>1. /\ t.p \in Portfolios /\ new \in Placements /\ t.at = "committing"
      /\ book'[t.p] = [pos |-> Marked(book[t.p].pos, new), orders |-> book[t.p].orders \o new.rows]
      /\ \A q \in Portfolios \ {t.p} : book'[q] = book[q]
  BY CommitIs, Zenon
<1>2. /\ book[p].pos \in [Instruments -> Positions] /\ rows \in Seq(Rows)
      /\ book[p].pos[i].stop \in Nat /\ Trims(rows, i) \in Nat
  <2>1. book[p].pos \in [Instruments -> Positions] /\ rows \in Seq(Rows)
    BY DEF EngineInv, BooksTyped
  <2>2. Trims(rows, i) = Many(rows, i, "trim")
    BY DEF Trims, Many
  <2>. HIDE DEF rows
  <2>. QED  BY <2>1, <2>2, ManyNat DEF Positions
<1>3. CASE p # t.p
  <2>1. book'[p] = book[p]
    BY <1>1, <1>3
  <2>. QED  BY <1>2, <2>1
<1>4. CASE p = t.p
  <2>1. TurnHolds(t, book[p])
    BY <1>4 DEF EngineInv, TurnsHold
  <2>2. /\ i \in new.marked => ~book[p].pos[i].laddered
        /\ new.stops[i] > 0 => new.stops[i] > book[p].pos[i].stop
        /\ Many(new.rows, i, "trim") > 0 => i \in new.marked
    BY <1>1, <2>1 DEF TurnHolds, PlacedHolds
  <2>3. /\ pos[i].stop = book[p].pos[i].stop \/ (new.stops[i] > 0 /\ pos[i].stop = new.stops[i])
        /\ book[p].pos[i].laddered => pos[i].laddered
        /\ i \in new.marked /\ i \notin new.gone => pos[i].laddered
    BY <1>1, <1>2, MarkedIs
  <2>4. new.stops[i] \in Nat /\ new.rows \in Seq(Rows)
    BY <1>1 DEF Placements
  <2>5. book'[p].pos = pos /\ book'[p].orders = rows \o new.rows
    <3>1. book'[p] = [pos |-> pos, orders |-> rows \o new.rows]
      BY <1>1, <1>4, Zenon
    <3>. HIDE DEF pos, rows, new
    <3>. QED  BY <3>1
  <2>6. i \in new.gone => Gone(p, i)
    BY <1>1, <1>4 DEF Gone
  <2>. HIDE DEF t, new, pos, rows
  <2>7. Trims(rows \o new.rows, i) > Trims(rows, i) => Many(new.rows, i, "trim") > 0
    <3>1. Many(rows \o new.rows, i, "trim") = Many(rows, i, "trim") + Many(new.rows, i, "trim")
      BY <1>2, <2>4, ManyConcat
    <3>2. Many(rows, i, "trim") \in Nat /\ Many(new.rows, i, "trim") \in Nat
      BY <1>2, <2>4, ManyNat
    <3>3. Trims(rows \o new.rows, i) = Many(rows \o new.rows, i, "trim") /\ Trims(rows, i) = Many(rows, i, "trim")
      BY DEF Trims, Many
    <3>. QED  BY <3>1, <3>2, <3>3
  <2>8. pos[i].stop >= book[p].pos[i].stop
    BY <1>2, <2>2, <2>3, <2>4
  <2>9. Trims(rows \o new.rows, i) > Trims(rows, i) =>
          ~book[p].pos[i].laddered /\ (pos[i].laddered \/ Gone(p, i))
    BY <2>2, <2>3, <2>6, <2>7
  <2>. QED  BY <2>3, <2>5, <2>8, <2>9 DEF rows
<1>. QED  BY <1>3, <1>4

\* A stop is never lowered while its position is open, though the cycle that raises it decided
\* minutes before and passes, users and other cycles came between (DecisionCycle._apply_stops).
THEOREM StopsNeverFall == Spec => StopsOnlyRise
<1>. DEFINE A == \A p \in Portfolios, i \in Instruments :
                   LET now == book[p].pos[i]
                       next == book'[p].pos[i]
                   IN  next.stop < now.stop => next.stop = 0 /\ ~next.laddered
<1>1. EngineInv /\ [Next]_vars => A
  <2>. SUFFICES ASSUME EngineInv, [Next]_vars, NEW p \in Portfolios, NEW i \in Instruments
                PROVE  LET now == book[p].pos[i]
                           next == book'[p].pos[i]
                       IN  next.stop < now.stop => next.stop = 0 /\ ~next.laddered
    OBVIOUS
  <2>1. PICK a, b : a = book[p].pos[i].stop /\ b = book'[p].pos[i].stop
    OBVIOUS
  <2>2. a \in Nat /\ b \in Nat
    <3>1. EngineInv'
      BY EngineNext
    <3>2. book[p].pos[i] \in Positions /\ book'[p].pos[i] \in Positions
      BY <3>1 DEF EngineInv, BooksTyped
    <3>. QED  BY <2>1, <3>2 DEF Positions
  <2>3. CASE \E c \in Callers : Commit(c)
    <3>1. b >= a
      BY <2>1, <2>3, CommitMarks
    <3>. QED  BY <2>1, <2>2, <3>1
  <2>4. CASE BookGoes(book[p], book'[p])
    <3>1. b = a \/ (b = 0 /\ book'[p].pos[i].laddered = FALSE)
      BY <2>1, <2>4 DEF BookGoes, Follows
    <3>. QED  BY <2>1, <2>2, <3>1
  <2>. QED  BY <2>3, <2>4, BooksGo
<1>2. EngineInv /\ [Next]_vars => [A]_vars
  BY <1>1
<1>. QED  BY <1>2, EngineInvariant, PTL DEF Spec, StopsOnlyRise

\* A position is trimmed once: a trim is committed only on one that is not marked and marks it,
\* unless it is gone, and the mark outlives everything but the position
\* (DecisionCycle._place_exit).
THEOREM TrimsAreOnce == Spec => TrimsOnce
<1>. DEFINE A == \A p \in Portfolios, i \in Instruments :
                   LET now == book[p].pos[i]
                       next == book'[p].pos[i]
                   IN  /\ Trims(book'[p].orders, i) > Trims(book[p].orders, i) =>
                            ~now.laddered /\ (next.laddered \/ Gone(p, i))
                       /\ now.laddered /\ ~next.laddered => next.stop = 0
<1>1. EngineInv /\ [Next]_vars => A
  <2>. SUFFICES ASSUME EngineInv, [Next]_vars, NEW p \in Portfolios, NEW i \in Instruments
                PROVE  LET now == book[p].pos[i]
                           next == book'[p].pos[i]
                       IN  /\ Trims(book'[p].orders, i) > Trims(book[p].orders, i) =>
                                ~now.laddered /\ (next.laddered \/ Gone(p, i))
                           /\ now.laddered /\ ~next.laddered => next.stop = 0
    OBVIOUS
  <2>1. CASE \E c \in Callers : Commit(c)
    BY <2>1, CommitMarks
  <2>2. CASE BookGoes(book[p], book'[p])
    <3>1. PICK m, n : m = Trims(book[p].orders, i) /\ n = Trims(book'[p].orders, i)
      OBVIOUS
    <3>2. book[p].orders \in Seq(Rows) /\ book'[p].orders \in Seq(Rows)
      BY <2>2 DEF EngineInv, BooksTyped, BookGoes
    <3>3. m = Many(book[p].orders, i, "trim") /\ n = Many(book'[p].orders, i, "trim")
      BY <3>1 DEF Trims, Many
    <3>4. m \in Nat /\ n \in Nat /\ n <= m
      BY <2>2, <3>2, <3>3, ManyNat DEF BookGoes
    <3>5. ~(Trims(book'[p].orders, i) > Trims(book[p].orders, i))
      BY <3>1, <3>4
    <3>6. \/ book'[p].pos[i].laddered = book[p].pos[i].laddered
          \/ book'[p].pos[i].stop = 0 /\ book'[p].pos[i].laddered = FALSE
      BY <2>2 DEF BookGoes, Follows
    <3>. QED  BY <3>5, <3>6
  <2>. QED  BY <2>1, <2>2, BooksGo
<1>2. EngineInv /\ [Next]_vars => [A]_vars
  BY <1>1
<1>. QED  BY <1>2, EngineInvariant, PTL DEF Spec, TrimsOnce

=============================================================================
