------------------------------ MODULE OrderBook ------------------------------
(***************************************************************************)
(* What the broker promises about orders, and nothing about how: an order  *)
(* enters once, only ever gains fills, moves along the legal transitions   *)
(* and never leaves a terminal status.                                     *)
(***************************************************************************)
EXTENDS Integers, Sequences

VARIABLE book    \* the orders, by id: [status, qty, filled]

LegalTransitions ==
  [ACCEPTED         |-> {"PARTIALLY_FILLED", "FILLED", "CANCELED", "EXPIRED"},
   PARTIALLY_FILLED |-> {"PARTIALLY_FILLED", "FILLED", "CANCELED", "EXPIRED"},
   FILLED |-> {}, CANCELED |-> {}, EXPIRED |-> {}, REJECTED |-> {}]

\* An order is first seen accepted or rejected; a seeded one is born filled.
Entered(e) ==
  \/ e.status \in {"ACCEPTED", "REJECTED"} /\ e.filled = 0
  \/ e.status = "FILLED" /\ e.filled = e.qty

\* A fill advances the quantity and never past what was asked; nothing else does.
Moved(a, b) ==
  /\ b.qty = a.qty
  /\ b.status \in LegalTransitions[a.status]
  /\ IF b.status \in {"PARTIALLY_FILLED", "FILLED"}
     THEN b.filled > a.filled /\ (b.status = "FILLED" <=> b.filled = b.qty) /\ b.filled <= b.qty
     ELSE b.filled = a.filled

Init == book = << >>

Enter == /\ Len(book') = Len(book) + 1
         /\ \A o \in DOMAIN book : book'[o] = book[o]
         /\ Entered(book'[Len(book')])

Work == /\ DOMAIN book' = DOMAIN book
        /\ \A o \in DOMAIN book : book'[o] = book[o] \/ Moved(book[o], book'[o])

Next == Enter \/ Work

Spec == Init /\ [][Next]_book

=============================================================================
