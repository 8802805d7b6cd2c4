------------------------------ MODULE MCSessions ------------------------------
EXTENDS Sessions, TLC

Of(side, qty, client) == [side |-> side, qty |-> qty, client |-> client]

\* A resting sell of all that is held and a resting buy of more than the cash pays for by
\* now, so that it fills in parts; two requests under one client id would sell the same
\* again, or buy with the same cash.
MixedAsk == (1 :> Of("SELL", 2, 0)) @@ (2 :> Of("BUY", 3, 0)) @@
            (3 :> Of("SELL", 1, 9)) @@ (4 :> Of("BUY", 2, 9))

OneBuy == 1 :> Of("BUY", 1, 0)
===============================================================================
