------------------------------ MODULE MCMarket ------------------------------
(* Instances of Market for TLC. *)
EXTENDS Market

OneClass == <<"stock">>
TwoClasses == <<"etf", "stock">>
AllStock == [i \in Instruments |-> "stock"]
OneOfEach == [i \in Instruments |-> IF i = 1 THEN "etf" ELSE "stock"]

=============================================================================
