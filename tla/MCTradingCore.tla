--------------------------- MODULE MCTradingCore ----------------------------
(***************************************************************************)
(* Instances of TradingCore for TLC.                                       *)
(***************************************************************************)
EXTENDS TradingCore

CONSTANTS a, b, main, b1, b2, p1, p2

MCUnbounded == -1

MCBooks == {main}
MCBrokerIds == {b1, b2}

Order(c, side, q) ==
    [clientId |-> c, book |-> main, side |-> side, quantity |-> q,
     reduceOnly |-> FALSE]

\* The runs make two trades at most, the second one later than the first.
MCInstants == [x \in 1..2 |-> 10 * x]

\* Two trades of one millisecond.
TiedInstants == [x \in 1..2 |-> 10]

OneOrder == {Order(a, Buy, 2)}

\* Callers occur only as the arguments of calls.
CallerSymmetry == Permutations({p1, p2})

\* An entry and a protective exit.
EntryAndExit ==
    {Order(a, Buy, 1), [Order(b, Sell, 1) EXCEPT !.reduceOnly = TRUE]}

=============================================================================
