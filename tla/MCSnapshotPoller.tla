-------------------------- MODULE MCSnapshotPoller --------------------------
(***************************************************************************)
(* Instances of SnapshotPoller for TLC: a buy order of three, polled       *)
(* together with a sell order of one in the same book.                     *)
(***************************************************************************)
EXTENDS SnapshotPoller

CONSTANTS a, b, main, b1, b2

MCBooks == {main}
MCBrokerIds == {b1, b2}

Order(c, side, q) ==
    [clientId |-> c, book |-> main, side |-> side, quantity |-> q,
     reduceOnly |-> FALSE]

TwoOrders == {Order(a, Buy, 3), Order(b, Sell, 1)}

=============================================================================
