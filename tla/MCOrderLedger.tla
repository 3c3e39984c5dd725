--------------------------- MODULE MCOrderLedger ----------------------------
(***************************************************************************)
(* An instance of OrderLedger for TLC: a buy and a sell order in one book, *)
(* with partial fills, the same execution under two event keys, a fill     *)
(* that overfills, cumulative quantities that agree or not by the order of *)
(* arrival, an update for the wrong book, cancel and reject updates.       *)
(***************************************************************************)
EXTENDS OrderLedger, AuditChain

CONSTANTS buy, sell, main, other, b1, b2

MCClientIds == {buy, sell}
MCBooks == {main, other}
MCBrokerIds == {b1, b2}

MCIntent(c, side, q) ==
    [clientId |-> c, book |-> main, side |-> side, quantity |-> q,
     reduceOnly |-> FALSE]

MCIntents == {MCIntent(buy, Buy, 3), MCIntent(sell, Sell, 1)}

Fill(e, x, c, q, cum) ==
    [event |-> e, execution |-> x, order |-> c, book |-> main,
     type |-> "PARTIAL_FILL", brokerId |-> b1, quantity |-> q,
     cumulative |-> cum]

StatusReport(e, c, t, id) ==
    [event |-> e, execution |-> None, order |-> c, book |-> main, type |-> t,
     brokerId |-> id, quantity |-> 0, cumulative |-> None]

MCUpdates ==
    { Fill("e1", "x1", buy, 1, None),
      Fill("e1again", "x1", buy, 1, None),
      Fill("e2", "x2", buy, 2, 3),
      Fill("e3", "x3", buy, 2, None),
      [Fill("e4", "x4", sell, 1, None) EXCEPT !.brokerId = None],
      [Fill("e5", "x4", sell, 1, None) EXCEPT !.book = other],
      StatusReport("e6", buy, "WORKING", b1),
      StatusReport("e7", buy, "CANCELED", b1),
      StatusReport("e8", sell, "REJECTED", b2) }

MCEventKeys == {u.event : u \in MCUpdates}
MCExecutionKeys == {u.execution : u \in MCUpdates} \ {None}

=============================================================================
