------------------------------- MODULE Store --------------------------------
(***************************************************************************)
(* The durable state of storage/sqlite.py and the one transaction that     *)
(* application/fills.py runs on it.  A transaction of SQLiteStore runs     *)
(* under BEGIN IMMEDIATE and either commits whole or rolls back whole, so  *)
(* a transaction that reads and writes nothing outside the database is one *)
(* atomic step.                                                            *)
(***************************************************************************)
EXTENDS OrderLifecycle, Sequences, Functions

VARIABLES
    orders,             \* table orders: client id -> lifecycle, None if absent
    positions,          \* table positions: book -> signed quantity (absent: 0)
    claimedEvents,      \* table processed_external_events
    claimedExecutions,  \* table processed_executions
    journal             \* table events, in sequence order

storeVars == <<orders, positions, claimedEvents, claimedExecutions, journal>>

Exists(c) == orders[c] # None
StatusOf(c) == IF Exists(c) THEN orders[c].status ELSE "ABSENT"

StoreInit ==
    /\ orders = [c \in ClientIds |-> None]
    /\ positions = [b \in Books |-> 0]
    /\ claimedEvents = {}
    /\ claimedExecutions = {}
    /\ journal = << >>

\* The event types of the audit journal that belong to an order.
EventKinds ==
    {"OrderRiskRejected", "OrderSubmissionStarted", "OrderSubmitted",
     "BrokerSubmissionRejected", "BrokerSubmissionOutcomeUnknown",
     "OrderFillApplied", "BrokerOrderUpdateApplied"}

\* An audit event about an order that reports no execution.
OrderEvent(kind, c) ==
    [kind |-> kind, order |-> c, execution |-> None, book |-> None,
     quantity |-> 0, position |-> 0]

\* The audit event of a broker's answer that leads to status target.
OutcomeEvent(target) ==
    IF target = "SUBMITTED" THEN "OrderSubmitted"
    ELSE IF target = "REJECTED" THEN "BrokerSubmissionRejected"
    ELSE "BrokerSubmissionOutcomeUnknown"

\* Mutant: the event records the position before the fill.
FillEventBefore(u, l) ==
    [kind |-> "OrderFillApplied", order |-> u.order,
     execution |-> u.execution, book |-> u.book,
     quantity |-> l.intent.side * u.quantity,
     position |-> positions[u.book]]

\* The OrderFillApplied event: what was filled, signed, and the position after.
FillEvent(u, l) ==
    [kind |-> "OrderFillApplied", order |-> u.order,
     execution |-> u.execution, book |-> u.book,
     quantity |-> l.intent.side * u.quantity,
     position |-> positions[u.book] + l.intent.side * u.quantity]

SaveOrder(l) == orders' = [orders EXCEPT ![l.intent.clientId] = l]

-----------------------------------------------------------------------------
(* FillProcessor.process: one transaction, four ways out. *)

\* The event key is already claimed: nothing is written.
IgnoreDuplicateEvent(u) ==
    /\ u.event \in claimedEvents
    /\ UNCHANGED storeVars

\* The execution key is already claimed under another event key: returning
\* from inside the transaction commits the claim of the new event key.
IgnoreDuplicateExecution(u) ==
    /\ u.event \notin claimedEvents
    /\ u.execution \in claimedExecutions
    /\ claimedEvents' = claimedEvents \cup {u.event}
    /\ UNCHANGED <<orders, positions, claimedExecutions, journal>>

\* Mutant: the execution key is not looked at.
FreshByEvent(u) == u.event \notin claimedEvents

Fresh(u) ==
    /\ u.event \notin claimedEvents
    /\ u.execution \notin claimedExecutions

\* Mutant: an update without an execution claims its None too.
ClaimedByAny(u) == {u.execution}

\* claim_execution is called for updates with an execution only.
ClaimedBy(u) == IF u.execution = None THEN {} ELSE {u.execution}

\* Mutant: the claims are committed before the order is looked up.
RollBackKeepingClaims(u) ==
    /\ Fresh(u)
    /\ Exists(u.order) => ~ UpdateAccepted(orders[u.order], u)
    /\ claimedEvents' = claimedEvents \cup {u.event}
    /\ claimedExecutions' = claimedExecutions \cup ClaimedBy(u)
    /\ UNCHANGED <<orders, positions, journal>>

\* The order is unknown or apply_broker_update raises: the rollback takes the
\* claims back too.
RollBackUpdate(u) ==
    /\ Fresh(u)
    /\ Exists(u.order) => ~ UpdateAccepted(orders[u.order], u)
    /\ UNCHANGED storeVars

\* Mutant: the side is ignored.
PositionAfterUnsigned(l, u) ==
    IF IsFill(u) THEN [positions EXCEPT ![u.book] = @ + u.quantity]
    ELSE positions

\* Position.apply_fill, as far as the signed quantity goes.
PositionAfter(l, u) ==
    IF IsFill(u)
    THEN [positions EXCEPT ![u.book] = @ + l.intent.side * u.quantity]
    ELSE positions

CommitUpdate(u) ==
    /\ Fresh(u)
    /\ Exists(u.order)
    /\ UpdateAccepted(orders[u.order], u)
    /\ LET l == orders[u.order] IN
         /\ SaveOrder(ApplyUpdate(l, u))
         /\ positions' = PositionAfter(l, u)
         /\ journal' = Append(journal,
              IF IsFill(u) THEN FillEvent(u, l)
              ELSE OrderEvent("BrokerOrderUpdateApplied", u.order))
    /\ claimedEvents' = claimedEvents \cup {u.event}
    /\ claimedExecutions' = claimedExecutions \cup ClaimedBy(u)

ProcessUpdate(u) ==
    \/ IgnoreDuplicateEvent(u)
    \/ IgnoreDuplicateExecution(u)
    \/ RollBackUpdate(u)
    \/ CommitUpdate(u)

-----------------------------------------------------------------------------
(* What a row may become *)

\* Row l2 may stand where row l1 stood.
Advances(l1, l2) ==
    /\ l2 # None
    /\ l1.status \in Terminal => l2 = l1
    /\ l2.filled >= l1.filled
    /\ l1.brokerId # None => l2.brokerId = l1.brokerId
    /\ l2.intent = l1.intent

-----------------------------------------------------------------------------
(* What the journal says *)

FillEntries == {n \in 1..Len(journal) : journal[n].kind = "OrderFillApplied"}
FillsIn(b) == {n \in FillEntries : journal[n].book = b}
FillsOf(c) == {n \in FillEntries : journal[n].order = c}

(* However often and under however many event keys an execution is         *)
(* reported, it is applied once, and an execution key is claimed only      *)
(* together with its effect: FillProcessor.process claims, applies and     *)
(* journals in one transaction.                                            *)
ExecutionsCountedOnce ==
    /\ \A m, n \in FillEntries :
          journal[m].execution = journal[n].execution => m = n
    /\ claimedExecutions = {journal[n].execution : n \in FillEntries}

\* Entries m and n are consecutive fills of book b.
NextFill(b, m, n) == m < n /\ \A k \in FillsIn(b) : k <= m \/ n <= k

(* The audit journal reproduces the position table: the first              *)
(* OrderFillApplied entry of a book starts from a flat position, every     *)
(* other one continues from the one before it, and the table holds what    *)
(* the last one recorded.                                                  *)
JournalReplaysPositions ==
    \A b \in Books :
       /\ FillsIn(b) = {} => positions[b] = 0
       /\ \A n \in FillsIn(b) :
             /\ (\A m \in FillsIn(b) : n <= m) =>
                   journal[n].position = journal[n].quantity
             /\ \A m \in FillsIn(b) : NextFill(b, m, n) =>
                   journal[n].position =
                      journal[m].position + journal[n].quantity
             /\ (\A m \in FillsIn(b) : m <= n) =>
                   positions[b] = journal[n].position

-----------------------------------------------------------------------------
(* What the order table says *)

\* The orders of book b, and what order c adds to the position of its book.
OrdersIn(b) == {c \in ClientIds : Exists(c) /\ orders[c].intent.book = b}
SignedFill(c) == orders[c].intent.side * orders[c].filled

(* The order table and the position table tell the same exposure: a        *)
(* position is what the orders of its book filled, signed by their sides.  *)
PositionsMatchOrders ==
    \A b \in Books :
       positions[b] =
          SumFunctionOnSet([c \in OrdersIn(b) |-> SignedFill(c)], OrdersIn(b))

=============================================================================
