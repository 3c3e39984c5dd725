--------------------------- MODULE Reconciliation ---------------------------
(***************************************************************************)
(* application/reconciliation.py: ReconciliationService.reconcile as its   *)
(* five steps, each one broker call or one transaction.                    *)
(***************************************************************************)
EXTENDS Readiness, Venue

VARIABLE review   \* the reconcile call in progress, and what it has read

ReviewIdle ==
    [pc |-> "idle", brokerPositions |-> None, localPositions |-> None,
     localOrders |-> {}, brokerOrders |-> {}]

ReviewInit == review = ReviewIdle

\* Orders with a client id, as the mapping client id -> order.
ById(S, c) == CHOOSE o \in S : o.intent.clientId = c
Ids(S) == {o.intent.clientId : o \in S}

FetchPositions ==
    /\ review.pc = "idle"
    /\ review' = [ReviewIdle EXCEPT !.pc = "readLocal",
         !.brokerPositions = [b \in Books |-> VenuePosition(b)]]
    /\ UNCHANGED <<storeVars, readinessVars, venueVars>>

\* Mutant: include_terminal=True.
ReadLocalWithTerminal ==
    /\ review.pc = "readLocal"
    /\ review' = [review EXCEPT !.pc = "fetchOrders",
         !.localPositions = positions,
         !.localOrders = {orders[c] : c \in {d \in ClientIds : Exists(d)}}]
    /\ UNCHANGED <<storeVars, readinessVars, venueVars>>

\* list_positions and list_orders(include_terminal=False), one transaction.
ReadLocal ==
    /\ review.pc = "readLocal"
    /\ review' = [review EXCEPT !.pc = "fetchOrders",
         !.localPositions = positions,
         !.localOrders = {orders[c] : c \in
            {d \in ClientIds : Exists(d) /\ StatusOf(d) \notin Terminal}}]
    /\ UNCHANGED <<storeVars, readinessVars, venueVars>>

\* get_open_orders, each order under the status it is seen under.
FetchOpenOrders ==
    /\ review.pc = "fetchOrders"
    /\ \E seen \in Looks :
          review' = [review EXCEPT !.pc = "resolve",
            !.brokerOrders = {[venue[c] EXCEPT !.status = seen[c]] :
                                 c \in {d \in ClientIds : Working(d)}}]
    /\ UNCHANGED <<storeVars, readinessVars, venueVars>>

\* Mutant: an order of any status is resolved.
ProvableInAnyStatus(l) ==
    /\ l.intent.clientId \in Ids(review.brokerOrders)
    /\ LET remote == ById(review.brokerOrders, l.intent.clientId) IN
         /\ remote.intent.quantity = l.intent.quantity
         /\ remote.filled = l.filled

\* The statuses that settle an unknown outcome.
Settling ==
    {"SUBMITTED", "ACKNOWLEDGED", "WORKING", "PARTIALLY_FILLED", "FILLED",
     "CANCELED", "REJECTED", "EXPIRED"}

\* The orders that reconcile resolves: unknown outcomes that the venue lists
\* with the same quantity and the same fills as the lifecycle read earlier,
\* under a status that settles them.
Provable(l) ==
    /\ l.status = "RECONCILIATION_REQUIRED"
    /\ l.intent.clientId \in Ids(review.brokerOrders)
    /\ LET remote == ById(review.brokerOrders, l.intent.clientId) IN
         /\ remote.intent.quantity = l.intent.quantity
         /\ remote.filled = l.filled
         /\ remote.status \in Settling

Resolution(l) ==
    LET remote == ById(review.brokerOrders, l.intent.clientId) IN
    Transition(l, remote.status, remote.brokerId)

\* Saved from the lifecycles read by ReadLocal, whatever the rows say by now.
ResolveUnknown ==
    /\ review.pc = "resolve"
    /\ LET proved == {l \in review.localOrders : Provable(l)} IN
       orders' = [c \in ClientIds |->
         IF c \in Ids(proved) THEN Resolution(ById(proved, c)) ELSE orders[c]]
    /\ review' = [review EXCEPT !.pc = "record"]
    /\ UNCHANGED <<positions, claimedEvents, claimedExecutions, journal,
                   readinessVars, venueVars>>

\* save_reconciliation.  Its audit event names no order and is left out.
Record ==
    /\ review.pc = "record"
    /\ reconciliation' =
         [positionsMatch |-> review.localPositions = review.brokerPositions,
          ordersMatch |->
             Ids(review.localOrders) = Ids(review.brokerOrders)]
    /\ review' = ReviewIdle
    /\ UNCHANGED <<storeVars, killSwitch, venueVars>>

ContinueReview == ReadLocal \/ FetchOpenOrders \/ ResolveUnknown \/ Record

=============================================================================
