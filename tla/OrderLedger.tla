---------------------------- MODULE OrderLedger -----------------------------
(***************************************************************************)
(* What the order and position tables promise when every call runs alone:  *)
(* the database transactions of the order gateway, the fill processor and  *)
(* the reconciliation service, one after the other, with broker updates    *)
(* arriving in any order and any number of times.                          *)
(*                                                                         *)
(* This is the abstract specification of the trading core.  Module         *)
(* TradingCore splits the calls into the steps the code runs and shows     *)
(* when it still implements this one.                                      *)
(***************************************************************************)
EXTENDS Store, FiniteSetsExt

CONSTANTS
    EventKeys,      \* keys (source, external_event_id) a broker can send
    ExecutionKeys,  \* keys (source, execution_id) a broker can send
    Updates         \* the BrokerOrderUpdates that can arrive

ASSUME UpdatesAssumption ==
    /\ Updates \subseteq UpdateShape(EventKeys, ExecutionKeys)
    /\ \A u \in Updates : WellFormed(u)
    /\ None \notin ExecutionKeys

\* Statuses under which a venue can list an order that has no fill.  An order
\* that awaits reconciliation has none: the first fill moves it on.
ResolvableUnfilled ==
    {"SUBMITTED", "ACKNOWLEDGED", "WORKING", "CANCELED", "REJECTED",
     "EXPIRED"}

Init == StoreInit

-----------------------------------------------------------------------------
(* OrderGateway.submit, one action per database transaction that writes *)

\* evaluate_order_risk rejects the intent.
RejectByRisk(i) ==
    /\ ~ Exists(i.clientId)
    /\ SaveOrder(RiskRejected(i))
    /\ journal' = Append(journal, OrderEvent("OrderRiskRejected", i.clientId))
    /\ UNCHANGED <<positions, claimedEvents, claimedExecutions>>

StartSubmission(i) ==
    /\ ~ Exists(i.clientId)
    /\ SaveOrder(Submitting(i))
    /\ journal' =
         Append(journal, OrderEvent("OrderSubmissionStarted", i.clientId))
    /\ UNCHANGED <<positions, claimedEvents, claimedExecutions>>

\* The broker's answer to a SUBMITTING order is recorded.
FinishSubmission(c, target, id) ==
    /\ StatusOf(c) = "SUBMITTING"
    /\ (id # None) <=> (target = "SUBMITTED")
    /\ SaveOrder(Transition(orders[c], target, id))
    /\ journal' = Append(journal, OrderEvent(OutcomeEvent(target), c))
    /\ UNCHANGED <<positions, claimedEvents, claimedExecutions>>

-----------------------------------------------------------------------------
(* The other writers *)

\* ReconciliationService.reconcile: the venue lists the orders of S under the
\* same quantity and the same filled quantity, with these statuses and
\* identifiers.  One transaction saves them; it writes no audit event.
Resolve(S, target, id) ==
    /\ S # {}
    /\ \A c \in S : StatusOf(c) = "RECONCILIATION_REQUIRED"
    /\ orders' = [c \in ClientIds |->
                    IF c \in S THEN Transition(orders[c], target[c], id[c])
                    ELSE orders[c]]
    /\ UNCHANGED <<positions, claimedEvents, claimedExecutions, journal>>

\* The host asks for a cancellation: request_cancel on the stored order.
AskCancel(c) ==
    /\ Exists(c)
    /\ CanRequestCancel(orders[c])
    /\ SaveOrder(RequestCancel(orders[c]))
    /\ UNCHANGED <<positions, claimedEvents, claimedExecutions, journal>>

Next ==
    \/ \E i \in Intents : RejectByRisk(i) \/ StartSubmission(i)
    \/ \E c \in ClientIds, id \in BrokerIds \cup {None},
          target \in {"SUBMITTED", "REJECTED", "RECONCILIATION_REQUIRED"} :
          FinishSubmission(c, target, id)
    \/ \E S \in SUBSET ClientIds :
          \E id \in [S -> BrokerIds], target \in [S -> ResolvableUnfilled] :
             Resolve(S, target, id)
    \/ \E c \in ClientIds : AskCancel(c)
    \/ \E u \in Updates : ProcessUpdate(u)

Spec == Init /\ [][Next]_storeVars

-----------------------------------------------------------------------------
(* Properties *)

TypeOK ==
    /\ orders \in [ClientIds -> Lifecycle \cup {None}]
    /\ \A c \in ClientIds : Exists(c) => orders[c].intent.clientId = c
    /\ positions \in [Books -> Int]
    /\ claimedEvents \subseteq EventKeys
    /\ claimedExecutions \subseteq ExecutionKeys
    /\ journal \in Seq([kind : EventKinds, order : ClientIds,
                        execution : ExecutionKeys \cup {None},
                        book : Books \cup {None}, quantity : Int,
                        position : Int])

Magnitude(q) == IF q < 0 THEN -q ELSE q

(* The filled quantity of an order is the sum of the executions the        *)
(* journal holds for it: no fill is dropped from or counted twice in the   *)
(* order row while the position row has it once.                           *)
OrderFilledIsItsExecutions ==
    \A c \in ClientIds : Exists(c) =>
       orders[c].filled =
          SumFunctionOnSet(
             [n \in FillsOf(c) |-> Magnitude(journal[n].quantity)], FillsOf(c))

(* The status of an order agrees with its fills on every path: FILLED      *)
(* exactly when nothing remains, never overfilled, and an order that was   *)
(* rejected, is being submitted or awaits reconciliation carries no fill,  *)
(* so it can be given up without forgetting exposure.                      *)
StatusAgreesWithFills ==
    \A c \in ClientIds : Exists(c) =>
       LET l == orders[c] IN
       /\ l.filled <= l.intent.quantity
       /\ l.status = "FILLED" <=> l.filled = l.intent.quantity
       /\ l.status = "PARTIALLY_FILLED" => l.filled > 0
       /\ l.status \in {"SUBMITTING", "REJECTED", "RECONCILIATION_REQUIRED"}
             => l.filled = 0

(* A terminal order never changes again, fills are never taken back and an *)
(* order keeps the broker identifier it was given, whatever the order in   *)
(* which updates, cancellations and resolutions come.                      *)
OrderOnlyAdvances ==
    [][\A c \in ClientIds : Exists(c) => Advances(orders[c], orders'[c])]_storeVars

(* Only an execution never seen before moves a position or a fill: a       *)
(* duplicate, a rollback, a cancellation or a resolution never does.       *)
ExposureNeedsNewExecution ==
    [][claimedExecutions' = claimedExecutions =>
          /\ positions' = positions
          /\ \A c \in ClientIds :
                Exists(c) => orders'[c].filled = orders[c].filled]_storeVars

=============================================================================
