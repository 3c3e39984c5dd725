--------------------------- MODULE OrderLifecycle ---------------------------
(***************************************************************************)
(* The pure order state machine of application/lifecycle.py and            *)
(* domain/orders.py: which statuses follow which, how a broker update is   *)
(* checked against an order, and what the order becomes.  A function of    *)
(* the code that raises is a predicate here (the condition under which it  *)
(* returns) beside the operator that gives the returned value.             *)
(*                                                                         *)
(* Quantities are natural numbers of the instrument's quantity step.       *)
(* Average prices, reject reasons and timestamps are left out: no branch   *)
(* of the state machine reads them.                                        *)
(***************************************************************************)
EXTENDS Integers, FiniteSets

CONSTANTS
    Intents,     \* the OrderIntents that callers may submit
    ClientIds,   \* client order identifiers
    Books,       \* (account_id, instrument_id) pairs
    BrokerIds,   \* order identifiers assigned by a broker
    None         \* Python's None

Buy  == 1
Sell == -1

Intent ==
    [clientId : ClientIds, book : Books, side : {Buy, Sell},
     quantity : Nat \ {0}, reduceOnly : BOOLEAN]

\* OrderIntent.__post_init__ refuses a quantity that is not positive.
ASSUME IntentsAssumption == Intents \subseteq Intent

Status ==
    {"PLANNED", "RISK_APPROVED", "SUBMITTING", "SUBMITTED", "ACKNOWLEDGED",
     "WORKING", "PARTIALLY_FILLED", "PENDING_CANCEL", "CANCELED", "FILLED",
     "REJECTED", "EXPIRED", "RECONCILIATION_REQUIRED"}

Terminal == {"CANCELED", "FILLED", "REJECTED", "EXPIRED"}

\* The table _ALLOWED, as a relation.
Allowed ==
    UNION {
      {"PLANNED"}          \X {"RISK_APPROVED", "REJECTED"},
      {"RISK_APPROVED"}    \X {"SUBMITTING", "REJECTED"},
      {"SUBMITTING"}       \X {"SUBMITTED", "REJECTED",
                               "RECONCILIATION_REQUIRED"},
      {"SUBMITTED"}        \X {"ACKNOWLEDGED", "WORKING", "PARTIALLY_FILLED",
                               "FILLED", "PENDING_CANCEL", "CANCELED",
                               "REJECTED", "RECONCILIATION_REQUIRED"},
      {"ACKNOWLEDGED"}     \X {"WORKING", "PARTIALLY_FILLED", "FILLED",
                               "PENDING_CANCEL", "CANCELED", "REJECTED",
                               "EXPIRED", "RECONCILIATION_REQUIRED"},
      {"WORKING"}          \X {"PARTIALLY_FILLED", "FILLED", "PENDING_CANCEL",
                               "CANCELED", "REJECTED", "EXPIRED",
                               "RECONCILIATION_REQUIRED"},
      {"PARTIALLY_FILLED"} \X {"PARTIALLY_FILLED", "FILLED", "PENDING_CANCEL",
                               "CANCELED", "EXPIRED",
                               "RECONCILIATION_REQUIRED"},
      {"PENDING_CANCEL"}   \X {"PENDING_CANCEL", "FILLED", "CANCELED",
                               "RECONCILIATION_REQUIRED"},
      {"RECONCILIATION_REQUIRED"}
                           \X {"SUBMITTED", "ACKNOWLEDGED", "WORKING",
                               "PARTIALLY_FILLED", "FILLED", "CANCELED",
                               "REJECTED", "EXPIRED"} }

Lifecycle ==
    [intent : Intents, status : Status, filled : Nat,
     brokerId : BrokerIds \cup {None}]

\* None differs from every value it stands beside (an empty broker identifier
\* is falsy in the code, like None).
ASSUME NoneAssumption ==
    None \notin BrokerIds /\ None \notin Nat /\ None \notin Lifecycle

NewLifecycle(i) ==
    [intent |-> i, status |-> "PLANNED", filled |-> 0, brokerId |-> None]

\* OrderLifecycle.with_status: an absent broker id keeps the stored one.
WithStatus(l, target, id) ==
    [l EXCEPT !.status = target, !.brokerId = IF id = None THEN @ ELSE id]

\* Mutant: fills may follow a cancellation.
CanTransitionLate(l, target) ==
    \/ target = l.status
    \/ <<l.status, target>> \in Allowed
    \/ l.status = "CANCELED" /\ target \in {"PARTIALLY_FILLED", "FILLED"}

\* Mutant: an order awaiting reconciliation cannot become filled.
CanTransitionNarrow(l, target) ==
    /\ <<l.status, target>> # <<"RECONCILIATION_REQUIRED", "FILLED">>
    /\ target = l.status \/ <<l.status, target>> \in Allowed

\* transition() raises unless the target is the current status or allowed.
CanTransition(l, target) == target = l.status \/ <<l.status, target>> \in Allowed

\* transition() to the current status returns its argument: a new broker id
\* is dropped in that case.
Transition(l, target, id) ==
    IF target = l.status THEN l ELSE WithStatus(l, target, id)

\* The lifecycle of a new intent once risk approved it: PLANNED ->
\* RISK_APPROVED -> SUBMITTING, both in memory.
Submitting(i) ==
    Transition(Transition(NewLifecycle(i), "RISK_APPROVED", None),
               "SUBMITTING", None)

\* The lifecycle of an intent that evaluate_order_risk rejected.
RiskRejected(i) == Transition(NewLifecycle(i), "REJECTED", None)

CanRequestCancel(l) ==
    /\ l.status \in {"SUBMITTED", "ACKNOWLEDGED", "WORKING",
                     "PARTIALLY_FILLED"}
    /\ l.brokerId # None

RequestCancel(l) == Transition(l, "PENDING_CANCEL", None)

-----------------------------------------------------------------------------
(* Broker updates *)

FillTypes == {"PARTIAL_FILL", "FILL"}
StatusTypes ==
    {"ACKNOWLEDGED", "WORKING", "CANCELED", "REJECTED", "EXPIRED"}

IsFill(u) == u.type \in FillTypes

\* The shape of a BrokerOrderUpdate.  event and execution stand for the pairs
\* (source, external_event_id) and (source, execution_id); their types are
\* parameters, since each adapter derives them in its own way.
UpdateShape(EventKeys, ExecutionKeys) ==
    [event : EventKeys, execution : ExecutionKeys \cup {None},
     order : ClientIds, book : Books, type : FillTypes \cup StatusTypes,
     brokerId : BrokerIds \cup {None}, quantity : Nat,
     cumulative : Nat \cup {None}]

\* BrokerOrderUpdate.__post_init__: the fill fields come with fills only.
WellFormed(u) ==
    IF IsFill(u) THEN u.execution # None /\ u.quantity > 0
                 ELSE u.execution = None /\ u.quantity = 0

IdentityMatches(l, u) ==
    /\ u.book = l.intent.book
    /\ u.order = l.intent.clientId
    /\ l.brokerId = None \/ u.brokerId = None \/ u.brokerId = l.brokerId

\* Mutant: the last execution replaces the earlier ones.
NewFilledLastOnly(l, u) == u.quantity

NewFilled(l, u) == l.filled + u.quantity

\* Mutant: a requested cancellation hides the last fill.
FillTargetCancelFirst(l, u) ==
    IF l.status = "PENDING_CANCEL" THEN "PENDING_CANCEL"
    ELSE IF NewFilled(l, u) = l.intent.quantity THEN "FILLED"
    ELSE "PARTIALLY_FILLED"

FillTarget(l, u) ==
    IF NewFilled(l, u) = l.intent.quantity THEN "FILLED"
    ELSE IF l.status = "PENDING_CANCEL" THEN "PENDING_CANCEL"
    ELSE "PARTIALLY_FILLED"

\* Mutant: the cumulative quantity is not compared.
FillAcceptedUnchecked(l, u) ==
    /\ NewFilled(l, u) <= l.intent.quantity
    /\ CanTransition(l, FillTarget(l, u))

FillAccepted(l, u) ==
    /\ u.cumulative # None => u.cumulative = NewFilled(l, u)
    /\ NewFilled(l, u) <= l.intent.quantity
    /\ CanTransition(l, FillTarget(l, u))

\* apply_broker_update() returns; otherwise it raises ValueError.
UpdateAccepted(l, u) ==
    /\ IdentityMatches(l, u)
    /\ IF IsFill(u) THEN FillAccepted(l, u) ELSE CanTransition(l, u.type)

\* Mutant: the type of the update is taken for the new status.
ApplyTypeAsStatus(l, u) ==
    [WithStatus(l, u.type, u.brokerId) EXCEPT !.filled = @ + u.quantity]

\* The lifecycle that apply_broker_update() returns.
ApplyUpdate(l, u) ==
    IF IsFill(u)
    THEN [WithStatus(l, FillTarget(l, u), u.brokerId)
            EXCEPT !.filled = NewFilled(l, u)]
    ELSE Transition(l, u.type, u.brokerId)

=============================================================================
